------------------------------- MODULE EventLog -------------------------------
(* What the telemetry worker promises those who read telemetry_logs: a log of  *)
(* events, each whole and under its own id, of which the first to come stays.  *)
CONSTANTS
  Keys,       \* the execution ids
  Published,  \* the events there are, as records of their key and their row
  NoRow

VARIABLE log  \* execution id -> the row, or NoRow

Init == log = [k \in Keys |-> NoRow]

\* An event is added to the log, unless its id has a row already.
Add(e) ==
  /\ log[e.key] = NoRow
  /\ log' = [log EXCEPT ![e.key] = e.row]

Next == \E e \in Published : Add(e)

Spec == Init /\ [][Next]_log
===============================================================================
