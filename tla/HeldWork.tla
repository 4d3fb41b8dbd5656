------------------------------- MODULE HeldWork -------------------------------
(* What the hold queue promises the tenants: an entry is held until it runs, a *)
(* row is written for its owner and after a run, and only an entry that was    *)
(* shared, between two requests or with its own past, runs or returns again.   *)
EXTENDS Naturals

CONSTANTS
  Entries, Ids,
  ExecOf,    \* entry -> execution id
  OwnerOf,   \* entry -> the tenant who owns it
  MaxRuns,   \* bound: runs are counted so far
  NoTenant

VARIABLES
  held,    \* the entries that are held
  runs,    \* how often the DDL of an entry took effect
  log,     \* execution id -> the tenant of its row
  shared   \* the entries that are shared

vars == <<held, runs, log, shared>>

Init ==
  /\ held = {}
  /\ runs = [e \in Entries |-> 0]
  /\ log = [id \in Ids |-> NoTenant]
  /\ shared = {}

Hold(e) ==
  /\ e \notin held /\ runs[e] = 0
  /\ held' = held \cup {e}
  /\ UNCHANGED <<runs, log, shared>>

Run(e) ==
  /\ e \in held
  /\ runs[e] = 0 \/ e \in shared
  /\ runs' = [runs EXCEPT ![e] = IF runs[e] < MaxRuns THEN runs[e] + 1 ELSE MaxRuns]
  /\ UNCHANGED <<held, log, shared>>

\* The row of an execution is written once; then its entry need not be held.
Record(e) ==
  /\ e \in held /\ runs[e] > 0 /\ ExecOf[e] \in Ids
  /\ log' = [log EXCEPT ![ExecOf[e]] = IF log[ExecOf[e]] = NoTenant THEN OwnerOf[e]
                                       ELSE log[ExecOf[e]]]
  /\ held' \in {held, held \ {e}}
  /\ UNCHANGED <<runs, shared>>

Share(e) ==
  /\ e \in held
  /\ shared' = shared \cup {e}
  /\ UNCHANGED <<held, runs, log>>

\* A request that shares an entry has it still when it is gone for the others.
Return(e) ==
  /\ e \in shared
  /\ held' = held \cup {e}
  /\ UNCHANGED <<runs, log, shared>>

\* A request that fails at the wrong moment loses the entry.
Lose(e) ==
  /\ held' = held \ {e}
  /\ UNCHANGED <<runs, log, shared>>

Next ==
  \E e \in Entries :
    Hold(e) \/ Run(e) \/ Record(e) \/ Share(e) \/ Return(e) \/ Lose(e)

Spec == Init /\ [][Next]_vars
===============================================================================
