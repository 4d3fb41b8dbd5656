------------------------------- MODULE Upgrades -------------------------------
(* What the migrations at the start of a worker promise: the schema is the   *)
(* list of the files that made it, and a start extends it, in one step, by    *)
(* the missing versions of its directory in ascending order.                 *)
EXTENDS Integers, Sequences

CONSTANTS
  Files,        \* the migration files of all images
  VersionOf,    \* the number a file's name begins with
  Images        \* the directories a worker may be started with

VARIABLE schema

\* The versions of a list of files.
Applied(s) == {VersionOf[s[i]] : i \in DOMAIN s}

Init == schema = <<>>

Upgrade(dir) ==
  /\ schema' \in Seq(Files)
  /\ Len(schema) <= Len(schema')
  /\ \A i \in DOMAIN schema : schema'[i] = schema[i]
  /\ \A i \in Len(schema) + 1 .. Len(schema') :
       /\ schema'[i] \in dir
       /\ VersionOf[schema'[i]] \notin Applied(schema)
       /\ \A j \in Len(schema) + 1 .. i - 1 :
            VersionOf[schema'[j]] < VersionOf[schema'[i]]
  /\ \A f \in dir : VersionOf[f] \in Applied(schema')

Next == \E dir \in Images : Upgrade(dir)

Spec == Init /\ [][Next]_schema
===============================================================================
