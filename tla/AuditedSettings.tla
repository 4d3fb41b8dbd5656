--------------------------- MODULE AuditedSettings ---------------------------
(* What those who read the settings of a workspace and the log of their       *)
(* changes are promised: each change and its entry are one step, an entry is  *)
(* removed only when it is old or with its workspace, and nothing else moves. *)
EXTENDS Integers

CONSTANTS
  Workspaces,  \* the workspaces at the start
  Default,     \* their settings then
  NoSettings,  \* those of a workspace that is gone
  Retention    \* how long an entry is kept

VARIABLES
  settings,  \* workspace -> its settings
  audit,     \* the entries of the log
  clock

vars == <<settings, audit, clock>>

Init ==
  /\ settings = [w \in Workspaces |-> Default]
  /\ audit = {}
  /\ clock = 0

\* An entry of the workspace is added, under an id of its own.
Log(e, w) ==
  /\ e \notin audit
  /\ audit' = audit \cup {e}
  /\ e.ws = w
  /\ e.at <= clock
  /\ \A f \in audit : f.id # e.id
  /\ clock' = clock

\* The settings change to what the entry says, the latest of its workspace.
Change(w) ==
  /\ settings[w] # NoSettings
  /\ \E e \in audit' :
       /\ Log(e, w)
       /\ \A f \in audit : f.ws = w => f.id < e.id
       /\ settings' = [settings EXCEPT ![w] = e.new]

\* A change that comes too late is logged too, and changes nothing.
MissedChange(w) ==
  /\ settings[w] = NoSettings
  /\ \E e \in audit' : Log(e, w)
  /\ settings' = settings

Close(w) ==
  /\ settings[w] # NoSettings
  /\ settings' = [settings EXCEPT ![w] = NoSettings]
  /\ audit' \in {audit, {e \in audit : e.ws # w}}
  /\ clock' = clock

Prune ==
  /\ audit' \subseteq audit
  /\ \A e \in audit \ audit' : clock - e.at > Retention
  /\ UNCHANGED <<settings, clock>>

Wait ==
  /\ clock' > clock
  /\ UNCHANGED <<settings, audit>>

Next ==
  \/ \E w \in Workspaces : Change(w) \/ MissedChange(w) \/ Close(w)
  \/ Prune
  \/ Wait

Spec == Init /\ [][Next]_vars
=============================================================================
