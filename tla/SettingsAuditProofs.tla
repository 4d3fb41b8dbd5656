------------------------- MODULE SettingsAuditProofs -------------------------
(***************************************************************************)
(* Proofs about SettingsAudit, for any number of workspaces, of updates in *)
(* progress and of log entries, and any retention period and batch size.   *)
(***************************************************************************)
EXTENDS SettingsAudit, TLAPS

\* The inductive invariant.
Sound == TypeOK /\ EntriesInOrder /\ CutoffIsPast

\* The values the worker's steps give it have their type.
LEMMA WorkerRow ==
  /\ \A pc \in {"starting", "waiting", "pruning", "stopped"} :
       At(pc) \in WorkerRows /\ At(pc).pc = pc
  /\ \A cutoff \in Int : [pc |-> "pruning", cutoff |-> cutoff] \in WorkerRows
  BY DEF At, WorkerRows

LEMMA SoundInit == Init => Sound
<1> SUFFICES ASSUME Init PROVE Sound
  OBVIOUS
<1> USE SettingsAuditAssumption DEF Init, Idle
<1>1. Idle \in RequestRows
  BY DEF RequestRows
<1>2. TypeOK
  BY <1>1, WorkerRow DEF TypeOK
<1>3. EntriesInOrder
  BY DEF EntriesInOrder, Holds
<1>4. CutoffIsPast
  BY WorkerRow DEF CutoffIsPast
<1> QED
  BY <1>2, <1>3, <1>4 DEF Sound

\* A step of one update gives its slot a new value and leaves the others'.
LEMMA SlotTypes ==
  ASSUME TypeOK, NEW r \in Requests, NEW q \in RequestRows,
         q.pc # "idle" => q.ws \in Workspaces,
         Become(r, q)
  PROVE  /\ request' \in [Requests -> RequestRows]
         /\ \A s \in Requests : request'[s].pc # "idle" => request'[s].ws \in Workspaces
         /\ request'[r] = q
         /\ \A s \in Requests \ {r} : request'[s] = request[s]
  BY DEF TypeOK, Become

\* A step that neither touches the tables nor the sequence, and whose update
\* ends up outside of "updated" and "logged", keeps the order of the entries.
LEMMA QuietStep ==
  ASSUME TypeOK, EntriesInOrder, NEW r \in Requests, NEW q \in RequestRows,
         q.pc # "idle" => q.ws \in Workspaces,
         q.pc \notin {"updated", "logged"},
         Become(r, q),
         UNCHANGED <<settings, audit, clock, nextId, worker, cancelled>>,
         overtaken' \subseteq Requests
  PROVE  TypeOK' /\ EntriesInOrder'
<1>1. /\ request' \in [Requests -> RequestRows]
      /\ \A s \in Requests : request'[s].pc # "idle" => request'[s].ws \in Workspaces
      /\ request'[r] = q
      /\ \A s \in Requests \ {r} : request'[s] = request[s]
  BY SlotTypes
<1>2. TypeOK'
  BY <1>1 DEF TypeOK
<1>3. \A s \in Requests : Holds(s)' => s # r /\ Holds(s) /\ request'[s] = request[s]
  BY <1>1 DEF Holds
<1>4. \A s \in Requests : request'[s].pc = "logged" => s # r /\ request'[s] = request[s]
  BY <1>1
<1>5. EntriesInOrder'
  BY <1>3, <1>4 DEF EntriesInOrder
<1> QED
  BY <1>2, <1>5

LEMMA FetchStep ==
  ASSUME Sound, NEW r \in Requests, NEW w \in Workspaces, NEW new \in Values,
         NEW role, NEW owns, FetchOld(r, w, new, role, owns)
  PROVE  Sound'
<1> DEFINE q == [pc |-> "fetched", ws |-> w, old |-> settings[w], new |-> new,
                 at |-> 0, id |-> 0]
<1>1. settings[w] \in Values
  BY DEF Sound, TypeOK, FetchOld
<1>3. /\ q \in RequestRows
      /\ q.ws = w
      /\ q.pc = "fetched"
  BY <1>1 DEF RequestRows
<1>4. /\ Become(r, q)
      /\ UNCHANGED <<settings, audit, clock, nextId, worker, cancelled>>
      /\ overtaken' \subseteq Requests
  BY DEF FetchOld, Sound, TypeOK
<1> HIDE DEF q
<1>5. TypeOK' /\ EntriesInOrder'
  BY <1>3, <1>4, QuietStep DEF Sound
<1> QED
  BY <1>4, <1>5 DEF Sound, CutoffIsPast

LEMMA BeginStep ==
  ASSUME Sound, NEW r \in Requests, BeginTx(r)
  PROVE  Sound'
<1> DEFINE q == [request[r] EXCEPT !.pc = "begun", !.at = clock]
<1>1. request[r] \in RequestRows /\ clock \in Nat /\ request[r].ws \in Workspaces
  BY DEF Sound, TypeOK, BeginTx
<1>2. /\ q \in RequestRows
      /\ q.ws = request[r].ws
      /\ q.pc = "begun"
  BY <1>1, Zenon DEF RequestRows
<1>3. /\ Become(r, q)
      /\ UNCHANGED <<settings, audit, clock, nextId, worker, cancelled>>
      /\ overtaken' \subseteq Requests
  BY DEF BeginTx, Sound, TypeOK
<1> HIDE DEF q
<1>4. TypeOK' /\ EntriesInOrder'
  BY <1>1, <1>2, <1>3, QuietStep DEF Sound
<1> QED
  BY <1>3, <1>4 DEF Sound, CutoffIsPast

\* The UPDATE waits for the lock, so its transaction is the only one that holds
\* the row; its entry has no id yet.
LEMMA UpdateStep ==
  ASSUME Sound, NEW r \in Requests, UpdateRow(r)
  PROVE  Sound'
<1> DEFINE q == [request[r] EXCEPT !.pc = "updated"]
<1>1. request[r] \in RequestRows /\ request[r].ws \in Workspaces
  BY DEF Sound, TypeOK, UpdateRow
<1>2. /\ q \in RequestRows
      /\ q.ws = request[r].ws
      /\ q.pc = "updated"
  BY <1>1, Zenon DEF RequestRows
<1>3. /\ Become(r, q)
      /\ UNCHANGED <<settings, audit, clock, nextId, worker, cancelled>>
      /\ overtaken' \subseteq Requests
  BY DEF UpdateRow, Sound, TypeOK
<1> HIDE DEF q
<1>4. /\ request' \in [Requests -> RequestRows]
      /\ \A s \in Requests : request'[s].pc # "idle" => request'[s].ws \in Workspaces
      /\ request'[r] = q
      /\ \A s \in Requests \ {r} : request'[s] = request[s]
  BY <1>1, <1>2, <1>3, SlotTypes DEF Sound
<1>5. TypeOK'
  BY <1>3, <1>4 DEF Sound, TypeOK
<1>6. \A s \in Requests \ {r} : Holds(s)' => Holds(s) /\ request[s].ws # request[r].ws
  BY <1>3, <1>4 DEF Holds, UpdateRow, Locked
<1>7. \A s \in Requests : request'[s].pc = "logged" => s # r /\ request'[s] = request[s]
  BY <1>2, <1>4
<1>8. EntriesInOrder'
  BY <1>2, <1>3, <1>4, <1>6, <1>7 DEF Sound, EntriesInOrder
<1> QED
  BY <1>3, <1>5, <1>8 DEF Sound, CutoffIsPast

\* The INSERT draws an id above all others while it holds the row.
LEMMA InsertStep ==
  ASSUME Sound, NEW r \in Requests, InsertAudit(r)
  PROVE  Sound'
<1> DEFINE q == [request[r] EXCEPT !.pc = "logged", !.id = nextId]
<1>1. /\ request[r] \in RequestRows
      /\ request[r].ws \in Workspaces
      /\ request[r].pc = "updated"
      /\ nextId \in Nat
  BY DEF Sound, TypeOK, InsertAudit
<1>2. /\ q \in RequestRows
      /\ q.ws = request[r].ws
      /\ q.pc = "logged"
      /\ q.id = nextId
  BY <1>1, Zenon DEF RequestRows
<1>3. /\ Become(r, q)
      /\ UNCHANGED <<settings, audit, clock, worker, cancelled>>
      /\ nextId' = nextId + 1
      /\ overtaken' \subseteq Requests
  BY DEF InsertAudit, Sound, TypeOK
<1> HIDE DEF q
<1>4. /\ request' \in [Requests -> RequestRows]
      /\ \A s \in Requests : request'[s].pc # "idle" => request'[s].ws \in Workspaces
      /\ request'[r] = q
      /\ \A s \in Requests \ {r} : request'[s] = request[s]
  BY <1>1, <1>2, <1>3, SlotTypes DEF Sound
<1>5. TypeOK'
  BY <1>1, <1>3, <1>4 DEF Sound, TypeOK
<1>6. \A s \in Requests : Holds(s)' => Holds(s) /\ request'[s].ws = request[s].ws
  BY <1>1, <1>2, <1>3, <1>4 DEF Holds
<1>7. \A e \in audit' : e.id < nextId /\ e.id \in Nat
  BY <1>3 DEF Sound, EntriesInOrder, TypeOK, Entries
<1>8. \A s \in Requests : /\ request[s].id \in Nat
                          /\ request[s].pc = "logged" => request[s].id < nextId
  BY DEF Sound, EntriesInOrder, TypeOK, RequestRows
<1>9. \A e \in audit' : e.id < nextId'
  BY <1>1, <1>3, <1>7
<1>10. \A s \in Requests : request'[s].pc = "logged" => request'[s].id < nextId'
  BY <1>1, <1>2, <1>3, <1>4, <1>8
<1>11. \A s, u \in Requests :
         Holds(s)' /\ Holds(u)' /\ request'[s].ws = request'[u].ws => s = u
  BY <1>6 DEF Sound, EntriesInOrder
<1>12. ASSUME NEW s \in Requests, NEW e \in audit', Holds(s)',
              request'[s].pc = "logged", e.ws = request'[s].ws
       PROVE  e.id < request'[s].id
  <2>1. CASE s = r
    BY <1>2, <1>4, <1>7, <2>1
  <2>2. CASE s # r
    BY <1>3, <1>4, <1>6, <1>12, <2>2 DEF Sound, EntriesInOrder
  <2> QED
    BY <2>1, <2>2
<1>13. EntriesInOrder'
  BY <1>9, <1>10, <1>11, <1>12 DEF EntriesInOrder
<1> QED
  BY <1>3, <1>5, <1>13 DEF Sound, CutoffIsPast

LEMMA IdleRow == Idle \in RequestRows /\ Idle.pc = "idle"
  BY SettingsAuditAssumption DEF Idle, RequestRows

\* The commit publishes the entry of the only transaction that holds the row,
\* so the entries others are about to commit in this workspace do not exist.
LEMMA CommitStep ==
  ASSUME Sound, NEW r \in Requests, Commit(r)
  PROVE  Sound'
<1> DEFINE w == request[r].ws
           e == EntryOf(request[r])
<1>1. /\ request[r] \in RequestRows
      /\ w \in Workspaces
      /\ request[r].pc = "logged"
  BY DEF Sound, TypeOK, Commit
<1>2. /\ e \in Entries
      /\ e.ws = w
      /\ e.id = request[r].id
  BY <1>1 DEF EntryOf, Entries, RequestRows
<1>3. /\ Become(r, Idle)
      /\ audit' = audit \cup {e}
      /\ UNCHANGED <<clock, nextId, worker, cancelled>>
      /\ overtaken' \subseteq Requests
  BY DEF Commit, Sound, TypeOK
<1>4. /\ settings' \in [Workspaces -> Values \cup {NoSettings}]
      /\ \A x \in Workspaces : settings'[x] = NoSettings <=> settings[x] = NoSettings
  BY <1>1, SettingsAuditAssumption DEF Commit, Sound, TypeOK, RequestRows
<1>5. /\ request' \in [Requests -> RequestRows]
      /\ \A s \in Requests : request'[s].pc # "idle" => request'[s].ws \in Workspaces
      /\ request'[r] = Idle
      /\ \A s \in Requests \ {r} : request'[s] = request[s]
  BY <1>3, IdleRow, SlotTypes DEF Sound
<1>6. TypeOK'
  BY <1>2, <1>3, <1>4, <1>5 DEF Sound, TypeOK
<1>7. \A s \in Requests :
        Holds(s)' => s # r /\ Holds(s) /\ request'[s] = request[s]
  BY <1>4, <1>5, IdleRow DEF Holds, Sound, TypeOK
<1>8. \A s \in Requests : request'[s].pc = "logged" => s # r /\ request'[s] = request[s]
  BY <1>5, IdleRow
<1>9. \A s \in Requests : Holds(s)' => request[s].ws # w
  <2> SUFFICES ASSUME NEW s \in Requests, Holds(s)', request[s].ws = w
               PROVE  FALSE
    OBVIOUS
  <2>1. Holds(s) /\ s # r
    BY <1>7
  <2>2. Holds(r)
    BY <1>1, <2>1 DEF Holds
  <2> QED
    BY <2>1, <2>2 DEF Sound, EntriesInOrder
<1>10. e.id < nextId
  BY <1>1, <1>2 DEF Sound, EntriesInOrder
<1> HIDE DEF w, e
<1>11. EntriesInOrder'
  BY <1>2, <1>3, <1>7, <1>8, <1>9, <1>10 DEF Sound, EntriesInOrder
<1> QED
  BY <1>3, <1>6, <1>11 DEF Sound, CutoffIsPast

LEMMA RollbackStep ==
  ASSUME Sound, NEW r \in Requests, Rollback(r)
  PROVE  Sound'
<1>1. /\ Become(r, Idle)
      /\ UNCHANGED <<settings, audit, clock, nextId, worker, cancelled>>
      /\ overtaken' \subseteq Requests
  BY DEF Rollback, Sound, TypeOK
<1>2. TypeOK' /\ EntriesInOrder'
  BY <1>1, IdleRow, QuietStep DEF Sound
<1> QED
  BY <1>1, <1>2 DEF Sound, CutoffIsPast

\* Removing entries, ending updates and losing rows keep the order.
LEMMA ShrinkStep ==
  ASSUME EntriesInOrder, TypeOK,
         audit' \subseteq audit, nextId' = nextId,
         \A w \in Workspaces : settings'[w] # NoSettings => settings[w] = settings'[w],
         \A r \in Requests : request'[r] = request[r] \/ request'[r] = Idle
  PROVE  EntriesInOrder'
<1>1. \A r \in Requests : request'[r].pc # "idle" => request'[r] = request[r]
  BY IdleRow
<1>2. \A r \in Requests : Holds(r)' => Holds(r) /\ request'[r] = request[r]
  BY <1>1 DEF Holds, TypeOK
<1> QED
  BY <1>1, <1>2 DEF EntriesInOrder

LEMMA DeleteWorkspaceStep ==
  ASSUME Sound, NEW w \in Workspaces, DeleteWorkspace(w)
  PROVE  Sound'
<1> USE DEF Sound, DeleteWorkspace
<1>1. TypeOK'
  BY DEF TypeOK
<1>2. EntriesInOrder'
  BY ShrinkStep DEF TypeOK
<1> QED
  BY <1>1, <1>2 DEF CutoffIsPast

LEMMA WorkerSteps ==
  ASSUME Sound, Tick \/ StartPass \/ DeleteBatch \/ PassFails \/ Cancel \/ Stop
  PROVE  Sound'
<1> USE DEF Sound
<1>1. clock \in Nat /\ Retention \in Nat /\ worker.cutoff \in Int
  BY SettingsAuditAssumption DEF TypeOK, WorkerRows
<1>2. /\ UNCHANGED <<settings, nextId, request>>
      /\ audit' \subseteq audit
  BY DEF Tick, StartPass, DeleteBatch, PassFails, Cancel, Stop
<1>3. clock' \in Nat /\ clock' >= clock
  BY <1>1 DEF Tick, StartPass, DeleteBatch, PassFails, Cancel, Stop
<1> DEFINE started == [pc |-> "pruning", cutoff |-> clock - Retention]
<1>4. started \in WorkerRows /\ started.cutoff = clock - Retention
  BY <1>1, WorkerRow
<1>5. \/ worker' \in {worker, started}
      \/ worker' = At("waiting")
      \/ worker' = At("stopped")
  BY DEF Tick, StartPass, DeleteBatch, PassFails, Cancel, Stop
<1> HIDE DEF started
<1>6. worker' \in WorkerRows /\ cancelled' \in BOOLEAN /\ overtaken' \subseteq Requests
  <2>1. worker' \in WorkerRows
    BY <1>4, <1>5, WorkerRow DEF TypeOK
  <2>2. cancelled' \in BOOLEAN /\ overtaken' \subseteq Requests
    BY DEF Tick, StartPass, DeleteBatch, PassFails, Cancel, Stop, TypeOK
  <2> QED
    BY <2>1, <2>2
<1>7. TypeOK'
  BY <1>2, <1>3, <1>6 DEF TypeOK
<1>8. EntriesInOrder'
  BY <1>2, ShrinkStep DEF TypeOK
<1>9. \/ worker' = worker
      \/ worker'.pc # "pruning"
      \/ worker'.cutoff = clock - Retention
  BY <1>4, <1>5, WorkerRow
<1>10. CutoffIsPast'
  BY <1>1, <1>3, <1>9 DEF CutoffIsPast
<1> QED
  BY <1>7, <1>8, <1>10

LEMMA RestartStep ==
  ASSUME Sound, Restart
  PROVE  Sound'
<1> USE DEF Sound, Restart
<1>1. TypeOK'
  BY IdleRow, WorkerRow DEF TypeOK
<1>2. EntriesInOrder'
  BY ShrinkStep DEF TypeOK
<1> QED
  BY <1>1, <1>2, WorkerRow DEF CutoffIsPast

LEMMA SoundStep == Sound /\ [Next]_vars => Sound'
<1> SUFFICES ASSUME Sound, [Next]_vars PROVE Sound'
  OBVIOUS
<1>1. CASE UNCHANGED vars
  BY <1>1 DEF vars, Sound, TypeOK, EntriesInOrder, CutoffIsPast, Holds
<1>2. CASE Next
  BY <1>2, FetchStep, BeginStep, UpdateStep, InsertStep, CommitStep,
     RollbackStep, DeleteWorkspaceStep, WorkerSteps, RestartStep DEF Next
<1> QED
  BY <1>1, <1>2

\* The inductive invariant holds in every reachable state.
THEOREM AlwaysSound == Spec => []Sound
  BY SoundInit, SoundStep, PTL DEF Spec

\* TypeOK holds in every reachable state.
THEOREM TypeCorrect == Spec => []TypeOK
<1>1. Sound => TypeOK
  BY DEF Sound
<1> QED
  BY <1>1, AlwaysSound, PTL

\* The row lock orders the ids of the log, for any number of updates.
THEOREM LogInOrder == Spec => []EntriesInOrder
<1>1. Sound => EntriesInOrder
  BY DEF Sound
<1> QED
  BY <1>1, AlwaysSound, PTL

LEMMA CommitLogs ==
  ASSUME Sound, NEW r \in Requests, Commit(r)
  PROVE  Logs
<1> SUFFICES ASSUME NEW w \in Workspaces,
                    settings'[w] \notin {settings[w], NoSettings}
             PROVE  \E e \in audit' \ audit :
                      /\ audit' = audit \cup {e}
                      /\ e.ws = w
                      /\ e.new = settings'[w]
                      /\ \A f \in audit : f.ws = w => f.id < e.id
  BY DEF Logs
<1> DEFINE e == EntryOf(request[r])
<1>1. /\ request[r].pc = "logged"
      /\ request[r].ws \in Workspaces
      /\ request[r] \in RequestRows
  BY DEF Sound, TypeOK, Commit
<1>2. /\ w = request[r].ws
      /\ settings[w] # NoSettings
      /\ settings'[w] = request[r].new
  BY <1>1 DEF Commit, Sound, TypeOK
<1>3. Holds(r)
  BY <1>1, <1>2 DEF Holds
<1>4. \A f \in audit : f.ws = w => f.id < request[r].id
  BY <1>1, <1>2, <1>3 DEF Sound, EntriesInOrder
<1>5. e.ws = w /\ e.new = settings'[w] /\ e.id = request[r].id
  BY <1>2 DEF EntryOf
<1>6. request[r].id \in Nat
  BY <1>1 DEF RequestRows
<1>7. audit' = audit \cup {e}
  BY DEF Commit
<1> HIDE DEF e
<1>8. e \notin audit
  BY <1>4, <1>5, <1>6
<1> QED
  BY <1>4, <1>5, <1>7, <1>8

LEMMA StepLogs == Sound /\ [Next]_vars => Logs
<1> SUFFICES ASSUME Sound, [Next]_vars PROVE Logs
  OBVIOUS
<1>1. CASE \E r \in Requests : Commit(r)
  BY <1>1, CommitLogs
<1>2. CASE settings' = settings
  BY <1>2 DEF Logs
<1>3. CASE \E w \in Workspaces : DeleteWorkspace(w)
  BY <1>3 DEF Logs, DeleteWorkspace, Sound, TypeOK
<1>4. CASE Next
  BY <1>1, <1>2, <1>3, <1>4
     DEF Next, Tick, FetchOld, BeginTx, UpdateRow, InsertAudit, Rollback,
         StartPass, DeleteBatch, PassFails, Cancel, Stop, Restart
<1> QED
  BY <1>2, <1>4 DEF vars

\* No change of settings goes unlogged, and the ids of a workspace's log follow
\* the order of its changes.
THEOREM EveryChangeIsLogged == Spec => ChangesAreLogged
<1>1. Sound /\ [Next]_vars => [Logs]_vars
  BY StepLogs
<1> QED
  BY <1>1, AlwaysSound, PTL DEF Spec, ChangesAreLogged

LEMMA StepSpares == Sound /\ [Next]_vars => SparesRecent
<1> SUFFICES ASSUME Sound, [Next]_vars, NEW e \in audit \ audit',
                    settings'[e.ws] # NoSettings
             PROVE  clock - e.at > Retention
  BY DEF SparesRecent
<1>1. /\ e.at \in Nat
      /\ e.ws \in Workspaces
      /\ clock \in Nat
      /\ Retention \in Nat
      /\ worker.cutoff \in Int
  BY SettingsAuditAssumption DEF Sound, TypeOK, Entries, WorkerRows
<1>2. ASSUME DeleteBatch
      PROVE  clock - e.at > Retention
  <2>1. worker.pc = "pruning" /\ e.at < worker.cutoff
    BY <1>2 DEF DeleteBatch, Expired
  <2>2. worker.cutoff <= clock - Retention
    BY <2>1 DEF Sound, CutoffIsPast
  <2> QED
    BY <1>1, <2>1, <2>2
<1>3. ASSUME NEW w \in Workspaces, DeleteWorkspace(w)
      PROVE  FALSE
  BY <1>1, <1>3 DEF DeleteWorkspace, Sound, TypeOK
<1>4. CASE audit \subseteq audit'
  BY <1>4
<1>5. CASE Next
  BY <1>2, <1>3, <1>4, <1>5
     DEF Next, Tick, FetchOld, BeginTx, UpdateRow, InsertAudit, Commit, Rollback,
         StartPass, PassFails, Cancel, Stop, Restart
<1> QED
  BY <1>4, <1>5 DEF vars

\* Pruning removes no entry within the retention period, however long a pass
\* takes and whatever is logged meanwhile.
THEOREM RecentEntriesStay == Spec => PruneSparesRecent
<1>1. Sound /\ [Next]_vars => [SparesRecent]_vars
  BY StepSpares
<1> QED
  BY <1>1, AlwaysSound, PTL DEF Spec, PruneSparesRecent
-----------------------------------------------------------------------------
(* What an update that was not overtaken knows of the past.                  *)

\* Every entry, and the BEGIN of every update, is in the past.
TimesPast ==
  /\ \A e \in audit : e.at <= clock
  /\ \A r \in Requests : request[r].at <= clock

\* The old settings of an update are current, and the entries of its workspace
\* are older than its BEGIN, until another write of the row overtakes it.
CurrentUntilOvertaken ==
  \A r \in Requests \ overtaken :
    /\ request[r].pc # "idle" => request[r].old = settings[request[r].ws]
    /\ request[r].pc \in {"begun", "updated", "logged"} =>
         \A e \in audit : e.ws = request[r].ws => e.at <= request[r].at

Timed == TimesPast /\ CurrentUntilOvertaken

LEMMA TimedInit == Init => Timed
  BY IdleRow DEF Init, Timed, TimesPast, CurrentUntilOvertaken, Idle

LEMMA TimeTypes ==
  ASSUME Sound
  PROVE  /\ clock \in Nat
         /\ \A e \in audit : e.at \in Nat /\ e.ws \in Workspaces
         /\ \A r \in Requests : /\ request[r] \in RequestRows
                                /\ request[r].at \in Nat
                                /\ request[r].pc # "idle" => request[r].ws \in Workspaces
  BY DEF Sound, TypeOK, Entries, RequestRows

\* A step of one update, short of its commit, that leaves the row it read and,
\* once begun, the time of BEGIN alone.
LEMMA TimedSlotStep ==
  ASSUME Sound, Timed, NEW r \in Requests, NEW q \in RequestRows,
         q.pc # "idle" => q.ws \in Workspaces,
         Become(r, q), q.at <= clock,
         UNCHANGED <<settings, audit, clock>>,
         \A s \in Requests \ {r} : s \in overtaken' <=> s \in overtaken,
         r \notin overtaken' =>
           /\ q.pc # "idle" => q.old = settings[q.ws]
           /\ q.pc \in {"begun", "updated", "logged"} =>
                \A e \in audit : e.ws = q.ws => e.at <= q.at
  PROVE  Timed'
<1>1. /\ request'[r] = q
      /\ \A s \in Requests \ {r} : request'[s] = request[s]
  BY SlotTypes DEF Sound
<1>2. TimesPast'
  BY <1>1 DEF Timed, TimesPast
<1>3. CurrentUntilOvertaken'
  <2> SUFFICES ASSUME NEW s \in Requests, s \notin overtaken'
               PROVE  /\ request'[s].pc # "idle" =>
                           request'[s].old = settings[request'[s].ws]
                      /\ request'[s].pc \in {"begun", "updated", "logged"} =>
                           \A e \in audit : e.ws = request'[s].ws => e.at <= request'[s].at
    BY DEF CurrentUntilOvertaken
  <2>1. CASE s = r
    BY <1>1, <2>1
  <2>2. CASE s # r
    BY <1>1, <2>2 DEF Timed, CurrentUntilOvertaken
  <2> QED
    BY <2>1, <2>2
<1> QED
  BY <1>2, <1>3 DEF Timed

LEMMA TimedFetch ==
  ASSUME Sound, Timed, NEW r \in Requests, NEW w \in Workspaces, NEW new \in Values,
         NEW role, NEW owns, FetchOld(r, w, new, role, owns)
  PROVE  Timed'
<1> DEFINE q == [pc |-> "fetched", ws |-> w, old |-> settings[w], new |-> new,
                 at |-> 0, id |-> 0]
<1>1. settings[w] \in Values /\ clock \in Nat
  BY DEF Sound, TypeOK, FetchOld
<1>2. /\ q \in RequestRows
      /\ q.pc = "fetched" /\ q.ws = w /\ q.at <= clock /\ q.old = settings[q.ws]
  BY <1>1 DEF RequestRows
<1>3. /\ Become(r, q)
      /\ UNCHANGED <<settings, audit, clock>>
      /\ overtaken' = overtaken \ {r}
  BY DEF FetchOld
<1> HIDE DEF q
<1> QED
  BY <1>2, <1>3, TimedSlotStep

LEMMA TimedBegin ==
  ASSUME Sound, Timed, NEW r \in Requests, BeginTx(r)
  PROVE  Timed'
<1> DEFINE q == [request[r] EXCEPT !.pc = "begun", !.at = clock]
<1>1. request[r] \in RequestRows /\ clock \in Nat /\ request[r].ws \in Workspaces
  BY DEF Sound, TypeOK, BeginTx
<1>2. /\ q \in RequestRows
      /\ q.ws = request[r].ws /\ q.old = request[r].old
      /\ q.pc = "begun" /\ q.at = clock
  BY <1>1, Zenon DEF RequestRows
<1>3. /\ Become(r, q)
      /\ UNCHANGED <<settings, audit, clock, overtaken>>
      /\ request[r].pc = "fetched"
  BY DEF BeginTx
<1> HIDE DEF q
<1>4. q.at <= clock /\ \A e \in audit : e.at <= q.at
  BY <1>1, <1>2 DEF Timed, TimesPast
<1>5. r \notin overtaken => q.old = settings[q.ws]
  BY <1>2, <1>3 DEF Timed, CurrentUntilOvertaken
<1> QED
  BY <1>1, <1>2, <1>3, <1>4, <1>5, TimedSlotStep

\* The UPDATE and the INSERT leave what the update read.
LEMMA TimedWrite ==
  ASSUME Sound, Timed, NEW r \in Requests, UpdateRow(r) \/ InsertAudit(r)
  PROVE  Timed'
<1>1. /\ request[r] \in RequestRows /\ clock \in Nat /\ request[r].ws \in Workspaces
      /\ nextId \in Nat
  BY DEF Sound, TypeOK, UpdateRow, InsertAudit
<1>2. PICK q \in RequestRows :
        /\ Become(r, q)
        /\ q.ws = request[r].ws /\ q.old = request[r].old /\ q.at = request[r].at
        /\ q.pc \in {"updated", "logged"}
  <2>1. CASE UpdateRow(r)
    <3> DEFINE q == [request[r] EXCEPT !.pc = "updated"]
    <3>1. /\ q \in RequestRows
          /\ q.ws = request[r].ws /\ q.old = request[r].old /\ q.at = request[r].at
          /\ q.pc = "updated"
      BY <1>1, Zenon DEF RequestRows
    <3>2. Become(r, q)
      BY <2>1 DEF UpdateRow
    <3> HIDE DEF q
    <3> QED
      BY <3>1, <3>2
  <2>2. CASE InsertAudit(r)
    <3> DEFINE q == [request[r] EXCEPT !.pc = "logged", !.id = nextId]
    <3>1. /\ q \in RequestRows
          /\ q.ws = request[r].ws /\ q.old = request[r].old /\ q.at = request[r].at
          /\ q.pc = "logged"
      BY <1>1, Zenon DEF RequestRows
    <3>2. Become(r, q)
      BY <2>2 DEF InsertAudit
    <3> HIDE DEF q
    <3> QED
      BY <3>1, <3>2
  <2> QED
    BY <2>1, <2>2
<1>3. /\ UNCHANGED <<settings, audit, clock, overtaken>>
      /\ request[r].pc \in {"begun", "updated"}
  BY DEF UpdateRow, InsertAudit
<1>4. q.at <= clock
  BY <1>2 DEF Timed, TimesPast
<1>5. r \notin overtaken =>
        /\ q.old = settings[q.ws]
        /\ \A e \in audit : e.ws = q.ws => e.at <= q.at
  BY <1>2, <1>3 DEF Timed, CurrentUntilOvertaken
<1> QED
  BY <1>1, <1>2, <1>3, <1>4, <1>5, TimedSlotStep

\* A commit overtakes whoever has read the row it writes.
LEMMA TimedCommit ==
  ASSUME Sound, Timed, NEW r \in Requests, Commit(r)
  PROVE  Timed'
<1> DEFINE w == request[r].ws
           e == EntryOf(request[r])
<1>1. w \in Workspaces /\ request[r].pc = "logged"
  BY DEF Sound, TypeOK, Commit
<1>2. e.ws = w /\ e.at = request[r].at
  BY DEF EntryOf
<1>3. /\ Become(r, Idle)
      /\ audit' = audit \cup {e}
      /\ clock' = clock
      /\ overtaken' = (overtaken \cup {s \in Requests : request[s].ws = w}) \ {r}
      /\ \A x \in Workspaces \ {w} : settings'[x] = settings[x]
  BY DEF Commit, Sound, TypeOK
<1>4. /\ request'[r] = Idle
      /\ \A s \in Requests \ {r} : request'[s] = request[s]
  BY <1>3, IdleRow, SlotTypes DEF Sound
<1>5. Idle.at = 0 /\ Idle.pc = "idle" /\ clock \in Nat
  BY TimeTypes DEF Idle
<1> HIDE DEF w, e
<1>6. TimesPast'
  BY <1>2, <1>3, <1>4, <1>5 DEF Timed, TimesPast
<1>7. CurrentUntilOvertaken'
  <2> SUFFICES ASSUME NEW s \in Requests, s \notin overtaken',
                      request'[s].pc # "idle"
               PROVE  /\ request'[s].old = settings'[request'[s].ws]
                      /\ request'[s].pc \in {"begun", "updated", "logged"} =>
                           \A f \in audit' : f.ws = request'[s].ws => f.at <= request'[s].at
    BY DEF CurrentUntilOvertaken
  <2>1. s # r /\ request'[s] = request[s]
    BY <1>4, <1>5
  <2>2. s \notin overtaken /\ request[s].ws # w
    BY <1>3, <2>1
  <2>3. request[s].ws \in Workspaces
    BY <2>1, TimeTypes
  <2> QED
    BY <1>2, <1>3, <2>1, <2>2, <2>3 DEF Timed, CurrentUntilOvertaken
<1> QED
  BY <1>6, <1>7 DEF Timed

LEMMA TimedRollback ==
  ASSUME Sound, Timed, NEW r \in Requests, Rollback(r)
  PROVE  Timed'
<1>1. /\ Become(r, Idle)
      /\ UNCHANGED <<settings, audit, clock>>
      /\ overtaken' = overtaken \ {r}
  BY DEF Rollback
<1>2. Idle \in RequestRows /\ Idle.pc = "idle" /\ Idle.at <= clock
  BY IdleRow, TimeTypes DEF Idle
<1> QED
  BY <1>1, <1>2, TimedSlotStep

\* The deletion overtakes likewise.
LEMMA TimedDelete ==
  ASSUME Sound, Timed, NEW w \in Workspaces, DeleteWorkspace(w)
  PROVE  Timed'
<1>1. /\ audit' \subseteq audit
      /\ UNCHANGED <<clock, request>>
      /\ overtaken' = overtaken \cup {s \in Requests : request[s].ws = w}
      /\ \A x \in Workspaces \ {w} : settings'[x] = settings[x]
  BY DEF DeleteWorkspace, Sound, TypeOK
<1>2. TimesPast'
  BY <1>1 DEF Timed, TimesPast
<1>3. CurrentUntilOvertaken'
  <2> SUFFICES ASSUME NEW s \in Requests, s \notin overtaken',
                      request[s].pc # "idle"
               PROVE  /\ request[s].old = settings'[request[s].ws]
                      /\ request[s].pc \in {"begun", "updated", "logged"} =>
                           \A f \in audit' : f.ws = request[s].ws => f.at <= request[s].at
    BY <1>1 DEF CurrentUntilOvertaken
  <2>1. s \notin overtaken /\ request[s].ws \in Workspaces \ {w}
    BY <1>1, TimeTypes
  <2> QED
    BY <1>1, <2>1 DEF Timed, CurrentUntilOvertaken
<1> QED
  BY <1>2, <1>3 DEF Timed

LEMMA TimedWorker ==
  ASSUME Sound, Timed, Tick \/ StartPass \/ DeleteBatch \/ PassFails \/ Cancel \/ Stop
  PROVE  Timed'
<1>1. /\ UNCHANGED <<settings, request, overtaken>>
      /\ audit' \subseteq audit
      /\ clock' = clock \/ clock' = clock + 1
  BY DEF Tick, StartPass, DeleteBatch, PassFails, Cancel, Stop
<1>2. TimesPast'
  BY <1>1, TimeTypes DEF Timed, TimesPast
<1>3. CurrentUntilOvertaken'
  BY <1>1 DEF Timed, CurrentUntilOvertaken
<1> QED
  BY <1>2, <1>3 DEF Timed

LEMMA TimedRestart ==
  ASSUME Sound, Timed, Restart
  PROVE  Timed'
<1>1. \A r \in Requests : request'[r].pc = "idle" /\ request'[r].at = 0
  BY DEF Restart, Idle
<1>2. UNCHANGED <<settings, audit, clock>>
  BY DEF Restart
<1> QED
  BY <1>1, <1>2, TimeTypes DEF Timed, TimesPast, CurrentUntilOvertaken

LEMMA TimedStep == Sound /\ Timed /\ [Next]_vars => Timed'
<1> SUFFICES ASSUME Sound, Timed, [Next]_vars PROVE Timed'
  OBVIOUS
<1>1. CASE UNCHANGED vars
  BY <1>1 DEF vars, Timed, TimesPast, CurrentUntilOvertaken
<1>2. CASE Next
  BY <1>2, TimedFetch, TimedBegin, TimedWrite, TimedCommit, TimedRollback,
     TimedDelete, TimedWorker, TimedRestart DEF Next
<1> QED
  BY <1>1, <1>2

LEMMA AlwaysTimed == Spec => [](Sound /\ Timed)
<1>1. Init => Sound /\ Timed
  BY SoundInit, TimedInit
<1>2. Sound /\ Timed /\ [Next]_vars => (Sound /\ Timed)'
  BY SoundStep, TimedStep
<1> QED
  BY <1>1, <1>2, PTL DEF Spec

LEMMA StepTells == Sound /\ Timed /\ [Next]_vars => TellsThePast
<1> SUFFICES ASSUME Sound, Timed, [Next]_vars PROVE TellsThePast
  OBVIOUS
<1>1. ASSUME NEW r \in Requests, Commit(r)
      PROVE  TellsThePast
  <2> DEFINE e == EntryOf(request[r])
  <2>1. audit' = audit \cup {e} /\ request[r].pc = "logged"
    BY <1>1 DEF Commit
  <2>2. e.ws = request[r].ws /\ e.old = request[r].old /\ e.at = request[r].at
    BY DEF EntryOf
  <2>3. r \notin overtaken =>
          /\ e.old = settings[e.ws]
          /\ \A f \in audit : f.ws = e.ws => f.at <= e.at
    BY <2>1, <2>2 DEF Timed, CurrentUntilOvertaken
  <2>4. e = EntryOf(request[r])
    OBVIOUS
  <2> HIDE DEF e
  <2> QED
    BY <2>1, <2>3, <2>4 DEF TellsThePast
<1>2. CASE audit' \subseteq audit
  BY <1>2 DEF TellsThePast
<1>3. CASE Next
  BY <1>1, <1>2, <1>3
     DEF Next, Tick, FetchOld, BeginTx, UpdateRow, InsertAudit, Rollback,
         DeleteWorkspace, StartPass, DeleteBatch, PassFails, Cancel, Stop, Restart
<1> QED
  BY <1>2, <1>3 DEF vars

\* An update that no other write of its row overtook logs the settings that it
\* replaces, and comes last in the list, for any number of updates.
THEOREM OvertakenOnly == Spec => UnlessOvertaken
<1>1. Sound /\ Timed /\ [Next]_vars => [TellsThePast]_vars
  BY StepTells
<1> QED
  BY <1>1, AlwaysTimed, PTL DEF Spec, UnlessOvertaken
-----------------------------------------------------------------------------
(* The changes of settings are atomic with their entries: the refinement.    *)

\* The sequence gives no two entries the same id.
OwnIds ==
  /\ \A r, s \in Requests :
       /\ request[r].pc = "logged"
       /\ request[s].pc = "logged"
       /\ request[r].id = request[s].id
       => r = s
  /\ \A r \in Requests : \A e \in audit :
       request[r].pc = "logged" => e.id # request[r].id

\* A step after which no other update is about to commit keeps the ids apart.
LEMMA OwnIdsKept ==
  ASSUME OwnIds, audit' \subseteq audit,
         \A r \in Requests : request'[r].pc = "logged" => request'[r] = request[r]
  PROVE  OwnIds'
  BY DEF OwnIds

\* A step of one update that does not end up in "logged" keeps the others.
LEMMA OthersKept ==
  ASSUME Sound, NEW r \in Requests, NEW q, Become(r, q), q.pc # "logged"
  PROVE  \A s \in Requests : request'[s].pc = "logged" =>
           s # r /\ request'[s] = request[s]
  BY DEF Sound, TypeOK, Become

LEMMA OwnIdsInsert ==
  ASSUME Sound, OwnIds, NEW r \in Requests, InsertAudit(r)
  PROVE  OwnIds'
<1> DEFINE q == [request[r] EXCEPT !.pc = "logged", !.id = nextId]
<1>1. request[r] \in RequestRows /\ nextId \in Nat
  BY DEF Sound, TypeOK
<1>2. q.id = nextId
  BY <1>1, Zenon DEF RequestRows
<1>3. request'[r] = q /\ \A s \in Requests \ {r} : request'[s] = request[s]
  BY DEF InsertAudit, Become, Sound, TypeOK
<1>4. audit' = audit
  BY DEF InsertAudit
<1>5. \A e \in audit : e.id # nextId
  BY DEF Sound, EntriesInOrder, TypeOK, Entries
<1>6. \A s \in Requests : request[s].pc = "logged" => request[s].id # nextId
  BY DEF Sound, EntriesInOrder, TypeOK, RequestRows
<1> HIDE DEF q
<1> QED
  BY <1>2, <1>3, <1>4, <1>5, <1>6 DEF OwnIds

LEMMA OwnIdsCommit ==
  ASSUME Sound, OwnIds, NEW r \in Requests, Commit(r)
  PROVE  OwnIds'
<1> DEFINE e == EntryOf(request[r])
<1>1. /\ request[r].pc = "logged"
      /\ audit' = audit \cup {e}
      /\ Become(r, Idle)
  BY DEF Commit
<1>2. e.id = request[r].id
  BY DEF EntryOf
<1>3. \A s \in Requests : request'[s].pc = "logged" => s # r /\ request'[s] = request[s]
  BY <1>1, IdleRow, OthersKept
<1> HIDE DEF e
<1> QED
  BY <1>1, <1>2, <1>3 DEF OwnIds

LEMMA OwnIdsStep == Sound /\ OwnIds /\ [Next]_vars => OwnIds'
<1> SUFFICES ASSUME Sound, OwnIds, [Next]_vars PROVE OwnIds'
  OBVIOUS
<1>1. CASE UNCHANGED vars
  BY <1>1 DEF vars, OwnIds
<1>2. ASSUME NEW r \in Requests, NEW q, Become(r, q), q.pc # "logged", audit' = audit
      PROVE  OwnIds'
  <2>1. \A s \in Requests : request'[s].pc = "logged" => request'[s] = request[s]
    BY <1>2, OthersKept
  <2> QED
    BY <1>2, <2>1, OwnIdsKept
<1>3. ASSUME NEW r \in Requests, BeginTx(r) \/ UpdateRow(r)
      PROVE  OwnIds'
  <2>1. request[r] \in RequestRows
    BY DEF Sound, TypeOK
  <2>2. [request[r] EXCEPT !.pc = "begun", !.at = clock].pc # "logged"
    BY <2>1, Zenon DEF RequestRows
  <2>3. [request[r] EXCEPT !.pc = "updated"].pc # "logged"
    BY <2>1, Zenon DEF RequestRows
  <2>4. audit' = audit
    BY <1>3 DEF BeginTx, UpdateRow
  <2>5. CASE BeginTx(r)
    <3>1. Become(r, [request[r] EXCEPT !.pc = "begun", !.at = clock])
      BY <2>5 DEF BeginTx
    <3> QED
      BY <1>2, <2>2, <2>4, <3>1
  <2>6. CASE UpdateRow(r)
    <3>1. Become(r, [request[r] EXCEPT !.pc = "updated"])
      BY <2>6 DEF UpdateRow
    <3> QED
      BY <1>2, <2>3, <2>4, <3>1
  <2> QED
    BY <1>3, <2>5, <2>6
<1>4. ASSUME NEW r \in Requests, Rollback(r)
      PROVE  OwnIds'
  BY <1>2, <1>4, IdleRow DEF Rollback
<1>5. ASSUME NEW r \in Requests, NEW w \in Workspaces, NEW new \in Values,
             NEW role, NEW owns, FetchOld(r, w, new, role, owns)
      PROVE  OwnIds'
  BY <1>2, <1>5 DEF FetchOld
<1>6. ASSUME \/ \E w \in Workspaces : DeleteWorkspace(w)
             \/ Tick \/ StartPass \/ DeleteBatch \/ PassFails \/ Cancel \/ Stop
      PROVE  OwnIds'
  <2>1. audit' \subseteq audit /\ request' = request
    BY <1>6 DEF DeleteWorkspace, Tick, StartPass, DeleteBatch, PassFails, Cancel, Stop
  <2> QED
    BY <2>1, OwnIdsKept
<1>7. CASE Restart
  BY <1>7, IdleRow DEF Restart, OwnIds
<1> QED
  BY <1>1, <1>3, <1>4, <1>5, <1>6, <1>7, OwnIdsInsert, OwnIdsCommit DEF Next

LEMMA AlwaysTold == Spec => [](Sound /\ Timed /\ OwnIds)
<1>1. Init => Sound /\ Timed /\ OwnIds
  BY SoundInit, TimedInit, IdleRow DEF Init, OwnIds
<1>2. Sound /\ Timed /\ OwnIds /\ [Next]_vars => (Sound /\ Timed /\ OwnIds)'
  BY SoundStep, TimedStep, OwnIdsStep
<1> QED
  BY <1>1, <1>2, PTL DEF Spec

\* A commit changes the settings and the log at once, or comes too late.
LEMMA CommitChanges ==
  ASSUME Sound, Timed, OwnIds, NEW r \in Requests, Commit(r)
  PROVE  A!Change(request[r].ws) \/ A!MissedChange(request[r].ws)
<1> DEFINE w == request[r].ws
           e == EntryOf(request[r])
<1>1. /\ request[r].pc = "logged"
      /\ w \in Workspaces
      /\ audit' = audit \cup {e}
      /\ clock' = clock
      /\ settings' = [settings EXCEPT ![w] =
                        IF @ = NoSettings THEN @ ELSE request[r].new]
  BY DEF Commit, Sound, TypeOK
<1>2. e.ws = w /\ e.id = request[r].id /\ e.new = request[r].new /\ e.at <= clock
  BY DEF EntryOf, Timed, TimesPast
<1>3. \A f \in audit : f.id # e.id
  BY <1>1, <1>2 DEF OwnIds
<1>4. settings \in [Workspaces -> Values \cup {NoSettings}]
  BY DEF Sound, TypeOK
<1>5. settings[w] # NoSettings => \A f \in audit : f.ws = w => f.id < e.id
  BY <1>1, <1>2 DEF Sound, EntriesInOrder, Holds
<1>6. /\ settings[w] # NoSettings => settings' = [settings EXCEPT ![w] = e.new]
      /\ settings[w] = NoSettings => settings' = settings
  BY <1>1, <1>2, <1>4
<1> HIDE DEF e, w
<1>7. e \in audit' /\ e \notin audit
  BY <1>1, <1>3
<1>8. A!Log(e, w)
  BY <1>1, <1>2, <1>3, <1>7 DEF A!Log
<1>9. A!Change(w) \/ A!MissedChange(w)
  BY <1>5, <1>6, <1>7, <1>8 DEF A!Change, A!MissedChange
<1> QED
  BY <1>9 DEF w

LEMMA PassPrunes ==
  ASSUME Sound, DeleteBatch
  PROVE  A!Prune
<1>1. /\ audit' \subseteq audit
      /\ UNCHANGED <<settings, clock>>
      /\ worker.pc = "pruning"
      /\ \A e \in audit \ audit' : e.at < worker.cutoff
  BY DEF DeleteBatch, Expired
<1>2. worker.cutoff <= clock - Retention
  BY <1>1 DEF Sound, CutoffIsPast
<1>3. clock \in Nat /\ Retention \in Nat /\ worker.cutoff \in Int
  BY SettingsAuditAssumption DEF Sound, TypeOK, WorkerRows
<1>4. \A e \in audit : e.at \in Nat
  BY DEF Sound, TypeOK, Entries
<1> QED
  BY <1>1, <1>2, <1>3, <1>4 DEF A!Prune

LEMMA StepAudits ==
  ASSUME Sound, Timed, OwnIds, [Next]_vars
  PROVE  [A!Next]_<<settings, audit, clock>>
<1>1. CASE UNCHANGED <<settings, audit, clock>>
  BY <1>1
<1>2. ASSUME NEW r \in Requests, Commit(r)
      PROVE  A!Next
  <2>1. request[r].ws \in Workspaces
    BY <1>2 DEF Commit, Sound, TypeOK
  <2> QED
    BY <1>2, <2>1, CommitChanges DEF A!Next
<1>3. ASSUME NEW w \in Workspaces, DeleteWorkspace(w)
      PROVE  A!Next
  BY <1>3 DEF DeleteWorkspace, A!Close, A!Next
<1>4. CASE DeleteBatch
  BY <1>4, PassPrunes DEF A!Next
<1>5. CASE Tick
  <2>1. clock' > clock /\ UNCHANGED <<settings, audit>>
    BY <1>5 DEF Tick, Sound, TypeOK
  <2> QED
    BY <2>1 DEF A!Wait, A!Next
<1>6. CASE Next
  BY <1>1, <1>2, <1>3, <1>4, <1>5, <1>6
     DEF Next, FetchOld, BeginTx, UpdateRow, InsertAudit, Rollback,
         StartPass, PassFails, Cancel, Stop, Restart
<1> QED
  BY <1>1, <1>6 DEF vars

\* The settings and their log implement AuditedSettings: whatever overlaps, rolls
\* back, is deleted, pruned or restarted, each change and its entry are one step,
\* with an id of its own, and nothing else touches the log before its time.
THEOREM SettingsAreAudited == Spec => ImplementsAuditedSettings
<1>1. Init => A!Init
  BY DEF Init, A!Init
<1>2. Sound /\ Timed /\ OwnIds /\ [Next]_vars => [A!Next]_<<settings, audit, clock>>
  BY StepAudits
<1> QED
  BY <1>1, <1>2, AlwaysTold, PTL DEF Spec, ImplementsAuditedSettings, A!Spec, A!vars
=============================================================================
