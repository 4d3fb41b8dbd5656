---------------------------- MODULE SettingsAudit ----------------------------
(***************************************************************************)
(* The settings of a workspace, the audit log of their changes and the     *)
(* worker that prunes it: UpdateSettings of internal/handler/workspace.go, *)
(* UpdateWorkspaceSettings and PruneSettingsAuditLogs of                   *)
(* internal/repository/workspace.go, and the worker of                     *)
(* cmd/nacl-cloud/main.go.                                                 *)
(*                                                                         *)
(* Here the transaction of an update is NOT one action: its two statements *)
(* and its commit are three, because the order in which they lock the row  *)
(* of the workspace and draw the id of the log entry is what the           *)
(* properties are about.  What it wrote is seen by others at its commit.   *)
(* The database gives an entry its id from a sequence, which no rollback   *)
(* takes back, and as changed_at the time its transaction began.           *)
(***************************************************************************)
EXTENDS Authorization, Integers, FiniteSets

CONSTANTS
  Workspaces,  \* the workspaces at the start
  Values,      \* settings within the limits UpdateSettings checks
  Default,     \* what GetWorkspaceSettings answers for "{}"
  Requests,    \* slots for the PATCH .../settings in progress
  Retention,   \* retentionPeriod, 30 days
  Batch,       \* LIMIT 500
  MaxTime,     \* bound of the clock
  MaxId,       \* bound of the sequence of log ids
  NoSettings, NoWs

ASSUME SettingsAuditAssumption ==
  /\ Default \in Values
  /\ NoSettings \notin Values
  /\ NoWs \notin Workspaces
  /\ Retention \in Nat
  /\ Batch \in Nat \ {0}
  /\ MaxTime \in Nat
  /\ MaxId \in Nat

VARIABLES
  settings,   \* workspaces.settings, committed; NoSettings when the row is gone
  audit,      \* the committed rows of workspace_settings_audit
  clock,      \* the time, in days say
  nextId,     \* the sequence of log ids
  request,    \* slot -> the update it runs
  worker,     \* the pruning goroutine: its pc and the cutoff of its pass
  cancelled,  \* workerCtx is cancelled
  overtaken   \* history: the updates whose row was written since they read it

vars == <<settings, audit, clock, nextId, request, worker, cancelled, overtaken>>

Entries == [id: Nat, ws: Workspaces, old: Values, new: Values, at: Nat]

(***************************************************************************)
(* pc of an update: "idle", "fetched" (old settings read), "begun" (BEGIN  *)
(* sent), "updated" (row locked), "logged" (entry inserted).               *)
(***************************************************************************)
RequestRows == [pc: {"idle", "fetched", "begun", "updated", "logged"},
                ws: Workspaces \cup {NoWs},
                old: Values, new: Values,   \* oldSettings, settings
                at: Nat,                    \* the time of BEGIN
                id: Nat]                    \* the id of its entry

Idle == [pc |-> "idle", ws |-> NoWs, old |-> Default, new |-> Default,
         at |-> 0, id |-> 0]

\* The worker waits 5 seconds ("starting"), prunes, waits for the ticker.
WorkerRows == [pc: {"starting", "waiting", "pruning", "stopped"}, cutoff: Int]

At(pc) == [pc |-> pc, cutoff |-> 0]

Init ==
  /\ settings = [w \in Workspaces |-> Default]
  /\ audit = {}
  /\ clock = 0
  /\ nextId = 1
  /\ request = [r \in Requests |-> Idle]
  /\ worker = At("starting")
  /\ cancelled = FALSE
  /\ overtaken = {}

Become(r, locals) == request' = [request EXCEPT ![r] = locals]

\* The transaction of r has updated the row of its workspace and locks it.
Holds(r) == /\ request[r].pc \in {"updated", "logged"}
            /\ settings[request[r].ws] # NoSettings

Locked(w) == \E r \in Requests : request[r].ws = w /\ Holds(r)

\* Slip: two arguments of the INSERT are swapped.
EntrySwapped(q) == [id |-> q.id, ws |-> q.ws, old |-> q.new, new |-> q.old,
                    at |-> q.at]

\* The log entry of an update, as its INSERT writes it.
EntryOf(q) == [id |-> q.id, ws |-> q.ws, old |-> q.old, new |-> q.new,
               at |-> q.at]

\* Bounds the model: time goes on.
Tick ==
  /\ clock < MaxTime
  /\ clock' = clock + 1
  /\ UNCHANGED <<settings, audit, nextId, request, worker, cancelled, overtaken>>

-----------------------------------------------------------------------------
(* PATCH /workspaces/:id/settings: UpdateSettings.                          *)

\* Admins, SREs and the owner may modify settings.
MaySave(role, owns) == IsAuthorized(role, "modify_settings") \/ owns

\* Slip: the error of GetWorkspaceSettings is not looked at.
FetchAnyOld(r, w, new, role, owns) ==
  /\ request[r].pc = "idle"
  /\ MaySave(role, owns)
  /\ Become(r, [pc |-> "fetched", ws |-> w, old |-> settings[w],
                new |-> new, at |-> 0, id |-> 0])
  /\ overtaken' = overtaken \ {r}
  /\ UNCHANGED <<settings, audit, clock, nextId, worker, cancelled>>

\* The checks pass and GetWorkspaceSettings reads the old values, outside the
\* transaction; without a row it fails and so does the request.
FetchOld(r, w, new, role, owns) ==
  /\ request[r].pc = "idle"
  /\ MaySave(role, owns)
  /\ settings[w] # NoSettings
  /\ Become(r, [pc |-> "fetched", ws |-> w, old |-> settings[w],
                new |-> new, at |-> 0, id |-> 0])
  /\ overtaken' = overtaken \ {r}
  /\ UNCHANGED <<settings, audit, clock, nextId, worker, cancelled>>

BeginTx(r) ==
  /\ request[r].pc = "fetched"
  /\ Become(r, [request[r] EXCEPT !.pc = "begun", !.at = clock])
  /\ UNCHANGED <<settings, audit, clock, nextId, worker, cancelled, overtaken>>

\* Slip: the log entry is inserted first, so its id is drawn without the lock.
UpdateRowUnlocked(r) ==
  /\ request[r].pc = "begun"
  /\ Become(r, [request[r] EXCEPT !.pc = "updated"])
  /\ UNCHANGED <<settings, audit, clock, nextId, worker, cancelled, overtaken>>

\* UPDATE workspaces: waits for the lock of the row, if there is a row.
UpdateRow(r) ==
  /\ request[r].pc = "begun"
  /\ ~Locked(request[r].ws)
  /\ Become(r, [request[r] EXCEPT !.pc = "updated"])
  /\ UNCHANGED <<settings, audit, clock, nextId, worker, cancelled, overtaken>>

InsertAudit(r) ==
  /\ request[r].pc = "updated"
  /\ nextId <= MaxId
  /\ nextId' = nextId + 1
  /\ Become(r, [request[r] EXCEPT !.pc = "logged", !.id = nextId])
  /\ UNCHANGED <<settings, audit, clock, worker, cancelled, overtaken>>

\* Without a row the UPDATE matched nothing, and its count is not looked at.
Commit(r) ==
  /\ request[r].pc = "logged"
  /\ settings' = [settings EXCEPT ![request[r].ws] =
                    IF @ = NoSettings THEN @ ELSE request[r].new]
  /\ audit' = audit \cup {EntryOf(request[r])}
  /\ Become(r, Idle)
  /\ overtaken' = (overtaken \cup {s \in Requests : request[s].ws = request[r].ws})
                    \ {r}
  /\ UNCHANGED <<clock, nextId, worker, cancelled>>

\* A statement fails or the connection is lost; the deferred Rollback runs.
Rollback(r) ==
  /\ request[r].pc # "idle"
  /\ Become(r, Idle)
  /\ overtaken' = overtaken \ {r}
  /\ UNCHANGED <<settings, audit, clock, nextId, worker, cancelled>>

\* DELETE /workspaces/:id, which waits for the row's lock; the log entries stay
\* or go with it, as the schema has it.
DeleteWorkspace(w) ==
  /\ settings[w] # NoSettings
  /\ ~Locked(w)
  /\ settings' = [settings EXCEPT ![w] = NoSettings]
  /\ audit' \in {audit, {e \in audit : e.ws # w}}
  /\ overtaken' = overtaken \cup {s \in Requests : request[s].ws = w}
  /\ UNCHANGED <<clock, nextId, request, worker, cancelled>>

-----------------------------------------------------------------------------
(* The pruning worker.                                                      *)

\* Slip: the retention period is counted from the wrong end of the day.
StartPassEarly ==
  /\ worker.pc \in {"starting", "waiting"}
  /\ worker' = [pc |-> "pruning", cutoff |-> clock - Retention + 1]
  /\ UNCHANGED <<settings, audit, clock, nextId, request, cancelled, overtaken>>

\* The 5 seconds after the start or the 24 hours are over.  When the context
\* is cancelled too, select picks either.
StartPass ==
  /\ worker.pc \in {"starting", "waiting"}
  /\ worker' = [pc |-> "pruning", cutoff |-> clock - Retention]
  /\ UNCHANGED <<settings, audit, clock, nextId, request, cancelled, overtaken>>

Expired(e) == e.at < worker.cutoff

\* One DELETE ... LIMIT of the loop, which ends when it deletes nothing.
DeleteBatch ==
  /\ worker.pc = "pruning"
  /\ LET expired == {e \in audit : Expired(e)}
     IN \E gone \in SUBSET expired :
          /\ IF Cardinality(expired) <= Batch THEN gone = expired
             ELSE Cardinality(gone) = Batch
          /\ audit' = audit \ gone
          /\ worker' = IF gone = {} THEN At("waiting") ELSE worker
  /\ UNCHANGED <<settings, clock, nextId, request, cancelled, overtaken>>

\* Slip: the worker ends when a pass fails.
FailedPassEndsWorker ==
  /\ worker.pc = "pruning"
  /\ worker' = At("stopped")
  /\ UNCHANGED <<settings, audit, clock, nextId, request, cancelled, overtaken>>

\* The DELETE fails, or the context is found cancelled: the pass is over.
PassFails ==
  /\ worker.pc = "pruning"
  /\ worker' = At("waiting")
  /\ UNCHANGED <<settings, audit, clock, nextId, request, cancelled, overtaken>>

\* SIGTERM: cancelWorker().
Cancel ==
  /\ ~cancelled
  /\ cancelled' = TRUE
  /\ UNCHANGED <<settings, audit, clock, nextId, request, worker, overtaken>>

\* select takes workerCtx.Done().
Stop ==
  /\ cancelled
  /\ worker.pc \in {"starting", "waiting"}
  /\ worker' = At("stopped")
  /\ UNCHANGED <<settings, audit, clock, nextId, request, cancelled, overtaken>>

\* The process ends, shut down or killed, and is started again: open
\* transactions roll back.
Restart ==
  /\ request' = [r \in Requests |-> Idle]
  /\ worker' = At("starting")
  /\ cancelled' = FALSE
  /\ overtaken' = {}
  /\ UNCHANGED <<settings, audit, clock, nextId>>

Next ==
  \/ Tick
  \/ \E r \in Requests, w \in Workspaces, new \in Values,
        role \in Roles \cup {NoRole}, owns \in BOOLEAN :
       FetchOld(r, w, new, role, owns)
  \/ \E r \in Requests : BeginTx(r)
  \/ \E r \in Requests : UpdateRow(r)
  \/ \E r \in Requests : InsertAudit(r)
  \/ \E r \in Requests : Commit(r)
  \/ \E r \in Requests : Rollback(r)
  \/ \E w \in Workspaces : DeleteWorkspace(w)
  \/ StartPass
  \/ DeleteBatch
  \/ PassFails
  \/ Cancel
  \/ Stop
  \/ Restart

Spec == Init /\ [][Next]_vars

(***************************************************************************)
(* Fairness of the worker.  Timers fire (SF on StartPass, even when the    *)
(* process is restarted again and again); DELETEs do not fail every time   *)
(* (SF on DeleteBatch).                                                    *)
(***************************************************************************)
FairSpec == /\ Spec
            /\ SF_vars(StartPass)
            /\ SF_vars(DeleteBatch)

-----------------------------------------------------------------------------
(* Properties.                                                              *)

\* Rows, requests and the worker have their types; an update has its workspace.
TypeOK ==
  /\ settings \in [Workspaces -> Values \cup {NoSettings}]
  /\ audit \subseteq Entries
  /\ clock \in Nat
  /\ nextId \in Nat
  /\ request \in [Requests -> RequestRows]
  /\ \A r \in Requests : request[r].pc # "idle" => request[r].ws \in Workspaces
  /\ worker \in WorkerRows
  /\ cancelled \in BOOLEAN
  /\ overtaken \subseteq Requests

\* What ChangesAreLogged needs of the updates in progress.
\* At most one transaction has updated the row of a workspace, and its entry is
\* newer than every committed one of the workspace: the UPDATE locks the row
\* before the INSERT draws the id.
EntriesInOrder ==
  /\ \A e \in audit : e.id < nextId
  /\ \A r \in Requests : request[r].pc = "logged" => request[r].id < nextId
  /\ \A r, s \in Requests :
       /\ Holds(r)
       /\ Holds(s)
       /\ request[r].ws = request[s].ws
       => r = s
  /\ \A r \in Requests : \A e \in audit :
       /\ Holds(r)
       /\ request[r].pc = "logged"
       /\ e.ws = request[r].ws
       => e.id < request[r].id

\* The cutoff of a pass in progress stays a retention period behind the clock.
CutoffIsPast == worker.pc = "pruning" => worker.cutoff <= clock - Retention

\* What a step does to the log: settings that change get one new entry that
\* says so, with an id above all earlier ones of the workspace.
Logs ==
  \A w \in Workspaces :
    settings'[w] \notin {settings[w], NoSettings} =>
      \E e \in audit' \ audit :
        /\ audit' = audit \cup {e}
        /\ e.ws = w
        /\ e.new = settings'[w]
        /\ \A f \in audit : f.ws = w => f.id < e.id

A == INSTANCE AuditedSettings

\* Of settings and log, an update in its three statements, its rollback and a pass
\* of many batches show as if each change were one step with its entry; so no
\* crash leaves one without the other.
ImplementsAuditedSettings == A!Spec

\* No change of settings goes unlogged, and the ids of the log follow the
\* order of the changes of a workspace, whatever overlaps or crashes.
ChangesAreLogged == [][Logs]_vars

\* What an entry tells of the past: it is of an update whose row was written since
\* it was read, or its old settings are those that it replaces, of a workspace
\* that exists, and it is the last in the list by changed_at too.
TellsThePast ==
  \A e \in audit' \ audit :
    \/ \E r \in overtaken : e = EntryOf(request[r])
    \/ /\ e.old = settings[e.ws]
       /\ \A f \in audit : f.ws = e.ws => f.at <= e.at

\* The old settings are read outside the transaction and the list is ordered by
\* the time of BEGIN.  Only updates that overlap can spoil either: an update that
\* no other change or deletion overtook logs what it replaced, in its place.
UnlessOvertaken == [][TellsThePast]_vars

\* What a step may remove: entries past the retention period, or those of a
\* workspace that is gone.
SparesRecent ==
  \A e \in audit \ audit' :
    \/ settings'[e.ws] = NoSettings
    \/ clock - e.at > Retention

\* Pruning never removes an entry within the retention period.
PruneSparesRecent == [][SparesRecent]_vars

\* An entry past the retention period is removed in the end, however often
\* passes fail, if the process is not being shut down.
OldEntriesGo ==
  \A i \in 1..MaxId :
    (\E e \in audit : e.id = i /\ clock - e.at > Retention)
      ~> (cancelled \/ \A e \in audit : e.id # i)
=============================================================================
