------------------------------ MODULE HoldQueue ------------------------------
(* The dispatch of a held execution (DispatchHoldQueue of handler/            *)
(* telemetry.go), by any number of requests at once: a Redis list that each   *)
(* reads and later changes, the DDL, and its row in telemetry_logs.  A step   *)
(* is a command or a statement; each may fail, with its effect or without.    *)
EXTENDS Authorization, Naturals, Sequences, FiniteSets

CONSTANTS
  Entries,       \* the payloads
  Ids, Tenants,
  ExecOf,        \* the execution_id of a payload, NoId if it has none
  TenantOf,      \* its tenant_id, NoTenant if it has none
  Blank,         \* those without SQL
  Default,       \* the tenant "admin", who owns what names no tenant
  Dispatches,    \* requests
  MaxRuns,       \* bound: runs are counted so far
  NoId, NoTenant, NoEntry

ASSUME EntriesAssumption ==
  /\ ExecOf \in [Entries -> Ids \cup {NoId}] /\ NoId \notin Ids
  /\ TenantOf \in [Entries -> Tenants \cup {NoTenant}] /\ NoTenant \notin Tenants
  /\ Blank \subseteq Entries /\ Default \in Tenants /\ NoEntry \notin Entries
ASSUME DispatchesAssumption == IsFiniteSet(Dispatches) /\ Dispatches # {}
ASSUME RunsAssumption == MaxRuns \in Nat \ {0, 1}

VARIABLES
  queue,      \* nacl:hold_queue
  runs,       \* how often the DDL of an entry took effect
  log,        \* the tenant in the telemetry_logs row of an execution id
  dispatch,   \* the requests between two steps
  excused     \* history: entries that two requests had in hand at once, or that
              \* were put back although their DDL had taken effect

vars == <<queue, runs, log, dispatch, excused>>

-----------------------------------------------------------------------------
Rows == [pc : {"idle", "remove", "run", "log", "push", "gone"},
         entry : Entries \cup {NoEntry}, tenant : Tenants \cup {NoTenant}]

Idle == [pc |-> "idle", entry |-> NoEntry, tenant |-> NoTenant]
Killed == [pc |-> "gone", entry |-> NoEntry, tenant |-> NoTenant]

TypeOK ==
  /\ queue \in Seq(Entries)
  /\ runs \in [Entries -> 0..MaxRuns]
  /\ log \in [Ids -> Tenants \cup {NoTenant}]
  /\ dispatch \in [Dispatches -> Rows]
  /\ excused \subseteq Entries

Init ==
  /\ queue = <<>>
  /\ runs = [e \in Entries |-> 0]
  /\ log = [id \in Ids |-> NoTenant]
  /\ dispatch = [d \in Dispatches |-> Idle]
  /\ excused = {}

Owner(e) == IF TenantOf[e] = NoTenant THEN Default ELSE TenantOf[e]

Queued(e) == \E i \in DOMAIN queue : queue[i] = e

\* A request that has found the entry and not answered yet.
Has(d, e) == dispatch[d].entry = e

\* One that has taken it off the queue.
Took(d, e) == Has(d, e) /\ dispatch[d].pc # "remove"

Become(d, row) == dispatch' = [dispatch EXCEPT ![d] = row]

Goto(d, pc) ==
  Become(d, [pc |-> pc, entry |-> dispatch[d].entry, tenant |-> dispatch[d].tenant])

-----------------------------------------------------------------------------
\* The scheduler holds an execution, at either end, when nothing is left of an
\* earlier hold of it.
Hold(e) ==
  /\ runs[e] = 0 /\ ~Queued(e) /\ \A d \in Dispatches : ~Has(d, e)
  /\ queue' \in {Append(queue, e), <<e>> \o queue}
  /\ UNCHANGED <<runs, log, dispatch, excused>>

\* The payload at which the loop over LRANGE stops for the execution of e.
First(e) ==
  \E i \in DOMAIN queue :
    /\ queue[i] = e
    /\ \A j \in 1..(i - 1) : ExecOf[queue[j]] # ExecOf[e]

\* Slip of Find: the tenant of the payload is not looked at.
FindAnyones(d, e, tenant, role) ==
  /\ dispatch[d].pc = "idle"
  /\ IsAuthorized(role, "dispatch_queue")
  /\ ExecOf[e] \in Ids /\ First(e)
  /\ e \notin Blank
  /\ Become(d, [pc |-> "remove", entry |-> e, tenant |-> tenant])
  /\ excused' = IF \E v \in Dispatches : Has(v, e) THEN excused \cup {e} ELSE excused
  /\ UNCHANGED <<queue, runs, log>>

\* A request of the tenant that names the execution of e and is not refused: 403
\* without the role or for another tenant, 404, 400 without SQL and the errors of
\* Redis change nothing.
Find(d, e, tenant, role) ==
  /\ dispatch[d].pc = "idle"
  /\ IsAuthorized(role, "dispatch_queue")
  /\ ExecOf[e] \in Ids /\ First(e)
  /\ Owner(e) = tenant
  /\ e \notin Blank
  /\ Become(d, [pc |-> "remove", entry |-> e, tenant |-> tenant])
  /\ excused' = IF \E v \in Dispatches : Has(v, e) THEN excused \cup {e} ELSE excused
  /\ UNCHANGED <<queue, runs, log>>

\* Slip of LRem: the payload stays.
LRemNone(e) == UNCHANGED queue

\* LREM key 1 payload: the first copy goes, if there is one.
LRem(e) ==
  \/ ~Queued(e) /\ UNCHANGED queue
  \/ \E i \in DOMAIN queue :
       /\ queue[i] = e
       /\ \A j \in 1..(i - 1) : queue[j] # e
       /\ queue' = [j \in 1..(Len(queue) - 1) |->
                      IF j < i THEN queue[j] ELSE queue[j + 1]]

\* How many were removed is not looked at.
Remove(d) ==
  /\ dispatch[d].pc = "remove"
  /\ LRem(dispatch[d].entry)
  /\ Goto(d, "run")
  /\ UNCHANGED <<runs, log, excused>>

\* An error ends the request, though the removal may have been made.
RemoveFails(d) ==
  /\ dispatch[d].pc = "remove"
  /\ LRem(dispatch[d].entry) \/ UNCHANGED queue
  /\ Become(d, Idle)
  /\ UNCHANGED <<runs, log, excused>>

\* The DDL of the entry takes effect; runs are counted up to the bound.
Ran(e) ==
  runs' = [runs EXCEPT ![e] = IF runs[e] < MaxRuns THEN runs[e] + 1 ELSE MaxRuns]

Execute(d) ==
  /\ dispatch[d].pc = "run"
  /\ Ran(dispatch[d].entry)
  /\ Goto(d, "log")
  /\ UNCHANGED <<queue, log, excused>>

\* Slip of ExecuteFails: an early return before the payload is pushed back.
ExecuteFailsForGood(d) ==
  /\ dispatch[d].pc = "run"
  /\ runs' = runs
  /\ Become(d, Idle)
  /\ UNCHANGED <<queue, log, excused>>

ExecuteFails(d) ==
  /\ dispatch[d].pc = "run"
  /\ Ran(dispatch[d].entry) \/ UNCHANGED runs
  /\ Goto(d, "push")
  /\ UNCHANGED <<queue, log, excused>>

\* INSERT ... ON CONFLICT DO NOTHING: the first tenant keeps the row.
Logged(d) ==
  LET id == ExecOf[dispatch[d].entry]
  IN  log' = [log EXCEPT ![id] = IF log[id] = NoTenant THEN dispatch[d].tenant
                                 ELSE log[id]]

LogManualDispatch(d) ==
  /\ dispatch[d].pc = "log"
  /\ Logged(d)
  /\ Become(d, Idle)
  /\ UNCHANGED <<queue, runs, excused>>

LogFails(d) ==
  /\ dispatch[d].pc = "log"
  /\ Logged(d) \/ UNCHANGED log
  /\ Goto(d, "push")
  /\ UNCHANGED <<queue, runs, excused>>

\* Slip of PushBack: the id instead of the payload.
PushId(d) ==
  /\ dispatch[d].pc = "push"
  /\ queue' = <<ExecOf[dispatch[d].entry]>> \o queue
  /\ Become(d, Idle)
  /\ UNCHANGED <<runs, log, excused>>

\* Slip of PushBack: pushed at once and again by a deferred call.
PushTwice(d) ==
  /\ dispatch[d].pc = "push"
  /\ queue' = <<dispatch[d].entry, dispatch[d].entry>> \o queue
  /\ excused' = IF runs[dispatch[d].entry] > 0
                THEN excused \cup {dispatch[d].entry} ELSE excused
  /\ Become(d, Idle)
  /\ UNCHANGED <<runs, log>>

\* LPUSH of the payload, after either failure.
PushBack(d) ==
  /\ dispatch[d].pc = "push"
  /\ queue' = <<dispatch[d].entry>> \o queue
  /\ excused' = IF runs[dispatch[d].entry] > 0
                THEN excused \cup {dispatch[d].entry} ELSE excused
  /\ Become(d, Idle)
  /\ UNCHANGED <<runs, log>>

\* Its error is not looked at.
PushFails(d) ==
  /\ dispatch[d].pc = "push"
  /\ Become(d, Idle)
  /\ UNCHANGED <<queue, runs, log, excused>>

\* The process of a request dies; another one serves the next request.
Crash(d) ==
  /\ dispatch[d].pc \notin {"idle", "gone"}
  /\ Become(d, Killed)
  /\ UNCHANGED <<queue, runs, log, excused>>

Restart(d) ==
  /\ dispatch[d].pc = "gone"
  /\ Become(d, Idle)
  /\ UNCHANGED <<queue, runs, log, excused>>

Step(d) ==
  \/ Remove(d) \/ RemoveFails(d)
  \/ Execute(d) \/ ExecuteFails(d)
  \/ LogManualDispatch(d) \/ LogFails(d)
  \/ PushBack(d) \/ PushFails(d)
  \/ Crash(d) \/ Restart(d)

Next ==
  \/ \E e \in Entries : Hold(e)
  \/ \E d \in Dispatches, e \in Entries, tenant \in Tenants, role \in Roles \cup {NoRole} :
       Find(d, e, tenant, role)
  \/ \E d \in Dispatches : Step(d)

Spec == Init /\ [][Next]_vars

-----------------------------------------------------------------------------
(* Properties.                                                               *)

\* The rows tell what was run: the tenant of a row owns an entry of that
\* execution, and its DDL took effect before the row was written.
LogTellsRuns ==
  \A id \in Ids : log[id] # NoTenant =>
    \E e \in Entries : ExecOf[e] = id /\ Owner(e) = log[id] /\ runs[e] > 0

\* The DDL of an entry takes effect once, with failures and crashes, unless two
\* requests had it in hand at once or it was put back after it took effect.
RunsOnce == \A e \in Entries \ excused : runs[e] <= 1

\* However requests for one entry overlap, fail and push back, there are never
\* more copies of it, in the queue and in hands, than there are requests.
Copies(e) == {i \in DOMAIN queue : queue[i] = e}
Hands(e) == {d \in Dispatches : Took(d, e)}
CopiesBounded ==
  \A e \in Entries :
    Cardinality(Copies(e)) + Cardinality(Hands(e)) <= Cardinality(Dispatches)

\* An entry that is queued, or taken off the queue, stays so until its execution
\* has a row: only a crash, a failed push or the lost answer of LREM loses it.
NoneLost ==
  [][\A e \in Entries :
       Queued(e) \/ (\E d \in Dispatches : Took(d, e)) =>
         \/ Queued(e)' \/ (\E d \in Dispatches : Took(d, e))'
         \/ ExecOf[e] \in Ids /\ log'[ExecOf[e]] # NoTenant
         \/ \E d \in Dispatches :
              Has(d, e) /\ (Crash(d) \/ PushFails(d) \/ RemoveFails(d))]_vars

Held == {e \in Entries : Queued(e) \/ \E d \in Dispatches : Took(d, e)}

W == INSTANCE HeldWork WITH
       OwnerOf <- [e \in Entries |-> Owner(e)],
       held <- Held,
       shared <- excused

\* The list, the requests that read, change and refill it, and their failures and
\* crashes implement a set of held entries: each runs once unless it is shared,
\* and the row of an execution is written once, after a run, for its owner.
ImplementsHeldWork == W!Spec
===============================================================================
