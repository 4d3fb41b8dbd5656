--------------------------- MODULE TelemetryWorker ---------------------------
(***************************************************************************)
(* The telemetry worker, cmd/nacl-telemetry-worker/main.go: a reader takes *)
(* events from a Redis channel and starts a goroutine for each while a     *)
(* semaphore has room, and drops them while it has not; a goroutine parses *)
(* its event into a pooled struct and inserts it; a signal cancels the     *)
(* context and main waits for the goroutines.                              *)
(*                                                                         *)
(* An event is a record of what the properties tell apart: its id, its     *)
(* tenant and one nested object (compiler_metrics and blast_radius behave  *)
(* alike), each of which the JSON may leave out, and whether it decodes.   *)
(* Absent stands for "" and for an object of zeroes, Null for null.        *)
(***************************************************************************)
EXTENDS Naturals, Sequences, FiniteSets

CONSTANTS
  Messages,       \* the events published
  Workers,        \* the goroutines that may exist at the same time
  MaxWorkers,     \* capacity of sem, 50
  Events,         \* the structs eventPool.New may have made
  Unknown,        \* "unknown", the id of an event without one
  Admin,          \* "admin", the tenant of an event without one
  Absent, Null,
  FeedSize,       \* capacity of the channel of the subscription
  MaxDeliveries,  \* bound of the events Redis delivers
  NoMsg, NoEvent, NoRow

Ids == {m.id : m \in Messages} \cup {Absent, Unknown}
Tenants == {m.tenant : m \in Messages} \cup {Absent, Admin}
Metrics == {m.metrics : m \in Messages} \cup {Absent, Null}

ASSUME TelemetryWorkerAssumption ==
  /\ \A m \in Messages :
       m = [id |-> m.id, tenant |-> m.tenant, metrics |-> m.metrics,
            decodes |-> m.decodes] /\ m.decodes \in BOOLEAN
  /\ IsFiniteSet(Workers)
  /\ IsFiniteSet(Events) /\ MaxWorkers <= Cardinality(Events)
  /\ MaxWorkers \in Nat \ {0}
  /\ FeedSize \in Nat
  /\ MaxDeliveries \in Nat
  /\ Absent \notin {Null, Unknown, Admin}
  /\ NoMsg \notin Messages
  /\ NoEvent \notin Events

VARIABLES
  feed,        \* ch: the events delivered and not yet taken
  deliveries,  \* how many events were delivered
  reader,      \* the reader goroutine: its pc and msg
  sem,         \* tokens in the semaphore channel
  wg,          \* the counter of the WaitGroup
  worker,      \* goroutine -> its pc, payload and event
  pool,        \* the structs in eventPool
  event,       \* struct -> its contents
  rows,        \* telemetry_logs: execution_id -> the row, or NoRow
  cancelled,   \* ctx is cancelled
  main         \* "running", "waiting" in wg.Wait(), "leaving", "exited"

vars == <<feed, deliveries, reader, sem, wg, worker, pool, event, rows,
          cancelled, main>>

ReaderRows ==
  [pc: {"top", "subscribing", "sleeping", "listening", "holding", "done"},
   msg: Messages \cup {NoMsg}]

\* pc: "started", "parsing" (struct taken and reset), "writing", "putting"
\* (the struct is still to be returned), "releasing" (the token is still to
\* be returned), "finishing" (wg.Done() is still to come).
WorkerPcs == {"free", "started", "parsing", "writing", "putting",
              "releasing", "finishing"}

WorkerRows == [pc: WorkerPcs, msg: Messages \cup {NoMsg},
               event: Events \cup {NoEvent}]

Contents == [id: Ids, tenant: Tenants, metrics: Metrics]

Blank == [id |-> Absent, tenant |-> Absent, metrics |-> Absent]

TableRows == [tenant: Tenants \ {Absent}, metrics: Metrics \ {Null}]

Reading(pc) == [pc |-> pc, msg |-> NoMsg]

FreeWorker == [pc |-> "free", msg |-> NoMsg, event |-> NoEvent]

Init ==
  /\ feed = <<>>
  /\ deliveries = 0
  /\ reader = Reading("top")
  /\ sem = 0
  /\ wg = 0
  /\ worker = [w \in Workers |-> FreeWorker]
  /\ pool = {}
  /\ event = [e \in Events |-> Blank]
  /\ rows = [i \in Ids \ {Absent} |-> NoRow]
  /\ cancelled = FALSE
  /\ main = "running"

Alive == main # "exited"

Become(w, pc, e) ==
  worker' = [worker EXCEPT ![w] = [pc |-> pc, msg |-> worker[w].msg,
                                   event |-> e]]

At(w, pc) == Alive /\ worker[w].pc = pc

InUse == {worker[w].event : w \in {v \in Workers : worker[v].event # NoEvent}}

-----------------------------------------------------------------------------
(* The reader.                                                              *)

\* The loop starts over: it ends when ctx is cancelled, else it subscribes.
LoopTop ==
  /\ Alive
  /\ reader.pc = "top"
  /\ reader' = Reading(IF cancelled THEN "done" ELSE "subscribing")
  /\ UNCHANGED <<feed, deliveries, sem, wg, worker, pool, event, rows,
                 cancelled, main>>

Subscribed ==
  /\ Alive
  /\ reader.pc = "subscribing"
  /\ reader' = Reading("listening")
  /\ UNCHANGED <<feed, deliveries, sem, wg, worker, pool, event, rows,
                 cancelled, main>>

\* Receive fails, or the channel is closed and drained.
SubscriptionLost ==
  /\ Alive
  /\ reader.pc \in {"subscribing", "listening"}
  /\ feed = <<>>
  /\ reader' = Reading("sleeping")
  /\ UNCHANGED <<feed, deliveries, sem, wg, worker, pool, event, rows,
                 cancelled, main>>

\* time.Sleep(backoff), which does not look at ctx.
BackoffOver ==
  /\ Alive
  /\ reader.pc = "sleeping"
  /\ reader' = Reading("top")
  /\ UNCHANGED <<feed, deliveries, sem, wg, worker, pool, event, rows,
                 cancelled, main>>

\* Redis delivers an event to a subscriber; an event may be published again.
Deliver(m) ==
  /\ Alive
  /\ reader.pc \in {"listening", "holding"}
  /\ Len(feed) < FeedSize
  /\ deliveries < MaxDeliveries
  /\ feed' = Append(feed, m)
  /\ deliveries' = deliveries + 1
  /\ UNCHANGED <<reader, sem, wg, worker, pool, event, rows, cancelled, main>>

Take ==
  /\ Alive
  /\ reader.pc = "listening"
  /\ feed # <<>>
  /\ reader' = [pc |-> "holding", msg |-> Head(feed)]
  /\ feed' = Tail(feed)
  /\ UNCHANGED <<deliveries, sem, wg, worker, pool, event, rows, cancelled,
                 main>>

\* select takes ctx.Done(): the subscription is closed.
ReaderStops ==
  /\ Alive
  /\ cancelled
  /\ reader.pc = "listening"
  /\ reader' = Reading("done")
  /\ feed' = <<>>
  /\ UNCHANGED <<deliveries, sem, wg, worker, pool, event, rows, cancelled,
                 main>>

\* A token is sent to sem, wg.Add(1) and go.
Dispatch(w) ==
  /\ At(w, "free")
  /\ reader.pc = "holding"
  /\ sem < MaxWorkers
  /\ sem' = sem + 1
  /\ wg' = wg + 1
  /\ worker' = [worker EXCEPT ![w] = [pc |-> "started", msg |-> reader.msg,
                                      event |-> NoEvent]]
  /\ reader' = Reading("listening")
  /\ UNCHANGED <<feed, deliveries, pool, event, rows, cancelled, main>>

\* sem is full: the event is dropped.
DropSaturated ==
  /\ Alive
  /\ reader.pc = "holding"
  /\ sem = MaxWorkers
  /\ reader' = Reading("listening")
  /\ UNCHANGED <<feed, deliveries, sem, wg, worker, pool, event, rows,
                 cancelled, main>>

-----------------------------------------------------------------------------
(* A goroutine: processMessage and the deferred function around it.         *)

\* Slip: Reset forgets the fields of the nested objects.
ResetTopLevel(c) == [Blank EXCEPT !.metrics = c.metrics]

\* TelemetryEvent.Reset: a nil object is replaced by one of zeroes.
Reset(c) == Blank

\* Slip: the struct goes back to the pool as soon as it was taken.
GetAndPut(w) ==
  /\ At(w, "started")
  /\ \E e \in Events \ (InUse \ pool) :
       /\ pool' = pool \cup {e}
       /\ event' = [event EXCEPT ![e] = Reset(@)]
       /\ Become(w, "parsing", e)
  /\ UNCHANGED <<feed, deliveries, reader, sem, wg, rows, cancelled, main>>

\* eventPool.Get() and Reset().  The pool may make a new struct although it
\* has one: it keeps them per processor and lets the collector take them.
GetEvent(w) ==
  /\ At(w, "started")
  /\ \E e \in Events \ InUse :
       /\ pool' = pool \ {e}
       /\ event' = [event EXCEPT ![e] = Reset(IF e \in pool THEN @ ELSE Blank)]
       /\ Become(w, "parsing", e)
  /\ UNCHANGED <<feed, deliveries, reader, sem, wg, rows, cancelled, main>>

\* json.Unmarshal: a field the payload has replaces the struct's.
Merge(m, c) ==
  [id |-> IF m.id = Absent THEN c.id ELSE m.id,
   tenant |-> IF m.tenant = Absent THEN c.tenant ELSE m.tenant,
   metrics |-> IF m.metrics = Absent THEN c.metrics ELSE m.metrics]

\* A payload that decodes; ExecContext refuses a context already cancelled.
Parse(w) ==
  /\ At(w, "parsing")
  /\ worker[w].msg.decodes
  /\ event' = [event EXCEPT ![worker[w].event] = Merge(worker[w].msg, @)]
  /\ Become(w, IF cancelled THEN "putting" ELSE "writing", worker[w].event)
  /\ UNCHANGED <<feed, deliveries, reader, sem, wg, pool, rows, cancelled,
                 main>>

\* Slip: the semaphore is not released when the payload is malformed.
ParseFailsLeaks(w) ==
  /\ At(w, "parsing")
  /\ ~worker[w].msg.decodes
  /\ pool' = pool \cup {worker[w].event}
  /\ Become(w, "finishing", NoEvent)
  /\ UNCHANGED <<feed, deliveries, reader, sem, wg, event, rows, cancelled,
                 main>>

\* A payload that does not decode; it may have set some fields before.
ParseFails(w) ==
  /\ At(w, "parsing")
  /\ ~worker[w].msg.decodes
  /\ \E c \in {event[worker[w].event],
               Merge(worker[w].msg, event[worker[w].event])} :
       event' = [event EXCEPT ![worker[w].event] = c]
  /\ Become(w, "putting", worker[w].event)
  /\ UNCHANGED <<feed, deliveries, reader, sem, wg, pool, rows, cancelled,
                 main>>

\* Slip: a null object is not told from an object of zeroes.
RowOfNil(c) == [tenant |-> IF c.tenant = Absent THEN Admin ELSE c.tenant,
                metrics |-> c.metrics]

\* The default id and tenant, and the columns of an absent or null object.
KeyOf(c) == IF c.id = Absent THEN Unknown ELSE c.id

RowOf(c) == [tenant |-> IF c.tenant = Absent THEN Admin ELSE c.tenant,
             metrics |-> IF c.metrics = Null THEN Absent ELSE c.metrics]

\* INSERT ... ON CONFLICT (execution_id) DO NOTHING takes effect, whether its
\* answer arrives or not.
Write(w) ==
  /\ At(w, "writing")
  /\ LET c == event[worker[w].event]
     IN rows' = [rows EXCEPT ![KeyOf(c)] = IF @ = NoRow THEN RowOf(c) ELSE @]
  /\ Become(w, "putting", worker[w].event)
  /\ UNCHANGED <<feed, deliveries, reader, sem, wg, pool, event, cancelled,
                 main>>

\* The INSERT has no effect: it fails, after 5 seconds at the latest, or ctx is
\* cancelled.
WriteFails(w) ==
  /\ At(w, "writing")
  /\ Become(w, "putting", worker[w].event)
  /\ UNCHANGED <<feed, deliveries, reader, sem, wg, pool, event, rows,
                 cancelled, main>>

\* The deferred eventPool.Put.
PutEvent(w) ==
  /\ At(w, "putting")
  /\ pool' = pool \cup {worker[w].event}
  /\ Become(w, "releasing", NoEvent)
  /\ UNCHANGED <<feed, deliveries, reader, sem, wg, event, rows, cancelled,
                 main>>

Release(w) ==
  /\ At(w, "releasing")
  /\ sem' = sem - 1
  /\ Become(w, "finishing", NoEvent)
  /\ UNCHANGED <<feed, deliveries, reader, wg, pool, event, rows, cancelled,
                 main>>

Finish(w) ==
  /\ At(w, "finishing")
  /\ wg' = wg - 1
  /\ worker' = [worker EXCEPT ![w] = FreeWorker]
  /\ UNCHANGED <<feed, deliveries, reader, sem, pool, event, rows, cancelled,
                 main>>

-----------------------------------------------------------------------------
(* main.                                                                    *)

\* SIGINT or SIGTERM: cancel(), then wg.Wait().
Signal ==
  /\ main = "running"
  /\ cancelled' = TRUE
  /\ main' = "waiting"
  /\ UNCHANGED <<feed, deliveries, reader, sem, wg, worker, pool, event, rows>>

\* Slip: main waits for the semaphore to be filled, not for the WaitGroup.
WaitForTokens ==
  /\ main = "waiting"
  /\ sem = MaxWorkers
  /\ main' = "leaving"
  /\ UNCHANGED <<feed, deliveries, reader, sem, wg, worker, pool, event, rows,
                 cancelled>>

WaitReturns ==
  /\ main = "waiting"
  /\ wg = 0
  /\ main' = "leaving"
  /\ UNCHANGED <<feed, deliveries, reader, sem, wg, worker, pool, event, rows,
                 cancelled>>

\* main returns, which ends every goroutine where it is.
Exit ==
  /\ main = "leaving"
  /\ main' = "exited"
  /\ UNCHANGED <<feed, deliveries, reader, sem, wg, worker, pool, event, rows,
                 cancelled>>

\* The process is started again, after it exited or was killed.
Restart ==
  /\ feed' = <<>>
  /\ reader' = Reading("top")
  /\ sem' = 0
  /\ wg' = 0
  /\ worker' = [w \in Workers |-> FreeWorker]
  /\ pool' = {}
  /\ event' = [e \in Events |-> Blank]
  /\ cancelled' = FALSE
  /\ main' = "running"
  /\ UNCHANGED <<deliveries, rows>>

ReaderStep == \/ LoopTop
              \/ Subscribed
              \/ SubscriptionLost
              \/ BackoffOver
              \/ Take
              \/ ReaderStops
              \/ \E w \in Workers : Dispatch(w)
              \/ DropSaturated

WorkerStep(w) == \/ GetEvent(w)
                 \/ Parse(w)
                 \/ ParseFails(w)
                 \/ Write(w)
                 \/ WriteFails(w)
                 \/ PutEvent(w)
                 \/ Release(w)
                 \/ Finish(w)

MainStep == WaitReturns \/ Exit

Next ==
  \/ \E m \in Messages : Deliver(m)
  \/ ReaderStep
  \/ \E w \in Workers : WorkerStep(w)
  \/ Signal
  \/ MainStep
  \/ Restart

Spec == Init /\ [][Next]_vars

(***************************************************************************)
(* Fairness: goroutines run, and an INSERT ends after 5 seconds (WF on     *)
(* every goroutine and on main); select is fair among its ready cases (SF  *)
(* on ReaderStops).  Nothing makes Redis deliver or the process be stopped *)
(* or started.                                                             *)
(***************************************************************************)
FairSpec == /\ Spec
            /\ WF_vars(ReaderStep)
            /\ SF_vars(ReaderStops)
            /\ \A w \in Workers : WF_vars(WorkerStep(w))
            /\ WF_vars(MainStep)

-----------------------------------------------------------------------------
(* Properties.                                                              *)

\* The variables have their types; a goroutine has its payload while it runs
\* and its struct from GetEvent to PutEvent.
TypeOK ==
  /\ feed \in Seq(Messages)
  /\ deliveries \in Nat
  /\ reader \in ReaderRows
  /\ reader.pc = "holding" => reader.msg \in Messages
  /\ sem \in Nat
  /\ wg \in Nat
  /\ worker \in [Workers -> WorkerRows]
  /\ \A w \in Workers :
       /\ worker[w].pc # "free" => worker[w].msg \in Messages
       /\ worker[w].pc \in {"parsing", "writing", "putting"} <=>
            worker[w].event \in Events
  /\ pool \subseteq Events
  /\ event \in [Events -> Contents]
  /\ rows \in [Ids \ {Absent} -> TableRows \cup {NoRow}]
  /\ cancelled \in BOOLEAN
  /\ main \in {"running", "waiting", "leaving", "exited"}

Running == {w \in Workers : worker[w].pc \notin {"free", "finishing"}}
Unfinished == {w \in Workers : worker[w].pc # "free"}

\* The semaphore holds one token for every goroutine that has not returned its
\* own, the WaitGroup counts every goroutine that has not called Done, and at
\* most MaxWorkers goroutines use the database at a time.
SlotsHeld ==
  /\ sem = Cardinality(Running)
  /\ wg = Cardinality(Unfinished)
  /\ Cardinality(Running) <= MaxWorkers

\* No two goroutines ever have the same pooled struct, and none has a struct
\* the pool may hand out.
EventsUnshared ==
  /\ InUse \cap pool = {}
  /\ \A v, w \in Workers :
       worker[v].event = worker[w].event /\ worker[v].event # NoEvent => v = w

\* What the struct of a goroutine holds: nothing after Reset, then exactly its
\* own payload.
OwnContents ==
  \A w \in Workers :
    /\ worker[w].pc = "parsing" => event[worker[w].event] = Blank
    /\ worker[w].pc = "writing" =>
         /\ worker[w].msg.decodes
         /\ event[worker[w].event] = Merge(worker[w].msg, Blank)

\* A row has the id, the tenant and the numbers of ONE published event: nothing
\* of an earlier event survives in the pooled struct, nothing of a concurrent
\* one gets in.
RowsAreEvents ==
  \A i \in Ids \ {Absent} :
    rows[i] # NoRow =>
      \E m \in Messages :
        /\ m.decodes
        /\ i = KeyOf(Merge(m, Blank))
        /\ rows[i] = RowOf(Merge(m, Blank))

\* A message that decodes as an event of the log.
AsEvent(m) == [key |-> KeyOf(Merge(m, Blank)), row |-> RowOf(Merge(m, Blank))]

L == INSTANCE EventLog WITH
       Keys <- Ids \ {Absent},
       Published <- {AsEvent(m) : m \in {n \in Messages : n.decodes}},
       log <- rows

\* The goroutines, their pool of structs and their failures implement a log of
\* whole events: an event is written in one step, as it was published, and what
\* is written stays, through redeliveries and restarts.
ImplementsEventLog == L!Spec

\* A stored row never changes, not even when the event comes again.
RowsKept == \A i \in Ids \ {Absent} : rows[i] # NoRow => rows'[i] = rows[i]

RowsStay == [][RowsKept]_vars

\* Nothing blocks a goroutine: the pool has a struct that nobody uses, the
\* semaphore the token it takes back and the WaitGroup the count it takes off,
\* which would be negative otherwise.  A full semaphore has a goroutine that will
\* return its token, and main waits for no one when there are no goroutines.
NothingBlocks ==
  /\ \A w \in Workers :
       /\ worker[w].pc = "started" => Events \ InUse # {}
       /\ worker[w].pc = "releasing" => sem > 0
       /\ worker[w].pc = "finishing" => wg > 0
  /\ sem = MaxWorkers => Running # {}
  /\ Unfinished = {} => wg = 0

\* A full semaphore gets room again: malformed events, failed INSERTs and
\* cancelled ones give their slot back.
SlotsComeBack == sem = MaxWorkers ~> (sem < MaxWorkers \/ main = "exited")

\* After a signal the process exits (or is killed and started again): the
\* reader cannot keep the WaitGroup busy for ever.
ShutdownEnds == cancelled ~> (main = "exited" \/ ~cancelled)
=============================================================================
