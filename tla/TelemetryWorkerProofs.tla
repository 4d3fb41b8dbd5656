------------------------ MODULE TelemetryWorkerProofs ------------------------
(***************************************************************************)
(* Proofs about TelemetryWorker, for any finite set of goroutines, any     *)
(* capacity of the semaphore and any set of events.                        *)
(***************************************************************************)
EXTENDS TelemetryWorker, FiniteSetTheorems, TLAPS

\* The inductive invariant.  RowsAreEvents needs what a struct holds while its
\* goroutine has it (OwnContents), and that needs the struct to be its own.
Inv == TypeOK /\ SlotsHeld /\ EventsUnshared /\ OwnContents /\ RowsAreEvents

-----------------------------------------------------------------------------
(* Data: contents, keys and rows.                                           *)

LEMMA BlankType == Blank \in Contents
  BY DEF Blank, Contents, Ids, Tenants, Metrics

\* A struct an event was decoded into has the type of a struct.
LEMMA MergeType ==
  ASSUME NEW m \in Messages, NEW c \in Contents
  PROVE  Merge(m, c) \in Contents
<1>1. m.id \in Ids /\ m.tenant \in Tenants /\ m.metrics \in Metrics
  BY DEF Ids, Tenants, Metrics
<1>2. c.id \in Ids /\ c.tenant \in Tenants /\ c.metrics \in Metrics
  BY DEF Contents
<1> QED
  BY <1>1, <1>2 DEF Merge, Contents

\* The defaults: what is written has an id and a tenant and no null.
LEMMA RowTypes ==
  ASSUME NEW c \in Contents
  PROVE  KeyOf(c) \in Ids \ {Absent} /\ RowOf(c) \in TableRows
<1>1. c.id \in Ids /\ c.tenant \in Tenants /\ c.metrics \in Metrics
  BY DEF Contents
<1>2. Unknown \in Ids /\ Admin \in Tenants /\ Absent \in Metrics
  BY DEF Ids, Tenants, Metrics
<1>3. Absent \notin {Null, Unknown, Admin}
  BY TelemetryWorkerAssumption
<1> QED
  BY <1>1, <1>2, <1>3 DEF KeyOf, RowOf, TableRows

-----------------------------------------------------------------------------
(* Goroutines.                                                              *)

Counted(q) == q.pc \notin {"free", "finishing"}

\* What a step of one goroutine does to the others, and to the two sets the
\* semaphore and the WaitGroup count.
LEMMA OneMoves ==
  ASSUME TypeOK, NEW w \in Workers, NEW q \in WorkerRows,
         q.pc # "free" => q.msg \in Messages,
         q.pc \in {"parsing", "writing", "putting"} <=> q.event \in Events,
         worker' = [worker EXCEPT ![w] = q]
  PROVE  /\ worker' \in [Workers -> WorkerRows]
         /\ \A v \in Workers :
              /\ worker'[v].pc # "free" => worker'[v].msg \in Messages
              /\ worker'[v].pc \in {"parsing", "writing", "putting"} <=>
                   worker'[v].event \in Events
         /\ worker'[w] = q
         /\ \A v \in Workers \ {w} : worker'[v] = worker[v]
         /\ Running' = IF Counted(q) THEN Running \cup {w} ELSE Running \ {w}
         /\ Unfinished' = IF q.pc = "free" THEN Unfinished \ {w}
                          ELSE Unfinished \cup {w}
<1>1. /\ worker' \in [Workers -> WorkerRows]
      /\ worker'[w] = q
      /\ \A v \in Workers \ {w} : worker'[v] = worker[v]
  BY DEF TypeOK
<1>2. \A v \in Workers :
        /\ worker'[v].pc # "free" => worker'[v].msg \in Messages
        /\ worker'[v].pc \in {"parsing", "writing", "putting"} <=>
             worker'[v].event \in Events
  BY <1>1 DEF TypeOK
<1>3. Running' = IF Counted(q) THEN Running \cup {w} ELSE Running \ {w}
  BY <1>1 DEF Running, Counted
<1>4. Unfinished' = IF q.pc = "free" THEN Unfinished \ {w} ELSE Unfinished \cup {w}
  BY <1>1 DEF Unfinished
<1> QED
  BY <1>1, <1>2, <1>3, <1>4

LEMMA FiniteCounts == IsFiniteSet(Running) /\ IsFiniteSet(Unfinished)
<1>1. Running \in SUBSET Workers /\ Unfinished \in SUBSET Workers
  BY DEF Running, Unfinished
<1> QED
  BY <1>1, FS_Subset, TelemetryWorkerAssumption

\* A goroutine that neither starts nor gives anything back leaves the counts.
LEMMA SameCounts ==
  ASSUME SlotsHeld, UNCHANGED <<sem, wg>>,
         Running' = Running, Unfinished' = Unfinished
  PROVE  SlotsHeld'
  BY DEF SlotsHeld

\* A step that leaves goroutines, structs, counters and rows alone.
LEMMA QuietStep ==
  ASSUME Inv, UNCHANGED <<sem, wg, worker, pool, event, rows>>,
         feed' \in Seq(Messages), deliveries' \in Nat, reader' \in ReaderRows,
         reader'.pc = "holding" => reader'.msg \in Messages,
         cancelled' \in BOOLEAN,
         main' \in {"running", "waiting", "leaving", "exited"}
  PROVE  Inv'
<1>1. TypeOK'
  BY DEF Inv, TypeOK
<1>2. SlotsHeld'
  BY DEF Inv, SlotsHeld, Running, Unfinished
<1>3. EventsUnshared'
  BY DEF Inv, EventsUnshared, InUse
<1>4. OwnContents' /\ RowsAreEvents'
  BY DEF Inv, OwnContents, RowsAreEvents
<1> QED
  BY <1>1, <1>2, <1>3, <1>4 DEF Inv

-----------------------------------------------------------------------------
(* The steps, one lemma for each.                                           *)

LEMMA InitInv == Init => Inv
<1> SUFFICES ASSUME Init PROVE Inv
  OBVIOUS
<1>1. FreeWorker \in WorkerRows /\ FreeWorker.pc = "free" /\ FreeWorker.event = NoEvent
  BY DEF FreeWorker, WorkerRows, WorkerPcs
<1>2. Reading("top") \in ReaderRows /\ Reading("top").pc = "top"
  BY DEF Reading, ReaderRows
<1>3. TypeOK
  <2>1. <<>> \in Seq(Messages)
    OBVIOUS
  <2>2. NoEvent \notin Events
    BY TelemetryWorkerAssumption
  <2>3. feed \in Seq(Messages) /\ reader \in ReaderRows /\ reader.pc = "top"
    BY <1>2, <2>1 DEF Init
  <2>4. /\ worker \in [Workers -> WorkerRows]
        /\ \A w \in Workers : worker[w].pc = "free" /\ worker[w].event \notin Events
    BY <1>1, <2>2 DEF Init
  <2>5. /\ event \in [Events -> Contents]
        /\ rows \in [Ids \ {Absent} -> TableRows \cup {NoRow}]
    BY BlankType DEF Init
  <2> QED
    BY <2>3, <2>4, <2>5 DEF Init, TypeOK
<1>4. Running = {} /\ Unfinished = {}
  BY <1>1 DEF Init, Running, Unfinished
<1>5. SlotsHeld
  BY <1>4, FS_EmptySet, TelemetryWorkerAssumption DEF Init, SlotsHeld
<1>6. EventsUnshared /\ OwnContents /\ RowsAreEvents
  BY <1>1 DEF Init, EventsUnshared, InUse, OwnContents, RowsAreEvents
<1> QED
  BY <1>3, <1>5, <1>6 DEF Inv

LEMMA RestartStep ==
  ASSUME Inv, Restart
  PROVE  Inv'
<1> USE DEF Restart
<1>1. FreeWorker \in WorkerRows /\ FreeWorker.pc = "free" /\ FreeWorker.event = NoEvent
  BY DEF FreeWorker, WorkerRows, WorkerPcs
<1>2. Reading("top") \in ReaderRows /\ Reading("top").pc = "top"
  BY DEF Reading, ReaderRows
<1>3. TypeOK'
  <2>1. <<>> \in Seq(Messages)
    OBVIOUS
  <2>2. NoEvent \notin Events
    BY TelemetryWorkerAssumption
  <2>3. feed' \in Seq(Messages) /\ reader' \in ReaderRows /\ reader'.pc = "top"
    BY <1>2, <2>1
  <2>4. /\ worker' \in [Workers -> WorkerRows]
        /\ \A w \in Workers : worker'[w].pc = "free" /\ worker'[w].event \notin Events
    BY <1>1, <2>2
  <2>5. event' \in [Events -> Contents]
    BY BlankType
  <2> QED
    BY <2>3, <2>4, <2>5 DEF Inv, TypeOK
<1>4. Running' = {} /\ Unfinished' = {}
  BY <1>1 DEF Running, Unfinished
<1>5. SlotsHeld'
  BY <1>4, FS_EmptySet, TelemetryWorkerAssumption DEF SlotsHeld
<1>6. EventsUnshared' /\ OwnContents'
  BY <1>1 DEF EventsUnshared, InUse, OwnContents
<1>7. RowsAreEvents'
  BY DEF Inv, RowsAreEvents
<1> QED
  BY <1>3, <1>5, <1>6, <1>7 DEF Inv

LEMMA ReaderAndMainSteps ==
  ASSUME Inv,
         \/ LoopTop \/ Subscribed \/ SubscriptionLost \/ BackoffOver
         \/ \E m \in Messages : Deliver(m)
         \/ Take \/ ReaderStops \/ DropSaturated
         \/ Signal \/ WaitReturns \/ Exit
  PROVE  Inv'
<1> USE DEF Inv, TypeOK
<1>1. \A pc \in {"top", "subscribing", "sleeping", "listening", "done"} :
        Reading(pc) \in ReaderRows /\ Reading(pc).pc = pc
  BY DEF Reading, ReaderRows
<1>2. CASE LoopTop \/ Subscribed \/ SubscriptionLost \/ BackoffOver \/ DropSaturated
  <2>1. /\ UNCHANGED <<feed, deliveries, sem, wg, worker, pool, event, rows,
                       cancelled, main>>
        /\ reader' \in {Reading("done"), Reading("subscribing"),
                        Reading("listening"), Reading("sleeping"), Reading("top")}
    BY <1>2 DEF LoopTop, Subscribed, SubscriptionLost, BackoffOver, DropSaturated
  <2> QED
    BY <1>1, <2>1, QuietStep
<1>3. ASSUME NEW m \in Messages, Deliver(m)
      PROVE  Inv'
  <2>1. feed' \in Seq(Messages) /\ deliveries' \in Nat
    BY <1>3 DEF Deliver
  <2>2. UNCHANGED <<reader, sem, wg, worker, pool, event, rows, cancelled, main>>
    BY <1>3 DEF Deliver
  <2> QED
    BY <2>1, <2>2, QuietStep
<1>4. CASE Take
  <2>1. feed' \in Seq(Messages) /\ Head(feed) \in Messages
    BY <1>4 DEF Take
  <2>2. reader' \in ReaderRows /\ reader'.msg \in Messages
    BY <1>4, <2>1 DEF Take, ReaderRows
  <2>3. UNCHANGED <<deliveries, sem, wg, worker, pool, event, rows, cancelled, main>>
    BY <1>4 DEF Take
  <2> QED
    BY <2>1, <2>2, <2>3, QuietStep
<1>5. CASE ReaderStops
  <2>1. /\ feed' = <<>>
        /\ reader' = Reading("done")
        /\ UNCHANGED <<deliveries, sem, wg, worker, pool, event, rows, cancelled, main>>
    BY <1>5 DEF ReaderStops
  <2> QED
    BY <1>1, <2>1, QuietStep
<1>6. CASE Signal \/ WaitReturns \/ Exit
  <2>1. /\ UNCHANGED <<feed, deliveries, reader, sem, wg, worker, pool, event, rows>>
        /\ cancelled' \in BOOLEAN
        /\ main' \in {"running", "waiting", "leaving", "exited"}
    BY <1>6 DEF Signal, WaitReturns, Exit
  <2> QED
    BY <2>1, QuietStep
<1> QED
  BY <1>2, <1>3, <1>4, <1>5, <1>6

\* A token is there for the new goroutine because sem was below MaxWorkers.
LEMMA DispatchStep ==
  ASSUME Inv, NEW w \in Workers, Dispatch(w)
  PROVE  Inv'
<1> DEFINE q == [pc |-> "started", msg |-> reader.msg, event |-> NoEvent]
<1>1. reader.msg \in Messages
  BY DEF Inv, TypeOK, Dispatch
<1>2. /\ q \in WorkerRows
      /\ q.pc = "started"
      /\ q.msg \in Messages
      /\ q.event = NoEvent
  BY <1>1 DEF WorkerRows, WorkerPcs
<1>3. /\ worker' = [worker EXCEPT ![w] = q]
      /\ UNCHANGED <<feed, deliveries, pool, event, rows, cancelled, main>>
      /\ sem' = sem + 1
      /\ wg' = wg + 1
      /\ reader' = Reading("listening")
      /\ worker[w].pc = "free"
      /\ sem < MaxWorkers
  BY DEF Dispatch, At
<1> HIDE DEF q
<1>4. q.event \notin Events
  BY <1>2, TelemetryWorkerAssumption
<1>5. /\ worker' \in [Workers -> WorkerRows]
      /\ \A v \in Workers :
           /\ worker'[v].pc # "free" => worker'[v].msg \in Messages
           /\ worker'[v].pc \in {"parsing", "writing", "putting"} <=>
                worker'[v].event \in Events
      /\ worker'[w] = q
      /\ \A v \in Workers \ {w} : worker'[v] = worker[v]
      /\ Running' = Running \cup {w}
      /\ Unfinished' = Unfinished \cup {w}
  BY <1>2, <1>3, <1>4, OneMoves DEF Inv, Counted
<1>6. Reading("listening") \in ReaderRows /\ Reading("listening").pc = "listening"
  BY DEF Reading, ReaderRows
<1>7. TypeOK'
  BY <1>3, <1>5, <1>6 DEF Inv, TypeOK
<1>8. w \notin Running /\ w \notin Unfinished
  BY <1>3 DEF Running, Unfinished
<1>9. /\ Cardinality(Running') = Cardinality(Running) + 1
      /\ Cardinality(Unfinished') = Cardinality(Unfinished) + 1
  BY <1>5, <1>8, FiniteCounts, FS_AddElement
<1>10. SlotsHeld'
  BY <1>3, <1>9, TelemetryWorkerAssumption DEF Inv, SlotsHeld, TypeOK
<1>11. EventsUnshared'
  BY <1>2, <1>3, <1>5 DEF Inv, EventsUnshared, InUse
<1>12. OwnContents' /\ RowsAreEvents'
  BY <1>2, <1>3, <1>5 DEF Inv, OwnContents, RowsAreEvents
<1> QED
  BY <1>7, <1>10, <1>11, <1>12 DEF Inv

\* What a step from "started" to "releasing" must show: it is counted before
\* and after, so the counts stay.
LEMMA CountedStep ==
  ASSUME Inv, NEW w \in Workers, NEW q \in WorkerRows,
         q.pc # "free" => q.msg \in Messages,
         q.pc \in {"parsing", "writing", "putting"} <=> q.event \in Events,
         worker' = [worker EXCEPT ![w] = q],
         Counted(q), Counted(worker[w]),
         UNCHANGED <<feed, deliveries, reader, sem, wg, cancelled, main>>,
         pool' \subseteq Events,
         event' \in [Events -> Contents],
         rows' \in [Ids \ {Absent} -> TableRows \cup {NoRow}]
  PROVE  /\ TypeOK'
         /\ SlotsHeld'
         /\ worker'[w] = q
         /\ \A v \in Workers \ {w} : worker'[v] = worker[v]
<1>1. /\ worker' \in [Workers -> WorkerRows]
      /\ \A v \in Workers :
           /\ worker'[v].pc # "free" => worker'[v].msg \in Messages
           /\ worker'[v].pc \in {"parsing", "writing", "putting"} <=>
                worker'[v].event \in Events
      /\ worker'[w] = q
      /\ \A v \in Workers \ {w} : worker'[v] = worker[v]
      /\ Running' = Running \cup {w}
      /\ Unfinished' = Unfinished \cup {w}
  BY OneMoves DEF Inv, Counted
<1>2. TypeOK'
  BY <1>1 DEF Inv, TypeOK
<1>3. w \in Running /\ w \in Unfinished
  BY DEF Counted, Running, Unfinished
<1>4. SlotsHeld'
  BY <1>1, <1>3, SameCounts DEF Inv
<1> QED
  BY <1>1, <1>2, <1>4

\* The struct a goroutine gets is nobody's, and Reset leaves nothing in it.
LEMMA GetStep ==
  ASSUME Inv, NEW w \in Workers, GetEvent(w)
  PROVE  Inv'
<1> PICK e \in Events \ InUse :
      /\ pool' = pool \ {e}
      /\ event' = [event EXCEPT ![e] = Reset(IF e \in pool THEN event[e] ELSE Blank)]
      /\ Become(w, "parsing", e)
  BY DEF GetEvent
<1> DEFINE q == [pc |-> "parsing", msg |-> worker[w].msg, event |-> e]
<1>1. worker[w].pc = "started" /\ worker[w].msg \in Messages
  BY DEF GetEvent, At, Inv, TypeOK
<1>2. /\ q \in WorkerRows
      /\ q.pc = "parsing"
      /\ q.msg \in Messages
      /\ q.event = e
  BY <1>1 DEF WorkerRows, WorkerPcs
<1>3. worker' = [worker EXCEPT ![w] = q]
  BY DEF Become
<1>4. UNCHANGED <<feed, deliveries, reader, sem, wg, rows, cancelled, main>>
  BY DEF GetEvent
<1> HIDE DEF q
<1>5. /\ event' \in [Events -> Contents]
      /\ event'[e] = Blank
      /\ \A f \in Events \ {e} : event'[f] = event[f]
  BY BlankType DEF Inv, TypeOK, Reset
<1>6. /\ TypeOK'
      /\ SlotsHeld'
      /\ worker'[w] = q
      /\ \A v \in Workers \ {w} : worker'[v] = worker[v]
  BY <1>1, <1>2, <1>3, <1>4, <1>5, CountedStep DEF Inv, TypeOK, Counted
<1>7. \A v \in Workers : worker[v].event # e
  BY TelemetryWorkerAssumption DEF InUse
<1>8. EventsUnshared'
  BY <1>2, <1>6, <1>7 DEF Inv, EventsUnshared, InUse
<1>9. OwnContents'
  BY <1>2, <1>5, <1>6, <1>7 DEF Inv, OwnContents, TypeOK
<1>10. RowsAreEvents'
  BY <1>4 DEF Inv, RowsAreEvents
<1> QED
  BY <1>6, <1>8, <1>9, <1>10 DEF Inv

\* Between "parsing" and "putting" the goroutine keeps its struct; c is what it
\* holds afterwards.
LEMMA KeepStep ==
  ASSUME Inv, NEW w \in Workers, NEW pc \in {"writing", "putting"},
         NEW c \in Contents,
         worker[w].pc \in {"parsing", "writing"},
         Become(w, pc, worker[w].event),
         event' = [event EXCEPT ![worker[w].event] = c],
         pc = "writing" => /\ worker[w].msg.decodes
                           /\ c = Merge(worker[w].msg, Blank),
         UNCHANGED <<feed, deliveries, reader, sem, wg, pool, cancelled, main>>,
         rows' \in [Ids \ {Absent} -> TableRows \cup {NoRow}]
  PROVE  TypeOK' /\ SlotsHeld' /\ EventsUnshared' /\ OwnContents'
<1> DEFINE e == worker[w].event
           q == [pc |-> pc, msg |-> worker[w].msg, event |-> e]
<1>1. worker[w].msg \in Messages /\ e \in Events
  BY DEF Inv, TypeOK
<1>2. /\ q \in WorkerRows
      /\ q.pc = pc
      /\ q.msg = worker[w].msg
      /\ q.event = e
  BY <1>1 DEF WorkerRows, WorkerPcs
<1>3. worker' = [worker EXCEPT ![w] = q]
  BY DEF Become
<1>4. /\ event' \in [Events -> Contents]
      /\ event'[e] = c
      /\ \A f \in Events \ {e} : event'[f] = event[f]
  BY <1>1 DEF Inv, TypeOK
<1> HIDE DEF q
<1>5. /\ TypeOK'
      /\ SlotsHeld'
      /\ worker'[w] = q
      /\ \A v \in Workers \ {w} : worker'[v] = worker[v]
  BY <1>1, <1>2, <1>3, <1>4, CountedStep DEF Inv, TypeOK, Counted
<1>6. e # NoEvent
  BY <1>1, TelemetryWorkerAssumption
<1>7. \A v \in Workers \ {w} : worker[v].event # e
  BY <1>6 DEF Inv, EventsUnshared
<1>8. EventsUnshared'
  BY <1>2, <1>5 DEF Inv, EventsUnshared, InUse
<1>9. OwnContents'
  BY <1>2, <1>4, <1>5, <1>7 DEF Inv, OwnContents, TypeOK
<1> QED
  BY <1>5, <1>8, <1>9

LEMMA ParseStep ==
  ASSUME Inv, NEW w \in Workers, Parse(w)
  PROVE  Inv'
<1> DEFINE e == worker[w].event
           c == Merge(worker[w].msg, event[e])
<1>1. /\ worker[w].pc = "parsing"
      /\ worker[w].msg.decodes
      /\ worker[w].msg \in Messages
      /\ e \in Events
      /\ event[e] = Blank
  BY DEF Parse, At, Inv, TypeOK, OwnContents
<1>2. c \in Contents /\ c = Merge(worker[w].msg, Blank)
  BY <1>1, BlankType, MergeType
<1>3. /\ event' = [event EXCEPT ![e] = c]
      /\ Become(w, "writing", e) \/ Become(w, "putting", e)
      /\ UNCHANGED <<feed, deliveries, reader, sem, wg, pool, rows, cancelled, main>>
  BY DEF Parse, Become
<1>4. rows' \in [Ids \ {Absent} -> TableRows \cup {NoRow}]
  BY <1>3 DEF Inv, TypeOK
<1> HIDE DEF c
<1>5. TypeOK' /\ SlotsHeld' /\ EventsUnshared' /\ OwnContents'
  BY <1>1, <1>2, <1>3, <1>4, KeepStep
<1>6. RowsAreEvents'
  BY <1>3 DEF Inv, RowsAreEvents
<1> QED
  BY <1>5, <1>6 DEF Inv

LEMMA ParseFailsStep ==
  ASSUME Inv, NEW w \in Workers, ParseFails(w)
  PROVE  Inv'
<1> DEFINE e == worker[w].event
<1>1. /\ worker[w].pc = "parsing"
      /\ worker[w].msg \in Messages
      /\ e \in Events
      /\ event[e] \in Contents
  BY DEF ParseFails, At, Inv, TypeOK
<1>2. PICK c \in {event[e], Merge(worker[w].msg, event[e])} :
        event' = [event EXCEPT ![e] = c]
  BY DEF ParseFails
<1>3. c \in Contents
  BY <1>1, <1>2, MergeType
<1>4. /\ Become(w, "putting", e)
      /\ UNCHANGED <<feed, deliveries, reader, sem, wg, pool, rows, cancelled, main>>
  BY DEF ParseFails
<1>5. rows' \in [Ids \ {Absent} -> TableRows \cup {NoRow}]
  BY <1>4 DEF Inv, TypeOK
<1>6. TypeOK' /\ SlotsHeld' /\ EventsUnshared' /\ OwnContents'
  BY <1>1, <1>2, <1>3, <1>4, <1>5, KeepStep
<1>7. RowsAreEvents'
  BY <1>4 DEF Inv, RowsAreEvents
<1> QED
  BY <1>6, <1>7 DEF Inv

\* A row that is written is the goroutine's own event.
LEMMA WriteSteps ==
  ASSUME Inv, NEW w \in Workers, Write(w) \/ WriteFails(w)
  PROVE  Inv'
<1> DEFINE e == worker[w].event
           c == Merge(worker[w].msg, Blank)
<1>1. /\ worker[w].pc = "writing"
      /\ worker[w].msg \in Messages
      /\ worker[w].msg.decodes
      /\ e \in Events
      /\ event[e] = c
  BY DEF Write, WriteFails, At, Inv, TypeOK, OwnContents
<1>2. c \in Contents /\ KeyOf(c) \in Ids \ {Absent} /\ RowOf(c) \in TableRows
  BY <1>1, BlankType, MergeType, RowTypes
<1>3. /\ Become(w, "putting", e)
      /\ UNCHANGED <<feed, deliveries, reader, sem, wg, pool, event, cancelled, main>>
  BY DEF Write, WriteFails
<1>4. \/ rows' = rows
      \/ rows' = [rows EXCEPT ![KeyOf(c)] =
                    IF rows[KeyOf(c)] = NoRow THEN RowOf(c) ELSE rows[KeyOf(c)]]
  BY <1>1 DEF Write, WriteFails
<1>5. event' = [event EXCEPT ![e] = c]
  BY <1>1, <1>3 DEF Inv, TypeOK
<1>6. rows' \in [Ids \ {Absent} -> TableRows \cup {NoRow}]
  BY <1>2, <1>4 DEF Inv, TypeOK
<1>7. /\ TypeOK' /\ SlotsHeld' /\ EventsUnshared' /\ OwnContents'
  BY <1>1, <1>2, <1>3, <1>5, <1>6, KeepStep
<1>8. RowsAreEvents'
  <2> SUFFICES ASSUME NEW i \in Ids \ {Absent}, rows'[i] # NoRow
               PROVE  \E m \in Messages : /\ m.decodes
                                          /\ i = KeyOf(Merge(m, Blank))
                                          /\ rows'[i] = RowOf(Merge(m, Blank))
    BY DEF RowsAreEvents
  <2>1. CASE rows'[i] = rows[i]
    BY <2>1 DEF Inv, RowsAreEvents
  <2>2. CASE rows'[i] # rows[i]
    <3>1. i = KeyOf(c) /\ rows'[i] = RowOf(c)
      BY <1>2, <1>4, <2>2 DEF Inv, TypeOK
    <3> QED
      BY <1>1, <3>1
  <2> QED
    BY <2>1, <2>2
<1> QED
  BY <1>7, <1>8 DEF Inv

LEMMA PutStep ==
  ASSUME Inv, NEW w \in Workers, PutEvent(w)
  PROVE  Inv'
<1> DEFINE e == worker[w].event
           q == [pc |-> "releasing", msg |-> worker[w].msg, event |-> NoEvent]
<1>1. worker[w].pc = "putting" /\ worker[w].msg \in Messages /\ e \in Events
  BY DEF PutEvent, At, Inv, TypeOK
<1>2. /\ q \in WorkerRows
      /\ q.pc = "releasing"
      /\ q.msg \in Messages
      /\ q.event = NoEvent
      /\ NoEvent \notin Events
  BY <1>1, TelemetryWorkerAssumption DEF WorkerRows, WorkerPcs
<1>3. /\ worker' = [worker EXCEPT ![w] = q]
      /\ pool' = pool \cup {e}
      /\ UNCHANGED <<feed, deliveries, reader, sem, wg, event, rows, cancelled, main>>
  BY DEF PutEvent, Become
<1> HIDE DEF q
<1>4. /\ TypeOK'
      /\ SlotsHeld'
      /\ worker'[w] = q
      /\ \A v \in Workers \ {w} : worker'[v] = worker[v]
  BY <1>1, <1>2, <1>3, CountedStep DEF Inv, TypeOK, Counted
<1>5. \A v \in Workers \ {w} : worker[v].event # e
  BY <1>1, <1>2 DEF Inv, EventsUnshared
<1>6. EventsUnshared'
  BY <1>2, <1>3, <1>4, <1>5 DEF Inv, EventsUnshared, InUse
<1>7. OwnContents' /\ RowsAreEvents'
  BY <1>2, <1>3, <1>4 DEF Inv, OwnContents, RowsAreEvents
<1> QED
  BY <1>4, <1>6, <1>7 DEF Inv

\* The token and the count a goroutine gives back are its own.
LEMMA EndSteps ==
  ASSUME Inv, NEW w \in Workers, Release(w) \/ Finish(w)
  PROVE  Inv'
<1>1. PICK q \in WorkerRows :
        /\ worker' = [worker EXCEPT ![w] = q]
        /\ q.event = NoEvent
        /\ q.pc \in {"finishing", "free"}
        /\ q.pc # "free" => q.msg \in Messages
        /\ q.pc = "finishing" <=> worker[w].pc = "releasing"
        /\ q.pc = "free" <=> worker[w].pc = "finishing"
        /\ q.pc = "finishing" => sem' = sem - 1 /\ wg' = wg
        /\ q.pc = "free" => sem' = sem /\ wg' = wg - 1
  <2>1. CASE Release(w)
    <3> DEFINE q == [pc |-> "finishing", msg |-> worker[w].msg, event |-> NoEvent]
    <3>1. worker[w].pc = "releasing" /\ worker[w].msg \in Messages
      BY <2>1 DEF Release, At, Inv, TypeOK
    <3>2. q \in WorkerRows /\ q.pc = "finishing" /\ q.event = NoEvent /\ q.msg \in Messages
      BY <3>1 DEF WorkerRows, WorkerPcs
    <3>3. worker' = [worker EXCEPT ![w] = q] /\ sem' = sem - 1 /\ wg' = wg
      BY <2>1 DEF Release, Become
    <3> HIDE DEF q
    <3> QED
      BY <3>1, <3>2, <3>3
  <2>2. CASE Finish(w)
    <3>1. FreeWorker \in WorkerRows /\ FreeWorker.pc = "free" /\ FreeWorker.event = NoEvent
      BY DEF FreeWorker, WorkerRows, WorkerPcs
    <3>2. /\ worker[w].pc = "finishing"
          /\ worker' = [worker EXCEPT ![w] = FreeWorker]
          /\ sem' = sem
          /\ wg' = wg - 1
      BY <2>2 DEF Finish, At
    <3> QED
      BY <3>1, <3>2
  <2> QED
    BY <2>1, <2>2
<1>2. UNCHANGED <<feed, deliveries, reader, pool, event, rows, cancelled, main>>
  BY DEF Release, Finish
<1>3. NoEvent \notin Events /\ worker[w].pc \in {"releasing", "finishing"}
  BY <1>1, TelemetryWorkerAssumption
<1>4. /\ worker' \in [Workers -> WorkerRows]
      /\ \A v \in Workers :
           /\ worker'[v].pc # "free" => worker'[v].msg \in Messages
           /\ worker'[v].pc \in {"parsing", "writing", "putting"} <=>
                worker'[v].event \in Events
      /\ worker'[w] = q
      /\ \A v \in Workers \ {w} : worker'[v] = worker[v]
      /\ Running' = Running \ {w}
      /\ Unfinished' = IF q.pc = "free" THEN Unfinished \ {w}
                       ELSE Unfinished \cup {w}
  <2>1. ~Counted(q) /\ q.event \notin Events
    BY <1>1, <1>3 DEF Counted
  <2>2. ~(q.pc \in {"parsing", "writing", "putting"})
    BY <1>1
  <2> QED
    BY <1>1, <2>1, <2>2, OneMoves DEF Inv
<1>5. /\ w \in Running <=> worker[w].pc = "releasing"
      /\ w \in Unfinished
  BY <1>3 DEF Running, Unfinished
<1>6. /\ IsFiniteSet(Running) /\ IsFiniteSet(Unfinished)
      /\ Cardinality(Running) \in Nat /\ Cardinality(Unfinished) \in Nat
  BY FiniteCounts, FS_CardinalityType
<1>7. /\ Cardinality(Running \ {w}) =
           IF w \in Running THEN Cardinality(Running) - 1 ELSE Cardinality(Running)
      /\ Cardinality(Running \ {w}) \in Nat
      /\ Cardinality(Unfinished \ {w}) = Cardinality(Unfinished) - 1
      /\ Cardinality(Unfinished \ {w}) \in Nat
      /\ Unfinished \cup {w} = Unfinished
  BY <1>5, <1>6, FS_RemoveElement, FS_CardinalityType
<1>8. /\ sem' = Cardinality(Running')
      /\ wg' = Cardinality(Unfinished')
      /\ Cardinality(Running') <= Cardinality(Running)
  <2>1. sem = Cardinality(Running) /\ wg = Cardinality(Unfinished)
    BY DEF Inv, SlotsHeld
  <2>2. CASE worker[w].pc = "releasing"
    <3>1. q.pc = "finishing" /\ q.pc # "free"
      BY <1>1, <2>2
    <3>2. w \in Running /\ Unfinished' = Unfinished
      BY <1>4, <1>5, <1>7, <2>2, <3>1
    <3>3. sem' = sem - 1 /\ wg' = wg
      BY <1>1, <3>1
    <3>4. Cardinality(Running') = Cardinality(Running) - 1
      BY <1>4, <1>7, <3>2
    <3> QED
      BY <1>6, <2>1, <3>2, <3>3, <3>4
  <2>3. CASE worker[w].pc = "finishing"
    <3>1. q.pc = "free" /\ w \notin Running
      BY <1>1, <1>5, <2>3
    <3> QED
      BY <1>1, <1>4, <1>6, <1>7, <2>1, <3>1
  <2> QED
    BY <1>3, <2>2, <2>3
<1>9. SlotsHeld'
  BY <1>4, <1>6, <1>7, <1>8, TelemetryWorkerAssumption DEF Inv, SlotsHeld
<1>10. sem' \in Nat /\ wg' \in Nat
  BY <1>4, <1>6, <1>7, <1>8
<1>11. TypeOK'
  BY <1>2, <1>4, <1>10 DEF Inv, TypeOK
<1>12. EventsUnshared'
  BY <1>1, <1>2, <1>4 DEF Inv, EventsUnshared, InUse
<1>13. OwnContents' /\ RowsAreEvents'
  BY <1>1, <1>2, <1>4 DEF Inv, OwnContents, RowsAreEvents
<1> QED
  BY <1>9, <1>11, <1>12, <1>13 DEF Inv

LEMMA InvStep == Inv /\ [Next]_vars => Inv'
<1> SUFFICES ASSUME Inv, [Next]_vars PROVE Inv'
  OBVIOUS
<1>1. CASE UNCHANGED vars
  <2>1. UNCHANGED <<feed, deliveries, reader, sem, wg, worker, pool, event,
                    rows, cancelled, main>>
    BY <1>1 DEF vars
  <2> QED
    BY <2>1, QuietStep DEF Inv, TypeOK
<1>2. CASE Next
  BY <1>2, ReaderAndMainSteps, DispatchStep, GetStep, ParseStep, ParseFailsStep,
     WriteSteps, PutStep, EndSteps, RestartStep
     DEF Next, ReaderStep, WorkerStep, MainStep
<1> QED
  BY <1>1, <1>2

-----------------------------------------------------------------------------
(* The theorems.                                                            *)

\* The inductive invariant holds in every reachable state.
THEOREM AlwaysInv == Spec => []Inv
  BY InitInv, InvStep, PTL DEF Spec

\* TypeOK holds in every reachable state.
THEOREM TypeCorrect == Spec => []TypeOK
<1>1. Inv => TypeOK
  BY DEF Inv
<1> QED
  BY <1>1, AlwaysInv, PTL

\* However many goroutines end in whatever way, the semaphore and the WaitGroup
\* count them exactly and no more than MaxWorkers run.
THEOREM SlotsAreHeld == Spec => []SlotsHeld
<1>1. Inv => SlotsHeld
  BY DEF Inv
<1> QED
  BY <1>1, AlwaysInv, PTL

\* No pooled struct is ever used by two goroutines.
THEOREM StructsAreUnshared == Spec => []EventsUnshared
<1>1. Inv => EventsUnshared
  BY DEF Inv
<1> QED
  BY <1>1, AlwaysInv, PTL

\* A goroutine's struct holds its own event and nothing else.
THEOREM StructsAreOwn == Spec => []OwnContents
<1>1. Inv => OwnContents
  BY DEF Inv
<1> QED
  BY <1>1, AlwaysInv, PTL

\* Every row is one published event, whatever ran at the same time.
THEOREM EveryRowIsAnEvent == Spec => []RowsAreEvents
<1>1. Inv => RowsAreEvents
  BY DEF Inv
<1> QED
  BY <1>1, AlwaysInv, PTL

LEMMA RowStep == TypeOK /\ [Next]_vars => RowsKept
<1> SUFFICES ASSUME TypeOK, [Next]_vars, NEW i \in Ids \ {Absent}, rows[i] # NoRow
             PROVE  rows'[i] = rows[i]
  BY DEF RowsKept
<1>1. ASSUME NEW w \in Workers, Write(w)
      PROVE  rows'[i] = rows[i]
  BY <1>1 DEF Write, TypeOK
<1>2. CASE UNCHANGED rows
  BY <1>2
<1>3. CASE Next
  BY <1>1, <1>2, <1>3
     DEF Next, Deliver, ReaderStep, LoopTop, Subscribed, SubscriptionLost,
         BackoffOver, Take, ReaderStops, Dispatch, DropSaturated, WorkerStep,
         GetEvent, Parse, ParseFails, WriteFails, PutEvent, Release, Finish,
         Signal, MainStep, WaitReturns, Exit, Restart
<1> QED
  BY <1>2, <1>3 DEF vars

\* A stored row stays as it is, through restarts and redeliveries.
THEOREM StoredRowsStay == Spec => RowsStay
<1>1. TypeOK /\ [Next]_vars => [RowsKept]_vars
  BY RowStep
<1> QED
  BY <1>1, TypeCorrect, PTL DEF Spec, RowsStay
\* The INSERT of a goroutine adds its own message to the log, or finds its id there.
LEMMA WriteAdds ==
  ASSUME Inv, NEW w \in Workers, Write(w)
  PROVE  L!Next \/ UNCHANGED rows
<1> DEFINE m == worker[w].msg
           c == Merge(m, Blank)
<1>1. worker[w].pc = "writing"
  BY DEF Write, At
<1>2. m \in Messages /\ m.decodes /\ event[worker[w].event] = c
  BY <1>1 DEF Inv, TypeOK, OwnContents
<1>3. rows \in [Ids \ {Absent} -> TableRows \cup {NoRow}]
  BY DEF Inv, TypeOK
<1>4. rows' = [rows EXCEPT ![KeyOf(c)] = IF @ = NoRow THEN RowOf(c) ELSE @]
  BY <1>2 DEF Write
<1>5. CASE rows[KeyOf(c)] = NoRow
  <2>1. AsEvent(m).key = KeyOf(c) /\ AsEvent(m).row = RowOf(c)
    BY DEF AsEvent
  <2>2. rows' = [rows EXCEPT ![KeyOf(c)] = RowOf(c)]
    BY <1>4, <1>5
  <2>3. L!Add(AsEvent(m))
    BY <1>5, <2>1, <2>2 DEF L!Add
  <2> QED
    BY <1>2, <2>3 DEF L!Next
<1>6. CASE rows[KeyOf(c)] # NoRow
  <2> HIDE DEF c
  <2> QED
    BY <1>3, <1>4, <1>6
<1> QED
  BY <1>5, <1>6

\* The detailed worker, with its pool, its slots and its restarts, implements the
\* log of whole events.
THEOREM WorkerImplementsEventLog == Spec => ImplementsEventLog
<1>1. Init => L!Init
  BY DEF Init, L!Init
<1>2. Inv /\ [Next]_vars => [L!Next]_rows
  <2> SUFFICES ASSUME Inv, [Next]_vars, rows' # rows PROVE L!Next
    OBVIOUS
  <2>1. \E w \in Workers : Write(w)
    BY DEF vars, Next, Deliver, ReaderStep, LoopTop, Subscribed, SubscriptionLost,
           BackoffOver, Take, ReaderStops, Dispatch, DropSaturated, WorkerStep,
           GetEvent, Parse, ParseFails, WriteFails, PutEvent, Release, Finish,
           Signal, MainStep, WaitReturns, Exit, Restart
  <2> QED
    BY <2>1, WriteAdds
<1> QED
  BY <1>1, <1>2, AlwaysInv, PTL DEF Spec, ImplementsEventLog, L!Spec

\* A goroutine that has just started finds a struct that is not in use: there are
\* as many as slots, and each is used by a goroutine that has a slot of its own.
LEMMA StructIsFree ==
  ASSUME Inv, NEW w \in Workers, worker[w].pc = "started"
  PROVE  Events \ InUse # {}
<1> DEFINE Users == {v \in Workers : worker[v].event # NoEvent}
           Others == Running \ {w}
           uses == [v \in Users |-> worker[v].event]
<1>1. /\ IsFiniteSet(Events) /\ MaxWorkers <= Cardinality(Events)
      /\ MaxWorkers \in Nat /\ NoEvent \notin Events
  BY TelemetryWorkerAssumption
<1>2. Users \subseteq Others
  <2> SUFFICES ASSUME NEW v \in Users PROVE v \in Others
    OBVIOUS
  <2>1. worker[v].event \in Events
    BY DEF Inv, TypeOK, WorkerRows
  <2>2. worker[v].pc \in {"parsing", "writing", "putting"}
    BY <2>1 DEF Inv, TypeOK
  <2> QED
    BY <2>2 DEF Running
<1>3. w \in Running /\ IsFiniteSet(Running) /\ Cardinality(Running) <= MaxWorkers
  BY FiniteCounts DEF Running, Inv, SlotsHeld
<1>4. /\ IsFiniteSet(Others) /\ Cardinality(Others) = Cardinality(Running) - 1
      /\ Cardinality(Running) \in Nat
  BY <1>3, FS_RemoveElement, FS_CardinalityType
<1>5. IsFiniteSet(Users) /\ Cardinality(Users) <= Cardinality(Others)
  <2> HIDE DEF Users, Others
  <2> QED
    BY <1>2, <1>4, FS_Subset
<1>6. InUse = {worker[v].event : v \in Users}
  BY DEF InUse
<1>7. uses \in Surjection(Users, InUse)
  BY <1>6 DEF Surjection
<1>8. IsFiniteSet(InUse) /\ Cardinality(InUse) <= Cardinality(Users)
  <2> HIDE DEF uses, Users
  <2> QED
    BY <1>5, <1>7, FS_Surjection
<1>9. ASSUME Events \subseteq InUse PROVE FALSE
  <2>1. Cardinality(Events) <= Cardinality(InUse)
    BY <1>8, <1>9, FS_Subset
  <2>2. /\ Cardinality(Events) \in Nat /\ Cardinality(InUse) \in Nat
        /\ Cardinality(Users) \in Nat /\ Cardinality(Others) \in Nat
    BY <1>1, <1>4, <1>5, <1>8, FS_CardinalityType
  <2> HIDE DEF Users, Others
  <2> QED
    BY <1>1, <1>3, <1>4, <1>5, <1>8, <2>1, <2>2
<1> QED
  BY <1>9

\* No goroutine is ever blocked where the code does not expect it, for any number
\* of slots and goroutines, in any order of their ends.
THEOREM NothingEverBlocks == Spec => []NothingBlocks
<1>1. Inv => NothingBlocks
  <2> SUFFICES ASSUME Inv PROVE NothingBlocks
    OBVIOUS
  <2>1. /\ sem = Cardinality(Running) /\ wg = Cardinality(Unfinished)
        /\ sem \in Nat /\ wg \in Nat /\ MaxWorkers \in Nat \ {0}
    BY TelemetryWorkerAssumption DEF Inv, TypeOK, SlotsHeld
  <2>2. (Running = {} <=> sem = 0) /\ (Unfinished = {} <=> wg = 0)
    BY <2>1, FiniteCounts, FS_EmptySet
  <2>3. ASSUME NEW w \in Workers, worker[w].pc = "releasing" PROVE sem > 0
    BY <2>1, <2>2, <2>3 DEF Running
  <2>4. ASSUME NEW w \in Workers, worker[w].pc = "finishing" PROVE wg > 0
    BY <2>1, <2>2, <2>4 DEF Unfinished
  <2>5. sem = MaxWorkers => Running # {}
    BY <2>1, <2>2
  <2> QED
    BY <2>2, <2>3, <2>4, <2>5, StructIsFree DEF NothingBlocks
<1> QED
  BY <1>1, AlwaysInv, PTL
=============================================================================
