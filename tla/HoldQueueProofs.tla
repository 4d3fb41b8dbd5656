---------------------------- MODULE HoldQueueProofs ----------------------------
(***************************************************************************)
(* Theorems of HoldQueue, for every set of payloads, of tenants and of     *)
(* requests.                                                               *)
(***************************************************************************)
EXTENDS HoldQueue, SequenceTheorems, FiniteSetTheorems, TLAPS

\* The list s has the payload x; it has it in one place.
In(s, x) == \E i \in DOMAIN s : s[i] = x
Single(s, x) == \A i, j \in DOMAIN s : s[i] = x /\ s[j] = x => i = j

\* s without its place p.
Cut(s, p) == [j \in 1..(Len(s) - 1) |-> IF j < p THEN s[j] ELSE s[j + 1]]

\* What a request has in hand was found for its owner, and was run when the row
\* is due.
HandsTold ==
  \A d \in Dispatches :
    \/ dispatch[d].pc \in {"idle", "gone"} /\ dispatch[d].entry = NoEntry
    \/ /\ dispatch[d].pc \notin {"idle", "gone"}
       /\ dispatch[d].entry \in Entries
       /\ ExecOf[dispatch[d].entry] \in Ids
       /\ dispatch[d].tenant = Owner(dispatch[d].entry)
       /\ dispatch[d].pc = "log" => runs[dispatch[d].entry] > 0

\* An entry not excused is in one place, and before its run has none behind it.
OnePlace(e) ==
  /\ \A d, v \in Dispatches : Has(d, e) /\ Has(v, e) => d = v
  /\ Single(queue, e)
  /\ \A d \in Dispatches : Took(d, e) => ~In(queue, e)
  /\ \A d \in Dispatches :
       Has(d, e) /\ dispatch[d].pc \in {"remove", "run"} => runs[e] = 0
  /\ In(queue, e) => runs[e] = 0
  /\ runs[e] <= 1

\* The inductive invariant.
IInv ==
  /\ TypeOK
  /\ LogTellsRuns
  /\ HandsTold
  /\ \A e \in Entries \ excused : OnePlace(e)

-----------------------------------------------------------------------------
(* Lists.                                                                   *)

LEMMA CutFacts ==
  ASSUME NEW s \in Seq(Entries), NEW p \in DOMAIN s, NEW e, s[p] = e
  PROVE  /\ Cut(s, p) \in Seq(Entries)
         /\ \A x : In(Cut(s, p), x) => In(s, x)
         /\ \A x : x # e /\ In(s, x) => In(Cut(s, p), x)
         /\ \A x : Single(s, x) => Single(Cut(s, p), x)
         /\ Single(s, e) => ~In(Cut(s, p), e)
<1> DEFINE t == [j \in 1..(Len(s) - 1) |-> IF j < p THEN s[j] ELSE s[j + 1]]
<1>1. /\ Len(s) \in Nat /\ DOMAIN s = 1..Len(s) /\ p \in 1..Len(s)
      /\ \A i \in 1..Len(s) : s[i] \in Entries
  BY LenProperties
<1>2. DOMAIN t = 1..(Len(s) - 1)
  OBVIOUS
<1>3. t \in Seq(Entries)
  <2>1. Len(s) - 1 \in Nat
    BY <1>1
  <2>2. \A j \in 1..(Len(s) - 1) : t[j] \in Entries
    BY <1>1
  <2> QED
    BY <1>2, <2>1, <2>2, SeqDef
<1>4. ASSUME NEW j \in DOMAIN t
      PROVE  \E i \in DOMAIN s : i # p /\ t[j] = s[i] /\ i = IF j < p THEN j ELSE j + 1
  BY <1>1, <1>2
<1>5. \A x : In(t, x) => In(s, x)
  BY <1>4 DEF In
<1>6. ASSUME NEW x, x # e, In(s, x) PROVE In(t, x)
  <2>1. PICK i \in DOMAIN s : s[i] = x
    BY <1>6 DEF In
  <2>2. CASE i < p
    <3>1. i \in DOMAIN t /\ t[i] = x
      BY <1>1, <1>2, <2>1, <2>2
    <3> QED
      BY <3>1 DEF In
  <2>3. CASE i > p
    <3>1. i - 1 \in DOMAIN t /\ t[i - 1] = x
      BY <1>1, <1>2, <2>1, <2>3
    <3> QED
      BY <3>1 DEF In
  <2> QED
    BY <1>1, <1>6, <2>1, <2>2, <2>3
<1>7. ASSUME NEW x, Single(s, x) PROVE Single(t, x)
  <2> SUFFICES ASSUME NEW j \in DOMAIN t, NEW k \in DOMAIN t, t[j] = x, t[k] = x
               PROVE  j = k
    BY DEF Single
  <2>1. PICK i \in DOMAIN s : t[j] = s[i] /\ i = IF j < p THEN j ELSE j + 1
    BY <1>4
  <2>2. PICK h \in DOMAIN s : t[k] = s[h] /\ h = IF k < p THEN k ELSE k + 1
    BY <1>4
  <2>3. i = h
    BY <1>7, <2>1, <2>2 DEF Single
  <2> QED
    BY <1>1, <1>2, <2>1, <2>2, <2>3
<1>8. ASSUME Single(s, e) PROVE ~In(t, e)
  <2> SUFFICES ASSUME NEW j \in DOMAIN t, t[j] = e PROVE FALSE
    BY DEF In
  <2> QED
    BY <1>4, <1>8 DEF Single
<1> HIDE DEF t
<1> QED
  BY <1>3, <1>5, <1>6, <1>7, <1>8 DEF Cut, t

LEMMA LRemFacts ==
  ASSUME TypeOK, NEW e \in Entries, LRem(e)
  PROVE  /\ queue' \in Seq(Entries)
         /\ \A x : In(queue', x) => In(queue, x)
         /\ \A x : x # e /\ In(queue, x) => In(queue', x)
         /\ \A x : Single(queue, x) => Single(queue', x)
         /\ Single(queue, e) => ~In(queue', e)
<1>1. queue \in Seq(Entries)
  BY DEF TypeOK
<1>2. CASE ~Queued(e) /\ UNCHANGED queue
  BY <1>1, <1>2 DEF Queued, In
<1>3. CASE \E i \in DOMAIN queue :
             /\ queue[i] = e
             /\ queue' = [j \in 1..(Len(queue) - 1) |->
                            IF j < i THEN queue[j] ELSE queue[j + 1]]
  <2>1. PICK i \in DOMAIN queue :
          /\ queue[i] = e
          /\ queue' = [j \in 1..(Len(queue) - 1) |->
                         IF j < i THEN queue[j] ELSE queue[j + 1]]
    BY <1>3
  <2>2. queue' = Cut(queue, i)
    BY <2>1 DEF Cut
  <2> DEFINE t == Cut(queue, i)
  <2>3. /\ t \in Seq(Entries)
        /\ \A x : In(t, x) => In(queue, x)
        /\ \A x : x # e /\ In(queue, x) => In(t, x)
        /\ \A x : Single(queue, x) => Single(t, x)
        /\ Single(queue, e) => ~In(t, e)
    BY <1>1, <2>1, CutFacts
  <2> QED
    BY <2>2, <2>3
<1> QED
  BY <1>2, <1>3 DEF LRem

LEMMA PrependFacts ==
  ASSUME NEW s \in Seq(Entries), NEW e \in Entries
  PROVE  /\ <<e>> \o s \in Seq(Entries)
         /\ \A x : In(<<e>> \o s, x) <=> x = e \/ In(s, x)
         /\ \A x : Single(s, x) /\ (x = e => ~In(s, e)) => Single(<<e>> \o s, x)
<1> DEFINE t == <<e>> \o s
<1>1. /\ Len(s) \in Nat /\ DOMAIN s = 1..Len(s)
      /\ t \in Seq(Entries) /\ Len(t) = 1 + Len(s) /\ DOMAIN t = 1..(1 + Len(s))
      /\ t[1] = e /\ \A i \in 1..Len(s) : t[1 + i] = s[i]
  BY ConcatProperties, LenProperties
<1>2. \A i \in DOMAIN t : i = 1 \/ (i - 1 \in DOMAIN s /\ t[i] = s[i - 1])
  <2> SUFFICES ASSUME NEW i \in DOMAIN t, i # 1 PROVE i - 1 \in DOMAIN s /\ t[i] = s[i - 1]
    OBVIOUS
  <2>1. i - 1 \in 1..Len(s) /\ i = 1 + (i - 1)
    BY <1>1
  <2> QED
    BY <1>1, <2>1
<1>3. \A i \in DOMAIN s : 1 + i \in DOMAIN t /\ t[1 + i] = s[i]
  BY <1>1
<1>4. 1 \in DOMAIN t
  BY <1>1
<1> HIDE DEF t
<1>5. ASSUME NEW x PROVE In(t, x) <=> x = e \/ In(s, x)
  BY <1>1, <1>2, <1>3, <1>4 DEF In
<1>6. ASSUME NEW x, Single(s, x), x = e => ~In(s, e) PROVE Single(t, x)
  <2> SUFFICES ASSUME NEW i \in DOMAIN t, NEW j \in DOMAIN t, t[i] = x, t[j] = x
               PROVE  i = j
    BY DEF Single
  <2>1. CASE i = 1 \/ j = 1
    BY <1>1, <1>2, <1>6, <2>1 DEF In
  <2>2. CASE i # 1 /\ j # 1
    <3>1. i - 1 = j - 1
      BY <1>2, <1>6, <2>2 DEF Single
    <3> QED
      BY <1>1, <3>1
  <2> QED
    BY <2>1, <2>2
<1> QED
  BY <1>1, <1>5, <1>6 DEF t

LEMMA AppendFacts ==
  ASSUME NEW s \in Seq(Entries), NEW e \in Entries
  PROVE  /\ Append(s, e) \in Seq(Entries)
         /\ \A x : In(Append(s, e), x) <=> x = e \/ In(s, x)
         /\ \A x : Single(s, x) /\ (x = e => ~In(s, e)) => Single(Append(s, e), x)
<1> DEFINE t == Append(s, e)
<1>1. /\ Len(s) \in Nat /\ DOMAIN s = 1..Len(s)
      /\ t \in Seq(Entries) /\ DOMAIN t = 1..(Len(s) + 1)
      /\ t[Len(s) + 1] = e /\ \A i \in 1..Len(s) : t[i] = s[i]
  BY AppendProperties, LenProperties
<1> HIDE DEF t
<1>2. ASSUME NEW x PROVE In(t, x) <=> x = e \/ In(s, x)
  BY <1>1 DEF In
<1>3. ASSUME NEW x, Single(s, x), x = e => ~In(s, e) PROVE Single(t, x)
  BY <1>1, <1>3 DEF In, Single
<1> QED
  BY <1>1, <1>2, <1>3 DEF t
LEMMA InitInv == Init => IInv
<1> SUFFICES ASSUME Init PROVE IInv
  OBVIOUS
<1>1. Idle \in Rows
  BY DEF Idle, Rows
<1>2. TypeOK
  BY <1>1, EmptySeq, RunsAssumption DEF Init, TypeOK
<1>3. LogTellsRuns /\ HandsTold
  BY DEF Init, LogTellsRuns, HandsTold, Idle
<1>4. \A e \in Entries : OnePlace(e)
  <2>1. DOMAIN queue = {}
    BY DEF Init
  <2>2. \A d \in Dispatches, e \in Entries : ~Has(d, e)
    BY EntriesAssumption DEF Init, Idle, Has
  <2> QED
    BY <2>1, <2>2 DEF OnePlace, Single, In, Took, Init
<1> QED
  BY <1>2, <1>3, <1>4 DEF IInv

-----------------------------------------------------------------------------
(* Every step keeps the invariant.                                          *)

\* What a step of a request does to its slot and to the other ones.
LEMMA Slot ==
  ASSUME TypeOK, NEW d \in Dispatches, NEW q \in Rows, Become(d, q)
  PROVE  /\ dispatch' \in [Dispatches -> Rows]
         /\ dispatch'[d] = q
         /\ \A v \in Dispatches \ {d} : dispatch'[v] = dispatch[v]
BY DEF TypeOK, Become

\* An entry that the step does not give to anyone, nor to the queue.
LEMMA OtherPlace ==
  ASSUME TypeOK, NEW d \in Dispatches, NEW q \in Rows, Become(d, q),
         NEW e \in Entries, OnePlace(e), q.entry # e,
         In(queue', e) => In(queue, e), Single(queue, e) => Single(queue', e),
         runs'[e] = runs[e]
  PROVE  OnePlace(e)'
<1>1. \A v \in Dispatches :
        Has(v, e)' => v # d /\ Has(v, e) /\ dispatch'[v] = dispatch[v]
  BY Slot DEF Has
<1>2. \A v \in Dispatches : Took(v, e)' => Took(v, e)
  BY <1>1 DEF Took
<1>3. \A v, u \in Dispatches : Has(v, e)' /\ Has(u, e)' => v = u
  BY <1>1 DEF OnePlace
<1>4. \A v \in Dispatches : Took(v, e)' => ~In(queue', e)
  BY <1>2 DEF OnePlace
<1>5. \A v \in Dispatches :
        Has(v, e)' /\ dispatch'[v].pc \in {"remove", "run"} => runs'[e] = 0
  BY <1>1 DEF OnePlace
<1> QED
  BY <1>3, <1>4, <1>5 DEF OnePlace

\* A step of a request that touches at most the entry x.
LEMMA MoveKeeps ==
  ASSUME IInv, NEW d \in Dispatches, NEW q \in Rows, Become(d, q),
         queue' \in Seq(Entries),
         runs' \in [Entries -> 0..MaxRuns], \A e \in Entries : runs'[e] >= runs[e],
         log' \in [Ids -> Tenants \cup {NoTenant}], LogTellsRuns',
         excused \subseteq excused', excused' \subseteq Entries,
         \/ q.pc \in {"idle", "gone"} /\ q.entry = NoEntry
         \/ /\ q.pc \notin {"idle", "gone"}
            /\ q.entry \in Entries /\ ExecOf[q.entry] \in Ids
            /\ q.tenant = Owner(q.entry)
            /\ q.pc = "log" => runs'[q.entry] > 0,
         NEW x, q.entry \in {x, NoEntry},
         \A e \in Entries : e # x =>
           /\ In(queue', e) => In(queue, e)
           /\ Single(queue, e) => Single(queue', e)
           /\ runs'[e] = runs[e],
         x \in Entries \ excused' => OnePlace(x)'
  PROVE  IInv'
<1>1. TypeOK'
  BY Slot DEF IInv, TypeOK
<1>2. HandsTold'
  <2> SUFFICES ASSUME NEW v \in Dispatches \ {d}
               PROVE  \/ dispatch'[v].pc \in {"idle", "gone"} /\ dispatch'[v].entry = NoEntry
                      \/ /\ dispatch'[v].pc \notin {"idle", "gone"}
                         /\ dispatch'[v].entry \in Entries
                         /\ ExecOf[dispatch'[v].entry] \in Ids
                         /\ dispatch'[v].tenant = Owner(dispatch'[v].entry)
                         /\ dispatch'[v].pc = "log" => runs'[dispatch'[v].entry] > 0
    BY Slot DEF IInv, HandsTold, Owner
  <2>1. dispatch'[v] = dispatch[v]
    BY Slot DEF IInv
  <2>2. \A e \in Entries : runs[e] > 0 => runs'[e] > 0
    BY DEF IInv, TypeOK
  <2> QED
    BY <2>1, <2>2 DEF IInv, HandsTold
<1>3. ASSUME NEW e \in Entries \ excused' PROVE OnePlace(e)'
  <2>1. CASE e = x
    BY <2>1
  <2>2. CASE e # x
    <3>1. q.entry # e /\ OnePlace(e)
      BY <2>2, EntriesAssumption DEF IInv
    <3> QED
      BY <2>2, <3>1, OtherPlace DEF IInv
  <2> QED
    BY <2>1, <2>2
<1> QED
  BY <1>1, <1>2, <1>3 DEF IInv

\* What is known of a request between two steps.
LEMMA AtHand ==
  ASSUME IInv, NEW d \in Dispatches, dispatch[d].pc \notin {"idle", "gone"}
  PROVE  /\ dispatch[d].entry \in Entries
         /\ ExecOf[dispatch[d].entry] \in Ids
         /\ dispatch[d].tenant = Owner(dispatch[d].entry)
         /\ dispatch[d].tenant \in Tenants
         /\ dispatch[d].pc = "log" => runs[dispatch[d].entry] > 0
         /\ Has(d, dispatch[d].entry)
BY EntriesAssumption DEF IInv, HandsTold, Has, Owner

\* A request ends, and the queue is as it was or shorter.
LEMMA EndKeeps ==
  ASSUME IInv, NEW d \in Dispatches, NEW q \in {Idle, Killed}, Become(d, q),
         queue' \in Seq(Entries),
         \A e \in Entries : In(queue', e) => In(queue, e),
         \A e \in Entries : Single(queue, e) => Single(queue', e),
         log' \in [Ids -> Tenants \cup {NoTenant}], LogTellsRuns',
         UNCHANGED <<runs, excused>>
  PROVE  IInv'
<1>1. q \in Rows /\ q.pc \in {"idle", "gone"} /\ q.entry = NoEntry
  BY DEF Idle, Killed, Rows
<1>2. /\ runs' \in [Entries -> 0..MaxRuns]
      /\ \A e \in Entries : runs'[e] = runs[e] /\ runs'[e] >= runs[e]
      /\ excused' \subseteq Entries
  BY RunsAssumption DEF IInv, TypeOK
<1>3. NoEntry \notin Entries
  BY EntriesAssumption
<1> QED
  BY <1>1, <1>2, <1>3, MoveKeeps

LEMMA HoldKeeps == ASSUME IInv, NEW e \in Entries, Hold(e) PROVE IInv'
<1>1. /\ runs[e] = 0 /\ ~In(queue, e) /\ \A d \in Dispatches : ~Has(d, e)
      /\ queue' \in {Append(queue, e), <<e>> \o queue}
      /\ UNCHANGED <<runs, log, dispatch, excused>>
  BY DEF Hold, Queued, In
<1>2. queue \in Seq(Entries)
  BY DEF IInv, TypeOK
<1>3. /\ queue' \in Seq(Entries)
      /\ \A x : In(queue', x) <=> x = e \/ In(queue, x)
      /\ \A x : Single(queue, x) /\ (x = e => ~In(queue, e)) => Single(queue', x)
  <2>1. CASE queue' = Append(queue, e)
    BY <1>2, <2>1, AppendFacts
  <2>2. CASE queue' = <<e>> \o queue
    BY <1>2, <2>2, PrependFacts
  <2> QED
    BY <1>1, <2>1, <2>2
<1>4. TypeOK' /\ LogTellsRuns' /\ HandsTold'
  BY <1>1, <1>3 DEF IInv, TypeOK, LogTellsRuns, HandsTold, Owner
<1>5. ASSUME NEW x \in Entries \ excused' PROVE OnePlace(x)'
  <2>1. OnePlace(x) /\ \A d \in Dispatches : Has(d, x)' = Has(d, x) /\ Took(d, x)' = Took(d, x)
    BY <1>1 DEF IInv, Has, Took
  <2>2. \A d \in Dispatches : Took(d, x) => Has(d, x)
    BY DEF Took
  <2> QED
    BY <1>1, <1>3, <2>1, <2>2 DEF OnePlace
<1> QED
  BY <1>4, <1>5 DEF IInv

LEMMA FindKeeps ==
  ASSUME IInv, NEW d \in Dispatches, NEW e \in Entries, NEW tenant \in Tenants,
         NEW role, Find(d, e, tenant, role)
  PROVE  IInv'
<1> DEFINE q == [pc |-> "remove", entry |-> e, tenant |-> tenant]
<1>1. /\ dispatch[d].pc = "idle" /\ ExecOf[e] \in Ids /\ Owner(e) = tenant
      /\ Become(d, q) /\ In(queue, e) /\ UNCHANGED <<queue, runs, log>>
      /\ excused' = IF \E v \in Dispatches : Has(v, e) THEN excused \cup {e} ELSE excused
  BY DEF Find, First, In
<1>2. q \in Rows /\ q.pc = "remove" /\ q.entry = e /\ q.tenant = tenant
  BY DEF Rows
<1> HIDE DEF q
<1>3. /\ queue' \in Seq(Entries) /\ runs' \in [Entries -> 0..MaxRuns]
      /\ \A x \in Entries : runs'[x] >= runs[x]
      /\ log' \in [Ids -> Tenants \cup {NoTenant}] /\ LogTellsRuns'
      /\ excused \subseteq excused' /\ excused' \subseteq Entries
  BY <1>1, RunsAssumption DEF IInv, TypeOK, LogTellsRuns
<1>4. ASSUME e \notin excused' PROVE OnePlace(e)'
  <2>1. OnePlace(e) /\ \A v \in Dispatches : ~Has(v, e)
    BY <1>1, <1>4 DEF IInv
  <2>2. \A v \in Dispatches : Has(v, e)' => v = d
    BY <1>1, <1>2, <2>1, Slot DEF IInv, Has
  <2>3. \A v \in Dispatches : ~Took(v, e)'
    BY <1>1, <1>2, <2>2, Slot DEF IInv, Took
  <2> QED
    BY <1>1, <2>1, <2>2, <2>3 DEF OnePlace
<1> QED
  BY <1>1, <1>2, <1>3, <1>4, MoveKeeps

LEMMA RemoveKeeps == ASSUME IInv, NEW d \in Dispatches, Remove(d) PROVE IInv'
<1>0. PICK e \in Entries : e = dispatch[d].entry
  BY AtHand DEF Remove
<1> DEFINE q == [pc |-> "run", entry |-> e, tenant |-> dispatch[d].tenant]
<1>1. /\ dispatch[d].pc = "remove" /\ Become(d, q) /\ LRem(e)
      /\ UNCHANGED <<runs, log, excused>>
  BY <1>0 DEF Remove, Goto
<1>2. /\ e \in Entries /\ ExecOf[e] \in Ids /\ Has(d, e)
      /\ dispatch[d].tenant = Owner(e) /\ dispatch[d].tenant \in Tenants
  BY <1>0, <1>1, AtHand
<1>3. q \in Rows /\ q.pc = "run" /\ q.entry = e /\ q.tenant = Owner(e)
  BY <1>2 DEF Rows
<1> HIDE DEF q
<1>4. /\ runs' \in [Entries -> 0..MaxRuns] /\ \A x \in Entries : runs'[x] >= runs[x]
      /\ log' \in [Ids -> Tenants \cup {NoTenant}] /\ LogTellsRuns'
      /\ excused' \subseteq Entries
  BY <1>1, RunsAssumption DEF IInv, TypeOK, LogTellsRuns
<1>5. /\ queue' \in Seq(Entries)
      /\ \A x : In(queue', x) => In(queue, x)
      /\ \A x : Single(queue, x) => Single(queue', x)
      /\ Single(queue, e) => ~In(queue', e)
  BY <1>1, <1>2, LRemFacts DEF IInv
<1>6. ASSUME e \notin excused' PROVE OnePlace(e)'
  <2>1. OnePlace(e)
    BY <1>1, <1>2, <1>6 DEF IInv
  <2>2. \A v \in Dispatches : Has(v, e)' => v = d
    BY <1>1, <1>2, <1>3, <2>1, Slot DEF IInv, OnePlace, Has
  <2>3. ~In(queue', e) /\ Single(queue', e) /\ runs'[e] = 0
    BY <1>1, <1>2, <1>5, <2>1 DEF OnePlace
  <2> QED
    BY <2>2, <2>3 DEF OnePlace
<1>7. \A x \in Entries : x # e =>
        /\ In(queue', x) => In(queue, x)
        /\ Single(queue, x) => Single(queue', x)
        /\ runs'[x] = runs[x]
  BY <1>1, <1>5
<1>8. excused \subseteq excused'
  BY <1>1
<1> QED
  BY <1>1, <1>2, <1>3, <1>4, <1>5, <1>6, <1>7, <1>8, MoveKeeps

\* The DDL took effect once more, or not.
LEMMA RanFacts ==
  ASSUME IInv, NEW e \in Entries, Ran(e)
  PROVE  /\ runs' \in [Entries -> 0..MaxRuns]
         /\ \A x \in Entries : runs'[x] >= runs[x]
         /\ \A x \in Entries \ {e} : runs'[x] = runs[x]
         /\ runs'[e] > 0
         /\ runs[e] = 0 => runs'[e] = 1
<1>1. runs \in [Entries -> 0..MaxRuns] /\ MaxRuns \in Nat /\ MaxRuns > 1
  BY RunsAssumption DEF IInv, TypeOK
<1> QED
  BY <1>1 DEF Ran

LEMMA ExecuteKeeps ==
  ASSUME IInv, NEW d \in Dispatches, Execute(d) \/ ExecuteFails(d)
  PROVE  IInv'
<1>0. PICK e \in Entries : e = dispatch[d].entry
  BY AtHand DEF Execute, ExecuteFails
<1> DEFINE pc == dispatch'[d].pc
           q == [pc |-> pc, entry |-> e, tenant |-> dispatch[d].tenant]
<1>1. /\ dispatch[d].pc = "run" /\ UNCHANGED <<queue, log, excused>>
      /\ Ran(e) \/ UNCHANGED runs
  BY <1>0 DEF Execute, ExecuteFails
<1>2. /\ e \in Entries /\ ExecOf[e] \in Ids /\ Has(d, e)
      /\ dispatch[d].tenant = Owner(e) /\ dispatch[d].tenant \in Tenants
  BY <1>0, <1>1, AtHand
<1>3. PICK c \in {"log", "push"} : Goto(d, c) /\ (c = "log" => Ran(e))
  BY <1>0 DEF Execute, ExecuteFails
<1>4. Become(d, q) /\ pc = c
  BY <1>0, <1>3 DEF Goto, Become, IInv, TypeOK
<1>5. q \in Rows /\ q.pc \in {"log", "push"} /\ q.entry = e /\ q.tenant = Owner(e)
  BY <1>2, <1>4 DEF Rows
<1>6. q.pc = "log" => Ran(e)
  BY <1>3, <1>4
<1> HIDE DEF q
<1>7. /\ runs' \in [Entries -> 0..MaxRuns]
      /\ \A x \in Entries : runs'[x] >= runs[x]
      /\ \A x \in Entries \ {e} : runs'[x] = runs[x]
      /\ q.pc = "log" => runs'[e] > 0
      /\ runs[e] = 0 => runs'[e] <= 1
  <2>1. CASE Ran(e)
    BY <1>2, <2>1, RanFacts
  <2>2. CASE UNCHANGED runs
    BY <1>2, <1>6, <2>1, <2>2, RunsAssumption DEF IInv, TypeOK
  <2> QED
    BY <1>1, <2>1, <2>2
<1>8. /\ queue' \in Seq(Entries) /\ log' \in [Ids -> Tenants \cup {NoTenant}]
      /\ excused' \subseteq Entries
  BY <1>1 DEF IInv, TypeOK
<1>9. LogTellsRuns'
  <2>1. \A x \in Entries : runs[x] > 0 => runs'[x] > 0
    BY <1>7 DEF IInv, TypeOK
  <2> QED
    BY <1>1, <2>1 DEF IInv, LogTellsRuns, Owner
<1>10. ASSUME e \notin excused' PROVE OnePlace(e)'
  <2>1. OnePlace(e)
    BY <1>1, <1>2, <1>10 DEF IInv
  <2>2. \A v \in Dispatches : Has(v, e)' => v = d
    BY <1>2, <1>4, <1>5, <2>1, Slot DEF IInv, OnePlace, Has
  <2>3. runs'[e] <= 1 /\ ~In(queue', e) /\ Single(queue', e)
    BY <1>1, <1>2, <1>7, <2>1 DEF OnePlace, Took
  <2>4. dispatch'[d].pc \notin {"remove", "run"}
    BY <1>3, <1>4
  <2> QED
    BY <2>2, <2>3, <2>4 DEF OnePlace
<1>11. \A x : In(queue', x) = In(queue, x) /\ Single(queue', x) = Single(queue, x)
  BY <1>1
<1> QED
  BY <1>1, <1>2, <1>4, <1>5, <1>7, <1>8, <1>9, <1>10, <1>11, MoveKeeps

\* The row is inserted, or was.
LEMMA LoggedFacts ==
  ASSUME IInv, NEW d \in Dispatches, dispatch[d].pc = "log",
         Logged(d) \/ UNCHANGED log, UNCHANGED runs
  PROVE  log' \in [Ids -> Tenants \cup {NoTenant}] /\ LogTellsRuns'
<1> DEFINE e == dispatch[d].entry
           id == ExecOf[e]
<1>1. /\ e \in Entries /\ id \in Ids /\ dispatch[d].tenant = Owner(e)
      /\ dispatch[d].tenant \in Tenants /\ runs[e] > 0
  BY AtHand
<1>2. log \in [Ids -> Tenants \cup {NoTenant}]
  BY DEF IInv, TypeOK
<1>3. log' \in [Ids -> Tenants \cup {NoTenant}]
  BY <1>1, <1>2 DEF Logged
<1>4. \A i \in Ids : log'[i] = log[i] \/ (i = id /\ log'[i] = Owner(e))
  BY <1>1, <1>2 DEF Logged
<1> HIDE DEF e, id
<1>5. LogTellsRuns'
  BY <1>1, <1>4 DEF IInv, LogTellsRuns, id, Owner
<1> QED
  BY <1>3, <1>5

LEMMA LogKeeps == ASSUME IInv, NEW d \in Dispatches, LogManualDispatch(d) PROVE IInv'
<1>1. log' \in [Ids -> Tenants \cup {NoTenant}] /\ LogTellsRuns'
  BY LoggedFacts DEF LogManualDispatch
<1> QED
  BY <1>1, EndKeeps DEF LogManualDispatch, IInv, TypeOK

LEMMA LogFailsKeeps == ASSUME IInv, NEW d \in Dispatches, LogFails(d) PROVE IInv'
<1>0. PICK e \in Entries : e = dispatch[d].entry
  BY AtHand DEF LogFails
<1> DEFINE q == [pc |-> "push", entry |-> e, tenant |-> dispatch[d].tenant]
<1>1. /\ dispatch[d].pc = "log" /\ Become(d, q) /\ UNCHANGED <<queue, runs, excused>>
  BY <1>0 DEF LogFails, Goto
<1>2. /\ e \in Entries /\ ExecOf[e] \in Ids /\ Has(d, e)
      /\ dispatch[d].tenant = Owner(e) /\ dispatch[d].tenant \in Tenants
  BY <1>0, <1>1, AtHand
<1>3. q \in Rows /\ q.pc = "push" /\ q.entry = e /\ q.tenant = Owner(e)
  BY <1>2 DEF Rows
<1> HIDE DEF q
<1>4. log' \in [Ids -> Tenants \cup {NoTenant}] /\ LogTellsRuns'
  BY LoggedFacts DEF LogFails
<1>5. /\ queue' \in Seq(Entries) /\ runs' \in [Entries -> 0..MaxRuns]
      /\ \A x \in Entries : runs'[x] >= runs[x]
      /\ excused' \subseteq Entries
  BY <1>1, RunsAssumption DEF IInv, TypeOK
<1>6. ASSUME e \notin excused' PROVE OnePlace(e)'
  <2>1. OnePlace(e)
    BY <1>1, <1>2, <1>6 DEF IInv
  <2>2. \A v \in Dispatches : Has(v, e)' => v = d
    BY <1>1, <1>2, <1>3, <2>1, Slot DEF IInv, OnePlace, Has
  <2>3. dispatch'[d].pc = "push"
    BY <1>1, <1>3, Slot DEF IInv
  <2>4. ~In(queue', e) /\ Single(queue', e) /\ runs'[e] <= 1
    BY <1>1, <1>2, <2>1 DEF OnePlace, Took
  <2> QED
    BY <2>2, <2>3, <2>4 DEF OnePlace
<1> QED
  BY <1>1, <1>2, <1>3, <1>4, <1>5, <1>6, MoveKeeps

LEMMA PushBackKeeps == ASSUME IInv, NEW d \in Dispatches, PushBack(d) PROVE IInv'
<1>0. PICK e \in Entries : e = dispatch[d].entry
  BY AtHand DEF PushBack
<1>1. /\ dispatch[d].pc = "push" /\ queue' = <<e>> \o queue /\ Become(d, Idle)
      /\ excused' = IF runs[e] > 0 THEN excused \cup {e} ELSE excused
      /\ UNCHANGED <<runs, log>>
  BY <1>0 DEF PushBack
<1>2. e \in Entries /\ Has(d, e) /\ Took(d, e)
  BY <1>0, <1>1, AtHand DEF Took
<1> DEFINE q == Idle
<1>3. q \in Rows /\ q.pc = "idle" /\ q.entry = NoEntry
  BY DEF Idle, Rows
<1>4. /\ runs' \in [Entries -> 0..MaxRuns] /\ \A x \in Entries : runs'[x] >= runs[x]
      /\ log' \in [Ids -> Tenants \cup {NoTenant}] /\ LogTellsRuns'
      /\ excused \subseteq excused' /\ excused' \subseteq Entries
  BY <1>1, <1>2, RunsAssumption DEF IInv, TypeOK, LogTellsRuns
<1>5. /\ queue' \in Seq(Entries)
      /\ \A x : In(queue', x) <=> x = e \/ In(queue, x)
      /\ \A x : Single(queue, x) /\ (x = e => ~In(queue, e)) => Single(queue', x)
  BY <1>1, <1>2, PrependFacts DEF IInv, TypeOK
<1>6. ASSUME e \notin excused' PROVE OnePlace(e)'
  <2>1. OnePlace(e) /\ runs'[e] = 0
    BY <1>1, <1>2, <1>6 DEF IInv, TypeOK
  <2>2. \A v \in Dispatches : ~Has(v, e)'
    BY <1>1, <1>2, <1>3, <2>1, EntriesAssumption, Slot DEF IInv, OnePlace, Has
  <2>3. Single(queue', e)
    BY <1>2, <1>5, <2>1 DEF OnePlace
  <2> QED
    BY <2>1, <2>2, <2>3 DEF OnePlace, Took
<1>7. \A x \in Entries : x # e =>
        /\ In(queue', x) => In(queue, x)
        /\ Single(queue, x) => Single(queue', x)
        /\ runs'[x] = runs[x]
  BY <1>1, <1>5
<1>8. excused \subseteq excused' /\ Become(d, q) /\ q.entry \in {e, NoEntry}
  BY <1>1, <1>3
<1>9. e \in Entries \ excused' => OnePlace(e)'
  BY <1>6
<1> HIDE DEF q
<1> QED
  BY <1>3, <1>4, <1>5, <1>7, <1>8, <1>9, MoveKeeps

LEMMA StepKeeps == IInv /\ [Next]_vars => IInv'
<1> SUFFICES ASSUME IInv, [Next]_vars PROVE IInv'
  OBVIOUS
<1>1. queue \in Seq(Entries) /\ log \in [Ids -> Tenants \cup {NoTenant}] /\ LogTellsRuns
  BY DEF IInv, TypeOK
<1>2. UNCHANGED <<log, runs>> => LogTellsRuns'
  BY <1>1 DEF LogTellsRuns, Owner
<1>3. ASSUME NEW d \in Dispatches, RemoveFails(d) PROVE IInv'
  <2>1. /\ queue' \in Seq(Entries)
        /\ \A x : In(queue', x) => In(queue, x)
        /\ \A x : Single(queue, x) => Single(queue', x)
    <3>1. CASE LRem(dispatch[d].entry)
      BY <1>3, <3>1, AtHand, LRemFacts DEF RemoveFails, IInv
    <3>2. CASE UNCHANGED queue
      BY <1>1, <3>2
    <3> QED
      BY <1>3, <3>1, <3>2 DEF RemoveFails
  <2> QED
    BY <1>1, <1>2, <1>3, <2>1, EndKeeps DEF RemoveFails
<1>4. ASSUME NEW d \in Dispatches, PushFails(d) \/ Crash(d) \/ Restart(d) PROVE IInv'
  <2>1. UNCHANGED <<queue, runs, log, excused>>
    BY <1>4 DEF PushFails, Crash, Restart
  <2>2. PICK q \in {Idle, Killed} : Become(d, q)
    BY <1>4 DEF PushFails, Crash, Restart
  <2>3. \A x : In(queue', x) = In(queue, x) /\ Single(queue', x) = Single(queue, x)
    BY <2>1
  <2> QED
    BY <1>1, <1>2, <2>1, <2>2, <2>3, EndKeeps
<1>5. CASE UNCHANGED vars
  <2>1. TypeOK' /\ LogTellsRuns' /\ HandsTold'
    BY <1>5 DEF vars, IInv, TypeOK, LogTellsRuns, HandsTold, Owner
  <2>2. \A e \in Entries \ excused' : OnePlace(e)'
    BY <1>5 DEF vars, IInv, OnePlace, Has, Took
  <2> QED
    BY <2>1, <2>2 DEF IInv
<1> QED
  BY <1>3, <1>4, <1>5, HoldKeeps, FindKeeps, RemoveKeeps, ExecuteKeeps, LogKeeps,
     LogFailsKeeps, PushBackKeeps
     DEF Next, Step

LEMMA Invariant == Spec => []IInv
BY InitInv, StepKeeps, PTL DEF Spec

-----------------------------------------------------------------------------
(* The theorems.                                                            *)

\* The queue, the log and the requests have their types.
THEOREM TypeCorrect == Spec => []TypeOK
<1>1. IInv => TypeOK
  BY DEF IInv
<1> QED
  BY <1>1, Invariant, PTL

\* A row of the log tells of DDL that took effect, for the owner of its entry.
THEOREM RowsTellRuns == Spec => []LogTellsRuns
<1>1. IInv => LogTellsRuns
  BY DEF IInv
<1> QED
  BY <1>1, Invariant, PTL

\* DDL takes effect once, outside the two excuses.
THEOREM HeldRunsOnce == Spec => []RunsOnce
<1>1. IInv => RunsOnce
  BY DEF IInv, RunsOnce, OnePlace
<1> QED
  BY <1>1, Invariant, PTL

\* An entry leaves the queue and the hands of requests when it has its row, or
\* is lost by a crash, a failed push or the lost answer of LREM.
THEOREM EntriesAreNotLost == Spec => NoneLost
<1> DEFINE Kept(e) == In(queue, e) \/ \E d \in Dispatches : Took(d, e)
           Told(e) == ExecOf[e] \in Ids /\ log'[ExecOf[e]] # NoTenant
           Lost(e) == \E d \in Dispatches :
                        Has(d, e) /\ (Crash(d) \/ PushFails(d) \/ RemoveFails(d))
           A == \A e \in Entries : Kept(e) => Kept(e)' \/ Told(e) \/ Lost(e)
<1>1. ASSUME IInv, [Next]_vars PROVE [A]_vars
  <2> SUFFICES ASSUME NEW e \in Entries, Kept(e), ~Lost(e), Next
               PROVE  Kept(e)' \/ Told(e)
    BY <1>1
  <2>1. queue \in Seq(Entries)
    BY <1>1 DEF IInv, TypeOK
  <2>2. ASSUME UNCHANGED <<queue, dispatch>> PROVE Kept(e)'
    BY <2>2 DEF Took, Has
  \* A step of d that leaves e where it was.
  <2>3. ASSUME NEW d \in Dispatches, NEW q \in Rows, Become(d, q),
               In(queue, e) => In(queue', e),
               ~Took(d, e) \/ (q.entry = e /\ q.pc # "remove")
        PROVE  Kept(e)'
    <3>1. CASE In(queue, e)
      BY <2>3, <3>1
    <3>2. CASE \E v \in Dispatches : Took(v, e)
      <4>1. PICK v \in Dispatches : Took(v, e)
        BY <3>2
      <4>2. Took(v, e)'
        BY <1>1, <2>3, <4>1, Slot DEF IInv, Took, Has
      <4> QED
        BY <4>2
    <3> QED
      BY <3>1, <3>2
  <2>4. ASSUME NEW x \in Entries, Hold(x) PROVE Kept(e)'
    <3>1. In(queue, e) => In(queue', e)
      <4>1. CASE queue' = Append(queue, x)
        BY <2>1, <4>1, AppendFacts
      <4>2. CASE queue' = <<x>> \o queue
        BY <2>1, <4>2, PrependFacts
      <4> QED
        BY <2>4, <4>1, <4>2 DEF Hold
    <3>2. \A d \in Dispatches : Took(d, e)' = Took(d, e)
      BY <2>4 DEF Hold, Took, Has
    <3> QED
      BY <3>1, <3>2
  <2>5. ASSUME NEW d \in Dispatches, NEW x \in Entries, NEW t \in Tenants, NEW role,
               Find(d, x, t, role)
        PROVE  Kept(e)'
    <3> DEFINE q == [pc |-> "remove", entry |-> x, tenant |-> t]
    <3>1. q \in Rows /\ Become(d, q) /\ UNCHANGED queue /\ dispatch[d].pc = "idle"
      BY <2>5 DEF Find, Rows
    <3>2. ~Took(d, e)
      BY <1>1, <3>1, EntriesAssumption DEF IInv, HandsTold, Took, Has
    <3> HIDE DEF q
    <3> QED
      BY <2>3, <3>1, <3>2
  <2>6. ASSUME NEW d \in Dispatches, Remove(d) PROVE Kept(e)'
    <3> DEFINE q == [pc |-> "run", entry |-> dispatch[d].entry,
                     tenant |-> dispatch[d].tenant]
    <3>1. /\ dispatch[d].pc = "remove" /\ Become(d, q) /\ LRem(dispatch[d].entry)
          /\ dispatch[d].entry \in Entries /\ dispatch[d].tenant \in Tenants
      BY <1>1, <2>6, AtHand DEF Remove, Goto
    <3>2. q \in Rows /\ q.pc = "run" /\ q.entry = dispatch[d].entry
      BY <3>1 DEF Rows
    <3> HIDE DEF q
    <3>3. CASE dispatch[d].entry = e
      <4>1. Took(d, e)'
        BY <1>1, <3>1, <3>2, <3>3, Slot DEF IInv, Took, Has
      <4> QED
        BY <4>1
    <3>4. CASE dispatch[d].entry # e
      <4>1. In(queue, e) => In(queue', e)
        BY <1>1, <3>1, <3>4, LRemFacts DEF IInv
      <4> QED
        BY <2>3, <3>1, <3>2, <3>4, <4>1 DEF Took, Has
    <3> QED
      BY <3>3, <3>4
  <2>7. ASSUME NEW d \in Dispatches, Execute(d) \/ ExecuteFails(d) \/ LogFails(d)
        PROVE  Kept(e)'
    <3>1. PICK c \in {"log", "push"} : Goto(d, c)
      BY <2>7 DEF Execute, ExecuteFails, LogFails
    <3> DEFINE q == [pc |-> c, entry |-> dispatch[d].entry,
                     tenant |-> dispatch[d].tenant]
    <3>2. /\ Become(d, q) /\ UNCHANGED queue
          /\ dispatch[d].entry \in Entries /\ dispatch[d].tenant \in Tenants
      BY <1>1, <2>7, <3>1, AtHand DEF Execute, ExecuteFails, LogFails, Goto
    <3>3. q \in Rows /\ q.pc = c /\ q.entry = dispatch[d].entry
      BY <3>2 DEF Rows
    <3> HIDE DEF q
    <3>4. ~Took(d, e) \/ (q.entry = e /\ q.pc # "remove")
      BY <3>3 DEF Took, Has
    <3> QED
      BY <2>3, <3>2, <3>3, <3>4
  <2>8. ASSUME NEW d \in Dispatches, LogManualDispatch(d) PROVE Kept(e)' \/ Told(e)
    <3>1. /\ Become(d, Idle) /\ UNCHANGED queue /\ dispatch[d].pc = "log" /\ Logged(d)
          /\ ExecOf[dispatch[d].entry] \in Ids /\ dispatch[d].tenant \in Tenants
      BY <1>1, <2>8, AtHand DEF LogManualDispatch
    <3>2. CASE dispatch[d].entry = e
      BY <1>1, <3>1, <3>2, EntriesAssumption DEF IInv, TypeOK, Logged
    <3>3. CASE dispatch[d].entry # e
      <4>1. Idle \in Rows
        BY DEF Idle, Rows
      <4> QED
        BY <2>3, <3>1, <3>3, <4>1 DEF Took, Has
    <3> QED
      BY <3>2, <3>3
  <2>9. ASSUME NEW d \in Dispatches, PushBack(d) PROVE Kept(e)'
    <3>1. /\ Become(d, Idle) /\ queue' = <<dispatch[d].entry>> \o queue
          /\ dispatch[d].entry \in Entries
      BY <1>1, <2>9, AtHand DEF PushBack
    <3>2. /\ dispatch[d].entry = e => In(queue', e)
          /\ In(queue, e) => In(queue', e)
      BY <2>1, <3>1, PrependFacts
    <3>3. Idle \in Rows
      BY DEF Idle, Rows
    <3>4. CASE dispatch[d].entry = e
      BY <3>2, <3>4
    <3>5. CASE dispatch[d].entry # e
      BY <2>3, <3>1, <3>2, <3>3, <3>5 DEF Took, Has
    <3> QED
      BY <3>4, <3>5
  <2>10. ASSUME NEW d \in Dispatches,
                PushFails(d) \/ RemoveFails(d) \/ Crash(d) \/ Restart(d)
         PROVE  Kept(e)'
    <3>1. PICK q \in {Idle, Killed} : Become(d, q)
      BY <2>10 DEF PushFails, RemoveFails, Crash, Restart
    <3>2. q \in Rows
      BY DEF Idle, Killed, Rows
    <3>3. dispatch[d].entry # e
      <4>1. CASE Restart(d)
        BY <1>1, <4>1, EntriesAssumption DEF Restart, IInv, HandsTold
      <4>2. CASE ~Restart(d)
        BY <2>10, <4>2 DEF Has
      <4> QED
        BY <4>1, <4>2
    <3>4. In(queue, e) => In(queue', e)
      <4>1. CASE UNCHANGED queue
        BY <4>1
      <4>2. CASE RemoveFails(d) /\ LRem(dispatch[d].entry)
        BY <1>1, <3>3, <4>2, AtHand, LRemFacts DEF RemoveFails, IInv
      <4> QED
        BY <2>10, <4>1, <4>2 DEF PushFails, RemoveFails, Crash, Restart
    <3> QED
      BY <2>3, <3>1, <3>2, <3>3, <3>4 DEF Took, Has
  <2> QED
    BY <2>4, <2>5, <2>6, <2>7, <2>8, <2>9, <2>10 DEF Next, Step
<1>2. [A]_vars =>
        [\A e \in Entries :
           Queued(e) \/ (\E d \in Dispatches : Took(d, e)) =>
             \/ Queued(e)' \/ (\E d \in Dispatches : Took(d, e))'
             \/ ExecOf[e] \in Ids /\ log'[ExecOf[e]] # NoTenant
             \/ \E d \in Dispatches :
                  Has(d, e) /\ (Crash(d) \/ PushFails(d) \/ RemoveFails(d))]_vars
  BY DEF Queued, In
<1> HIDE DEF A
<1> QED
  BY <1>1, <1>2, Invariant, PTL DEF Spec, NoneLost

-----------------------------------------------------------------------------
(* Copies are bounded.                                                      *)

LEMMA OneMore ==
  ASSUME NEW S, IsFiniteSet(S), NEW x
  PROVE  /\ Cardinality(S) \in Nat
         /\ Cardinality(S \cup {x}) <= Cardinality(S) + 1
         /\ x \in S => Cardinality(S \ {x}) = Cardinality(S) - 1
         /\ x \notin S => Cardinality(S \ {x}) = Cardinality(S)
<1>1. Cardinality(S) \in Nat
  BY FS_CardinalityType
<1>2. Cardinality(S \cup {x}) = IF x \in S THEN Cardinality(S) ELSE Cardinality(S) + 1
  BY FS_AddElement
<1>3. Cardinality(S \ {x}) = IF x \in S THEN Cardinality(S) - 1 ELSE Cardinality(S)
  BY FS_RemoveElement
<1> QED
  BY <1>1, <1>2, <1>3

\* The places of x in s, of all and of those in D.
PlacesIn(D, s, x) == {i \in D : s[i] = x}
Places(s, x) == PlacesIn(DOMAIN s, s, x)

\* The copies among the places D of t, which f tells apart in s.
LEMMA PlacesInjected ==
  ASSUME NEW s \in Seq(Entries), NEW S \in SUBSET (DOMAIN s), NEW t, NEW D, NEW x,
         NEW f, f \in [D -> S], \A i, j \in D : f[i] = f[j] => i = j,
         \A i \in D : t[i] = s[f[i]]
  PROVE  /\ IsFiniteSet(PlacesIn(D, t, x))
         /\ IsFiniteSet(PlacesIn(S, s, x))
         /\ Cardinality(PlacesIn(D, t, x)) <= Cardinality(PlacesIn(S, s, x))
<1> DEFINE A == PlacesIn(D, t, x)
           B == PlacesIn(S, s, x)
           g == [i \in A |-> f[i]]
<1>1. IsFiniteSet(B)
  <2>1. DOMAIN s = 1..Len(s) /\ Len(s) \in Nat
    BY LenProperties
  <2>2. IsFiniteSet(1..Len(s))
    BY <2>1, FS_Interval
  <2> QED
    BY <2>1, <2>2, FS_Subset DEF PlacesIn
<1>2. g \in Injection(A, B)
  BY DEF Injection, IsInjective, PlacesIn
<1> HIDE DEF A, B, g
<1>3. IsFiniteSet(A) /\ Cardinality(A) <= Cardinality(B)
  BY <1>1, <1>2, FS_Injection
<1> QED
  BY <1>1, <1>3 DEF A, B

\* What a removal, or one payload more, does to the number of copies.
LEMMA PlacesFinite ==
  ASSUME NEW s \in Seq(Entries), NEW x
  PROVE  IsFiniteSet(Places(s, x)) /\ Cardinality(Places(s, x)) \in Nat
<1>1. DOMAIN s = 1..Len(s) /\ Len(s) \in Nat
  BY LenProperties
<1>2. IsFiniteSet(1..Len(s)) /\ Places(s, x) \in SUBSET (1..Len(s))
  BY <1>1, FS_Interval DEF Places, PlacesIn
<1> QED
  BY <1>2, FS_Subset, FS_CardinalityType

LEMMA CutPlaces ==
  ASSUME NEW s \in Seq(Entries), NEW p \in DOMAIN s, NEW x
  PROVE  Cardinality(Places(Cut(s, p), x)) <=
           Cardinality(Places(s, x)) - (IF s[p] = x THEN 1 ELSE 0)
<1> DEFINE t == Cut(s, p)
           D == 1..(Len(s) - 1)
           S == (DOMAIN s) \ {p}
           f == [j \in D |-> IF j < p THEN j ELSE j + 1]
<1>1. Len(s) \in Nat /\ DOMAIN s = 1..Len(s) /\ p \in 1..Len(s)
  BY LenProperties
<1>2. /\ DOMAIN t = D /\ \A i \in D : t[i] = s[f[i]]
      /\ f \in [D -> S] /\ \A i, j \in D : f[i] = f[j] => i = j
  BY <1>1 DEF Cut
<1>3. S \in SUBSET (DOMAIN s)
  OBVIOUS
<1> HIDE DEF t, D, f, S
<1>4. Cardinality(PlacesIn(D, t, x)) <= Cardinality(PlacesIn(S, s, x))
  BY <1>2, <1>3, PlacesInjected
<1>5. PlacesIn(D, t, x) = Places(t, x)
  BY <1>2 DEF Places, PlacesIn
<1>6. PlacesIn(S, s, x) = Places(s, x) \ {p}
  BY DEF Places, PlacesIn, S
<1>7. /\ IsFiniteSet(Places(s, x)) /\ Cardinality(Places(s, x)) \in Nat
      /\ p \in Places(s, x) <=> s[p] = x
  BY PlacesFinite DEF Places, PlacesIn
<1> DEFINE P == Places(s, x)
<1>8. Cardinality(P \ {p}) = Cardinality(P) - (IF s[p] = x THEN 1 ELSE 0)
  <2> HIDE DEF P
  <2>1. IsFiniteSet(P) /\ Cardinality(P) \in Nat /\ (p \in P <=> s[p] = x)
    BY <1>7 DEF P
  <2>2. /\ p \in P => Cardinality(P \ {p}) = Cardinality(P) - 1
        /\ p \notin P => Cardinality(P \ {p}) = Cardinality(P)
    BY <2>1, OneMore
  <2> QED
    BY <2>1, <2>2
<1> QED
  BY <1>4, <1>5, <1>6, <1>8 DEF t

LEMMA PrependPlaces ==
  ASSUME NEW s \in Seq(Entries), NEW e \in Entries, NEW x
  PROVE  Cardinality(Places(<<e>> \o s, x)) <=
           Cardinality(Places(s, x)) + (IF e = x THEN 1 ELSE 0)
<1> DEFINE t == <<e>> \o s
           D == 2..(Len(s) + 1)
           S == DOMAIN s
           f == [j \in D |-> j - 1]
           A == PlacesIn(D, t, x)
<1>1. /\ Len(s) \in Nat /\ DOMAIN s = 1..Len(s)
      /\ t \in Seq(Entries) /\ Len(t) = 1 + Len(s) /\ DOMAIN t = 1..(1 + Len(s))
      /\ t[1] = e /\ \A i \in 1..Len(s) : t[1 + i] = s[i]
  BY ConcatProperties, LenProperties
<1>2. ASSUME NEW i \in D PROVE t[i] = s[f[i]]
  <2>1. i - 1 \in 1..Len(s) /\ i = 1 + (i - 1)
    BY <1>1
  <2> QED
    BY <1>1, <2>1
<1>3. f \in [D -> S] /\ \A i, j \in D : f[i] = f[j] => i = j
  BY <1>1
<1>x. S \in SUBSET (DOMAIN s)
  OBVIOUS
<1> HIDE DEF f, t, A, D, S
<1>4. IsFiniteSet(A) /\ Cardinality(A) <= Cardinality(PlacesIn(S, s, x))
  BY <1>2, <1>3, <1>x, PlacesInjected DEF A
<1>5. PlacesIn(S, s, x) = Places(s, x)
  BY DEF Places, S
<1>6. Places(t, x) = A \cup (IF e = x THEN {1} ELSE {})
  BY <1>1 DEF Places, PlacesIn, A, D
<1>7. Cardinality(A) \in Nat /\ Cardinality(Places(s, x)) \in Nat
  BY <1>4, OneMore, PlacesFinite
<1>8. Cardinality(A \cup {1}) <= Cardinality(A) + 1
  BY <1>4, OneMore
<1>9. Cardinality(Places(t, x)) <= Cardinality(A) + (IF e = x THEN 1 ELSE 0)
  <2>1. Places(t, x) = IF e = x THEN A \cup {1} ELSE A
    BY <1>6
  <2> QED
    BY <1>7, <1>8, <2>1
<1>10. Cardinality(Places(t, x)) \in Nat
  BY <1>1, PlacesFinite
<1> QED
  BY <1>4, <1>5, <1>7, <1>9, <1>10 DEF t

LEMMA AppendPlaces ==
  ASSUME NEW s \in Seq(Entries), NEW e \in Entries, NEW x
  PROVE  Cardinality(Places(Append(s, e), x)) <=
           Cardinality(Places(s, x)) + (IF e = x THEN 1 ELSE 0)
<1> DEFINE t == Append(s, e)
           n == Len(s) + 1
<1>1. /\ Len(s) \in Nat /\ DOMAIN s = 1..Len(s)
      /\ t \in Seq(Entries) /\ DOMAIN t = 1..n
      /\ t[n] = e /\ \A i \in 1..Len(s) : t[i] = s[i]
  BY AppendProperties, LenProperties
<1>2. DOMAIN t = DOMAIN s \cup {n} /\ n \notin DOMAIN s
  BY <1>1
<1> HIDE DEF t, n
<1>3. Places(t, x) = Places(s, x) \cup (IF e = x THEN {n} ELSE {})
  BY <1>1, <1>2 DEF Places, PlacesIn
<1> DEFINE P == Places(s, x)
<1>4. IsFiniteSet(P) /\ Cardinality(P) \in Nat
  BY PlacesFinite
<1> HIDE DEF P
<1>5. Cardinality(P \cup {n}) <= Cardinality(P) + 1
  BY <1>4, OneMore
<1>6. Places(t, x) = IF e = x THEN P \cup {n} ELSE P
  BY <1>3 DEF P
<1>7. Cardinality(Places(t, x)) <= Cardinality(P) + (IF e = x THEN 1 ELSE 0)
  BY <1>4, <1>5, <1>6
<1> QED
  BY <1>7 DEF t, P

LEMMA Numbers ==
  ASSUME TypeOK, NEW e \in Entries
  PROVE  /\ Cardinality(Copies(e)) \in Nat
         /\ IsFiniteSet(Hands(e)) /\ Cardinality(Hands(e)) \in Nat
         /\ Cardinality(Hands(e)) <= Cardinality(Dispatches)
         /\ Cardinality(Dispatches) \in Nat /\ Cardinality(Dispatches) >= 1
<1>1. Copies(e) = Places(queue, e)
  BY DEF Copies, Places, PlacesIn
<1>2. Cardinality(Copies(e)) \in Nat
  BY <1>1, PlacesFinite DEF TypeOK
<1>3. Hands(e) \in SUBSET Dispatches
  BY DEF Hands
<1>4. IsFiniteSet(Hands(e)) /\ Cardinality(Hands(e)) <= Cardinality(Dispatches)
  BY <1>3, FS_Subset, DispatchesAssumption
<1>5. /\ Cardinality(Hands(e)) \in Nat /\ Cardinality(Dispatches) \in Nat
      /\ Cardinality(Dispatches) # 0
  BY <1>4, FS_CardinalityType, FS_EmptySet, DispatchesAssumption
<1> QED
  BY <1>2, <1>4, <1>5

\* Neither copies nor hands become more.
LEMMA FewerKeep ==
  ASSUME TypeOK, TypeOK', NEW e \in Entries,
         Cardinality(Copies(e)) + Cardinality(Hands(e)) <= Cardinality(Dispatches),
         Cardinality(Copies(e)') <= Cardinality(Copies(e)),
         Hands(e)' \subseteq Hands(e)
  PROVE  Cardinality(Copies(e)') + Cardinality(Hands(e)') <= Cardinality(Dispatches)
<1> DEFINE H == Hands(e)
           K == Hands(e)'
<1>1. IsFiniteSet(H) /\ K \in SUBSET H
  BY Numbers
<1> HIDE DEF H, K
<1>2. Cardinality(K) <= Cardinality(H) /\ IsFiniteSet(K)
  BY <1>1, FS_Subset
<1>3. Cardinality(K) \in Nat
  BY <1>2, FS_CardinalityType
<1>4. Cardinality(Copies(e)') \in Nat
  <2>1. queue' \in Seq(Entries)
    BY DEF TypeOK
  <2>2. Copies(e)' = Places(queue', e)
    BY DEF Copies, Places, PlacesIn
  <2> QED
    BY <2>1, <2>2, PlacesFinite
<1>5. /\ Cardinality(Copies(e)) \in Nat /\ Cardinality(H) \in Nat
      /\ Cardinality(Dispatches) \in Nat
  BY Numbers DEF H
<1>6. Cardinality(Copies(e)) + Cardinality(H) <= Cardinality(Dispatches)
  BY DEF H
<1>7. Cardinality(Copies(e)') + Cardinality(K) <= Cardinality(Dispatches)
  BY <1>2, <1>3, <1>4, <1>5, <1>6
<1> QED
  BY <1>7 DEF K

LEMMA LRemCopies ==
  ASSUME TypeOK, NEW x \in Entries, LRem(x), NEW e \in Entries
  PROVE  /\ Cardinality(Copies(e)') <= Cardinality(Copies(e))
         /\ x = e => \/ Cardinality(Copies(e)') <= Cardinality(Copies(e)) - 1
                     \/ Cardinality(Copies(e)') = 0
<1>1. queue \in Seq(Entries) /\ Cardinality(Copies(e)) \in Nat
  BY Numbers DEF TypeOK
<1>2. Copies(e) = Places(queue, e) /\ Copies(e)' = Places(queue', e)
  BY DEF Copies, Places, PlacesIn
<1>3. CASE ~Queued(x) /\ UNCHANGED queue
  <2>1. Cardinality(Copies(e)') = Cardinality(Copies(e))
    BY <1>2, <1>3
  <2>2. ASSUME x = e PROVE Cardinality(Copies(e)') = 0
    <3>1. Copies(e)' = {}
      BY <1>3, <2>2 DEF Copies, Queued
    <3> QED
      BY <3>1, FS_EmptySet
  <2> QED
    BY <1>1, <2>1, <2>2
<1>4. CASE \E i \in DOMAIN queue :
             /\ queue[i] = x
             /\ queue' = [j \in 1..(Len(queue) - 1) |->
                            IF j < i THEN queue[j] ELSE queue[j + 1]]
  <2>1. PICK i \in DOMAIN queue :
          /\ queue[i] = x
          /\ queue' = [j \in 1..(Len(queue) - 1) |->
                         IF j < i THEN queue[j] ELSE queue[j + 1]]
    BY <1>4
  <2>2. queue' = Cut(queue, i)
    BY <2>1 DEF Cut
  <2>3. Cut(queue, i) \in Seq(Entries)
    BY <1>1, <2>1, CutFacts
  <2>4. /\ Cardinality(Places(Cut(queue, i), e)) \in Nat
        /\ Cardinality(Places(Cut(queue, i), e)) <=
             Cardinality(Places(queue, e)) - (IF queue[i] = e THEN 1 ELSE 0)
    BY <1>1, <2>3, PlacesFinite, CutPlaces
  <2>5. Cardinality(Copies(e)') <= Cardinality(Copies(e)) - (IF x = e THEN 1 ELSE 0)
    BY <1>2, <2>1, <2>2, <2>4
  <2>6. Cardinality(Copies(e)') \in Nat
    BY <1>2, <2>2, <2>4
  <2> QED
    BY <1>1, <2>5, <2>6
<1> QED
  BY <1>3, <1>4 DEF LRem

LEMMA PushCopies ==
  ASSUME TypeOK, NEW x \in Entries, queue' \in {Append(queue, x), <<x>> \o queue},
         NEW e \in Entries
  PROVE  /\ Cardinality(Copies(e)') <= Cardinality(Copies(e)) + (IF x = e THEN 1 ELSE 0)
         /\ Cardinality(Copies(e)') \in Nat
<1>1. queue \in Seq(Entries)
  BY DEF TypeOK
<1>2. Copies(e) = Places(queue, e) /\ Copies(e)' = Places(queue', e)
  BY DEF Copies, Places, PlacesIn
<1>3. CASE queue' = Append(queue, x)
  <2>1. Append(queue, x) \in Seq(Entries)
    BY <1>1, AppendFacts
  <2>2. Cardinality(Places(Append(queue, x), e)) \in Nat
    BY <2>1, PlacesFinite
  <2> QED
    BY <1>1, <1>2, <1>3, <2>2, AppendPlaces
<1>4. CASE queue' = <<x>> \o queue
  <2>1. <<x>> \o queue \in Seq(Entries)
    BY <1>1, PrependFacts
  <2>2. Cardinality(Places(<<x>> \o queue, e)) \in Nat
    BY <2>1, PlacesFinite
  <2> QED
    BY <1>1, <1>2, <1>4, <2>2, PrependPlaces
<1> QED
  BY <1>3, <1>4

\* Copies of an entry never outnumber the requests.
THEOREM CopiesAreBounded == Spec => []CopiesBounded
<1>1. Init => CopiesBounded
  <2> SUFFICES ASSUME Init, NEW e \in Entries
               PROVE  Cardinality(Copies(e)) + Cardinality(Hands(e)) <= Cardinality(Dispatches)
    BY DEF CopiesBounded
  <2>1. TypeOK
    BY InitInv DEF IInv
  <2>2. Copies(e) = {}
    BY DEF Init, Copies
  <2>3. Cardinality(Copies(e)) = 0
    BY <2>2, FS_EmptySet
  <2> QED
    BY <2>1, <2>3, Numbers
<1>2. ASSUME IInv, CopiesBounded, [Next]_vars PROVE CopiesBounded'
  <2> SUFFICES ASSUME NEW e \in Entries
               PROVE  Cardinality(Copies(e)') + Cardinality(Hands(e)') <= Cardinality(Dispatches)
    BY DEF CopiesBounded
  <2>1. TypeOK /\ TypeOK'
    BY <1>2, StepKeeps DEF IInv
  <2>2. /\ Cardinality(Copies(e)) \in Nat
        /\ IsFiniteSet(Hands(e)) /\ Cardinality(Hands(e)) \in Nat
        /\ Cardinality(Dispatches) \in Nat /\ Cardinality(Dispatches) >= 1
        /\ Cardinality(Copies(e)) + Cardinality(Hands(e)) <= Cardinality(Dispatches)
    BY <1>2, <2>1, Numbers DEF CopiesBounded
  <2>3. ASSUME UNCHANGED queue PROVE Cardinality(Copies(e)') <= Cardinality(Copies(e))
    <3>1. Copies(e)' = Copies(e)
      BY <2>3 DEF Copies
    <3> QED
      BY <2>2, <3>1
  \* A step of d with hands as they were, or d's no longer.
  <2>4. ASSUME NEW d \in Dispatches, NEW q \in Rows, Become(d, q),
               (q.entry = e /\ q.pc # "remove") => Took(d, e)
        PROVE  Hands(e)' \subseteq Hands(e)
    <3> SUFFICES ASSUME NEW v \in Dispatches, Took(v, e)' PROVE Took(v, e)
      BY DEF Hands
    <3>1. CASE v = d
      BY <2>1, <2>4, <3>1, Slot DEF Took, Has
    <3>2. CASE v # d
      BY <2>1, <2>4, <3>2, Slot DEF Took, Has
    <3> QED
      BY <3>1, <3>2
  <2>5. ASSUME NEW x \in Entries, Hold(x)
        PROVE  Cardinality(Copies(e)') + Cardinality(Hands(e)') <= Cardinality(Dispatches)
    <3>1. Hands(e)' = Hands(e)
      BY <2>5 DEF Hold, Hands, Took, Has
    <3>2. /\ Cardinality(Copies(e)') <= Cardinality(Copies(e)) + (IF x = e THEN 1 ELSE 0)
          /\ Cardinality(Copies(e)') \in Nat
      BY <2>1, <2>5, PushCopies DEF Hold
    <3>3. CASE x # e
      BY <2>2, <3>1, <3>2, <3>3
    <3>4. CASE x = e
      <4>1. Hands(e) = {} /\ Copies(e) = {}
        BY <2>5, <3>4 DEF Hold, Hands, Took, Copies, Queued
      <4>2. Cardinality(Hands(e)) = 0 /\ Cardinality(Copies(e)) = 0
        BY <4>1, FS_EmptySet
      <4> QED
        BY <2>2, <3>1, <3>2, <3>4, <4>2
    <3> QED
      BY <3>3, <3>4
  <2>6. ASSUME NEW d \in Dispatches, NEW x \in Entries, NEW t \in Tenants, NEW role,
               Find(d, x, t, role)
        PROVE  Cardinality(Copies(e)') + Cardinality(Hands(e)') <= Cardinality(Dispatches)
    <3> DEFINE q == [pc |-> "remove", entry |-> x, tenant |-> t]
    <3>1. q \in Rows /\ Become(d, q) /\ UNCHANGED queue /\ q.pc = "remove"
      BY <2>6 DEF Find, Rows
    <3> HIDE DEF q
    <3>2. Hands(e)' \subseteq Hands(e)
      BY <2>4, <3>1
    <3> QED
      BY <2>1, <2>2, <2>3, <3>1, <3>2, FewerKeep
  <2>7. ASSUME NEW d \in Dispatches, Remove(d)
        PROVE  Cardinality(Copies(e)') + Cardinality(Hands(e)') <= Cardinality(Dispatches)
    <3> DEFINE q == [pc |-> "run", entry |-> dispatch[d].entry,
                     tenant |-> dispatch[d].tenant]
    <3>1. /\ dispatch[d].pc = "remove" /\ Become(d, q) /\ LRem(dispatch[d].entry)
          /\ dispatch[d].entry \in Entries /\ dispatch[d].tenant \in Tenants
      BY <1>2, <2>7, AtHand DEF Remove, Goto
    <3>2. q \in Rows /\ q.pc = "run" /\ q.entry = dispatch[d].entry
      BY <3>1 DEF Rows
    <3> HIDE DEF q
    <3>3. /\ Cardinality(Copies(e)') <= Cardinality(Copies(e))
          /\ dispatch[d].entry = e =>
               \/ Cardinality(Copies(e)') <= Cardinality(Copies(e)) - 1
               \/ Cardinality(Copies(e)') = 0
      BY <2>1, <3>1, LRemCopies
    <3>4. CASE dispatch[d].entry # e
      <4>1. Hands(e)' \subseteq Hands(e)
        BY <2>4, <3>1, <3>2, <3>4
      <4> QED
        BY <2>1, <2>2, <3>3, <4>1, FewerKeep
    <3>5. CASE dispatch[d].entry = e
      <4> DEFINE H == Hands(e)
                 K == Hands(e)'
      <4>1. K \in SUBSET (H \cup {d}) /\ K \in SUBSET Dispatches
        <5> SUFFICES ASSUME NEW v \in Dispatches, v # d, Took(v, e)' PROVE Took(v, e)
          BY DEF Hands
        <5> QED
          BY <2>1, <3>1, <3>2, Slot DEF Took, Has
      <4>2. Cardinality(Copies(e)') \in Nat
        <5>1. queue' \in Seq(Entries) /\ Copies(e)' = Places(queue', e)
          BY <2>1 DEF TypeOK, Copies, Places, PlacesIn
        <5> QED
          BY <5>1, PlacesFinite
      <4> HIDE DEF K, H
      <4>3. IsFiniteSet(H) /\ Cardinality(H) \in Nat
        BY <2>2 DEF H
      <4>4. Cardinality(H \cup {d}) <= Cardinality(H) + 1 /\ IsFiniteSet(H \cup {d})
        BY <4>3, OneMore, FS_AddElement
      <4>5. /\ Cardinality(K) <= Cardinality(H \cup {d}) /\ IsFiniteSet(K)
            /\ Cardinality(K) <= Cardinality(Dispatches)
        BY <4>1, <4>4, FS_Subset, DispatchesAssumption
      <4>6. Cardinality(K) \in Nat /\ Cardinality(H \cup {d}) \in Nat
        BY <4>4, <4>5, FS_CardinalityType
      <4>7. Cardinality(Copies(e)) + Cardinality(H) <= Cardinality(Dispatches)
        BY <2>2 DEF H
      <4>8. Cardinality(Copies(e)') + Cardinality(K) <= Cardinality(Dispatches)
        BY <2>2, <3>3, <3>5, <4>2, <4>3, <4>4, <4>5, <4>6, <4>7
      <4> QED
        BY <4>8 DEF K
    <3> QED
      BY <3>4, <3>5
  <2>8. ASSUME NEW d \in Dispatches, Execute(d) \/ ExecuteFails(d) \/ LogFails(d)
        PROVE  Cardinality(Copies(e)') + Cardinality(Hands(e)') <= Cardinality(Dispatches)
    <3>1. PICK c \in {"log", "push"} : Goto(d, c)
      BY <2>8 DEF Execute, ExecuteFails, LogFails
    <3> DEFINE q == [pc |-> c, entry |-> dispatch[d].entry,
                     tenant |-> dispatch[d].tenant]
    <3>2. /\ Become(d, q) /\ UNCHANGED queue /\ dispatch[d].pc # "remove"
          /\ dispatch[d].entry \in Entries /\ dispatch[d].tenant \in Tenants
      BY <1>2, <2>8, <3>1, AtHand DEF Execute, ExecuteFails, LogFails, Goto
    <3>3. q \in Rows /\ q.entry = dispatch[d].entry
      BY <3>2 DEF Rows
    <3> HIDE DEF q
    <3>4. q.entry = e => Took(d, e)
      BY <3>2, <3>3 DEF Took, Has
    <3>5. Hands(e)' \subseteq Hands(e)
      BY <2>4, <3>2, <3>3, <3>4
    <3> QED
      BY <2>1, <2>2, <2>3, <3>2, <3>5, FewerKeep
  <2>9. ASSUME NEW d \in Dispatches, PushBack(d)
        PROVE  Cardinality(Copies(e)') + Cardinality(Hands(e)') <= Cardinality(Dispatches)
    <3>1. /\ Become(d, Idle) /\ queue' = <<dispatch[d].entry>> \o queue
          /\ dispatch[d].entry \in Entries /\ dispatch[d].pc = "push"
      BY <1>2, <2>9, AtHand DEF PushBack
    <3>2. Idle \in Rows /\ Idle.entry = NoEntry /\ NoEntry # e
      BY EntriesAssumption DEF Idle, Rows
    <3>3. Hands(e)' \subseteq Hands(e)
      BY <2>4, <3>1, <3>2
    <3>4. /\ Cardinality(Copies(e)') <=
               Cardinality(Copies(e)) + (IF dispatch[d].entry = e THEN 1 ELSE 0)
          /\ Cardinality(Copies(e)') \in Nat
      BY <2>1, <3>1, PushCopies
    <3>5. CASE dispatch[d].entry # e
      BY <2>1, <2>2, <3>3, <3>4, <3>5, FewerKeep
    <3>6. CASE dispatch[d].entry = e
      <4> DEFINE H == Hands(e)
                 K == Hands(e)'
      <4>1. d \in H /\ d \notin K
        BY <2>1, <3>1, <3>2, <3>6, Slot DEF Hands, Took, Has
      <4>2. K \in SUBSET (H \ {d})
        BY <3>3, <4>1
      <4> HIDE DEF H, K
      <4>3. IsFiniteSet(H) /\ Cardinality(H) \in Nat
        BY <2>2 DEF H
      <4>4. Cardinality(H \ {d}) = Cardinality(H) - 1 /\ IsFiniteSet(H \ {d})
        BY <4>1, <4>3, OneMore, FS_RemoveElement
      <4>5. Cardinality(K) <= Cardinality(H \ {d}) /\ IsFiniteSet(K)
        BY <4>2, <4>4, FS_Subset
      <4>6. Cardinality(K) \in Nat
        BY <4>5, FS_CardinalityType
      <4>7. Cardinality(Copies(e)) + Cardinality(H) <= Cardinality(Dispatches)
        BY <2>2 DEF H
      <4>8. Cardinality(Copies(e)') + Cardinality(K) <= Cardinality(Dispatches)
        BY <2>2, <3>4, <3>6, <4>3, <4>4, <4>5, <4>6, <4>7
      <4> QED
        BY <4>8 DEF K
    <3> QED
      BY <3>5, <3>6
  <2>10. ASSUME NEW d \in Dispatches,
                LogManualDispatch(d) \/ PushFails(d) \/ RemoveFails(d) \/ Crash(d)
                \/ Restart(d)
         PROVE  Cardinality(Copies(e)') + Cardinality(Hands(e)') <= Cardinality(Dispatches)
    <3>1. PICK q \in {Idle, Killed} : Become(d, q)
      BY <2>10 DEF LogManualDispatch, PushFails, RemoveFails, Crash, Restart
    <3>2. q \in Rows /\ q.entry # e
      BY EntriesAssumption DEF Idle, Killed, Rows
    <3>3. Hands(e)' \subseteq Hands(e)
      BY <2>4, <3>1, <3>2
    <3>4. Cardinality(Copies(e)') <= Cardinality(Copies(e))
      <4>1. CASE UNCHANGED queue
        BY <2>3, <4>1
      <4>2. CASE RemoveFails(d) /\ LRem(dispatch[d].entry)
        BY <1>2, <2>1, <4>2, AtHand, LRemCopies DEF RemoveFails
      <4> QED
        BY <2>10, <4>1, <4>2
           DEF LogManualDispatch, PushFails, RemoveFails, Crash, Restart
    <3> QED
      BY <2>1, <2>2, <3>3, <3>4, FewerKeep
  <2>11. CASE UNCHANGED vars
    <3>1. UNCHANGED queue /\ Hands(e)' = Hands(e)
      BY <2>11 DEF vars, Hands, Took, Has
    <3> QED
      BY <2>1, <2>2, <2>3, <3>1, FewerKeep
  <2> QED
    BY <1>2, <2>5, <2>6, <2>7, <2>8, <2>9, <2>10, <2>11 DEF Next, Step
<1> QED
  BY <1>1, <1>2, Invariant, PTL DEF Spec

-----------------------------------------------------------------------------
(* The refinement: the list and the requests implement a set of entries.    *)

\* An entry that one request has found, and no other, is still in the queue.
FoundStays ==
  \A e \in Entries \ excused, d \in Dispatches :
    Has(d, e) /\ dispatch[d].pc = "remove" => In(queue, e)

\* The step of d leaves the other entries in the queue, or has no entry at all.
LEMMA FoundKept ==
  ASSUME IInv, FoundStays, NEW d \in Dispatches, NEW q \in Rows, Become(d, q),
         q.pc # "remove", excused \subseteq excused',
         \A x \in Entries : In(queue, x) /\ x # dispatch[d].entry => In(queue', x)
  PROVE  FoundStays'
<1> SUFFICES ASSUME NEW e \in Entries, e \notin excused', NEW v \in Dispatches,
                    Has(v, e)', dispatch'[v].pc = "remove"
             PROVE  In(queue', e)
  BY DEF FoundStays
<1>1. v # d /\ Has(v, e) /\ dispatch[v].pc = "remove" /\ e \notin excused
  BY Slot DEF IInv, Has
<1>2. In(queue, e) /\ ~Has(d, e)
  BY <1>1 DEF FoundStays, IInv, OnePlace
<1> QED
  BY <1>2 DEF Has

LEMMA FoundStep == IInv /\ FoundStays /\ [Next]_vars => FoundStays'
<1> SUFFICES ASSUME IInv, FoundStays, [Next]_vars PROVE FoundStays'
  OBVIOUS
<1>1. queue \in Seq(Entries)
  BY DEF IInv, TypeOK
<1>2. ASSUME NEW e \in Entries, Hold(e) PROVE FoundStays'
  <2>1. \A x \in Entries : In(queue, x) => In(queue', x)
    <3>1. CASE queue' = Append(queue, e)
      BY <1>1, <3>1, AppendFacts
    <3>2. CASE queue' = <<e>> \o queue
      BY <1>1, <3>2, PrependFacts
    <3> QED
      BY <1>2, <3>1, <3>2 DEF Hold
  <2>2. dispatch' = dispatch /\ excused' = excused
    BY <1>2 DEF Hold
  <2> QED
    BY <2>1, <2>2 DEF FoundStays, Has
<1>3. ASSUME NEW d \in Dispatches, NEW e \in Entries, NEW t \in Tenants, NEW role,
             Find(d, e, t, role)
      PROVE  FoundStays'
  <2> DEFINE q == [pc |-> "remove", entry |-> e, tenant |-> t]
  <2>1. q \in Rows /\ q.entry = e
    BY DEF Rows
  <2>2. Become(d, q) /\ queue' = queue /\ excused \subseteq excused'
    BY <1>3 DEF Find
  <2>3. In(queue, e)
    BY <1>3 DEF Find, First, In
  <2> HIDE DEF q
  <2>4. \A v \in Dispatches : dispatch'[v] = dispatch[v] \/ dispatch'[v] = q
    BY <2>1, <2>2, Slot DEF IInv
  <2> QED
    BY <2>1, <2>2, <2>3, <2>4 DEF FoundStays, Has
<1>4. ASSUME NEW d \in Dispatches, Remove(d) \/ RemoveFails(d) PROVE FoundStays'
  <2> DEFINE e == dispatch[d].entry
  <2>1. /\ e \in Entries /\ dispatch[d].tenant \in Tenants
        /\ LRem(e) \/ UNCHANGED queue
        /\ excused' = excused
    BY <1>4, AtHand DEF Remove, RemoveFails
  <2>2. \A x \in Entries : In(queue, x) /\ x # e => In(queue', x)
    BY <2>1, LRemFacts DEF IInv
  <2>3. PICK q \in Rows : Become(d, q) /\ q.pc # "remove"
    <3>1. CASE Remove(d)
      <4>1. [pc |-> "run", entry |-> e, tenant |-> dispatch[d].tenant] \in Rows
        BY <2>1 DEF Rows
      <4> QED
        BY <3>1, <4>1 DEF Remove, Goto
    <3>2. CASE RemoveFails(d)
      <4>1. Idle \in Rows /\ Idle.pc # "remove"
        BY DEF Idle, Rows
      <4> QED
        BY <3>2, <4>1 DEF RemoveFails
    <3> QED
      BY <1>4, <3>1, <3>2
  <2> HIDE DEF e
  <2>4. \A x \in Entries : In(queue, x) /\ x # dispatch[d].entry => In(queue', x)
    BY <2>2 DEF e
  <2> QED
    BY <2>1, <2>3, <2>4, FoundKept
<1>5. ASSUME NEW d \in Dispatches,
             \/ Execute(d) \/ ExecuteFails(d) \/ LogManualDispatch(d) \/ LogFails(d)
             \/ PushBack(d) \/ PushFails(d) \/ Crash(d) \/ Restart(d)
      PROVE  FoundStays'
  <2>1. excused \subseteq excused'
    BY <1>5 DEF Execute, ExecuteFails, LogManualDispatch, LogFails, PushBack, PushFails,
                Crash, Restart
  <2>2. \A x \in Entries : In(queue, x) => In(queue', x)
    <3>1. CASE PushBack(d)
      BY <1>1, <3>1, AtHand, PrependFacts DEF PushBack
    <3>2. CASE queue' = queue
      BY <3>2
    <3> QED
      BY <1>5, <3>1, <3>2 DEF Execute, ExecuteFails, LogManualDispatch, LogFails,
                              PushFails, Crash, Restart
  <2>3. PICK q \in Rows : Become(d, q) /\ q.pc # "remove"
    <3>1. CASE Execute(d) \/ ExecuteFails(d) \/ LogFails(d)
      <4>1. PICK c \in {"log", "push"} : Goto(d, c)
        BY <3>1 DEF Execute, ExecuteFails, LogFails
      <4>2. dispatch[d].entry \in Entries /\ dispatch[d].tenant \in Tenants
        BY <3>1, AtHand DEF Execute, ExecuteFails, LogFails
      <4> DEFINE q == [pc |-> c, entry |-> dispatch[d].entry,
                       tenant |-> dispatch[d].tenant]
      <4>3. q \in Rows /\ q.pc # "remove" /\ Become(d, q)
        BY <4>1, <4>2 DEF Rows, Goto
      <4> QED
        BY <4>3
    <3>2. CASE \E q \in {Idle, Killed} : Become(d, q)
      <4>1. \A q \in {Idle, Killed} : q \in Rows /\ q.pc # "remove"
        BY DEF Idle, Killed, Rows
      <4> QED
        BY <3>2, <4>1
    <3> QED
      BY <1>5, <3>1, <3>2 DEF LogManualDispatch, PushBack, PushFails, Crash, Restart
  <2> QED
    BY <2>1, <2>2, <2>3, FoundKept
<1>6. CASE UNCHANGED vars
  BY <1>6 DEF vars, FoundStays, Has
<1> QED
  BY <1>2, <1>3, <1>4, <1>5, <1>6 DEF Next, Step

LEMMA FoundInvariant == Spec => [](IInv /\ FoundStays)
<1>1. Init => IInv /\ FoundStays
  BY InitInv DEF Init, FoundStays, Idle
<1>2. IInv /\ FoundStays /\ [Next]_vars => (IInv /\ FoundStays)'
  BY StepKeeps, FoundStep
<1> QED
  BY <1>1, <1>2, PTL DEF Spec

Kept(e) == In(queue, e) \/ \E d \in Dispatches : Took(d, e)

LEMMA HeldKept ==
  /\ Held = {e \in Entries : Kept(e)}
  /\ Held' = {e \in Entries : Kept(e)'}
BY DEF Held, Kept, Queued, In

\* A step that moves one entry only: the others are held as they were.
LEMMA OneMoves ==
  ASSUME IInv, NEW d \in Dispatches, NEW q \in Rows, Become(d, q), NEW e \in Entries,
         dispatch[d].entry \in {e, NoEntry}, q.entry \in {e, NoEntry},
         \A x \in Entries \ {e} : In(queue', x) <=> In(queue, x)
  PROVE  /\ Kept(e)' => Held' = Held \cup {e}
         /\ ~Kept(e)' => Held' = Held \ {e}
         /\ q.entry = e /\ q.pc # "remove" => Kept(e)'
         /\ (q.entry # e \/ q.pc = "remove") /\ (In(queue', e) => In(queue, e)) =>
              (Kept(e)' => Kept(e))
<1>1. /\ dispatch'[d] = q
      /\ \A v \in Dispatches \ {d} : dispatch'[v] = dispatch[v]
  BY Slot DEF IInv
<1>2. \A x \in Entries \ {e} : \A v \in Dispatches : Took(v, x)' <=> Took(v, x)
  <2> SUFFICES ASSUME NEW x \in Entries \ {e}, NEW v \in Dispatches
               PROVE  Took(v, x)' <=> Took(v, x)
    OBVIOUS
  <2>1. CASE v = d
    BY <1>1, <2>1, EntriesAssumption DEF Took, Has
  <2>2. CASE v # d
    BY <1>1, <2>2 DEF Took, Has
  <2> QED
    BY <2>1, <2>2
<1>3. \A x \in Entries \ {e} : Kept(x)' <=> Kept(x)
  BY <1>2 DEF Kept
<1>4. q.entry = e /\ q.pc # "remove" => Kept(e)'
  BY <1>1 DEF Kept, Took, Has
<1>5. ASSUME q.entry # e \/ q.pc = "remove", In(queue', e) => In(queue, e), Kept(e)'
      PROVE  Kept(e)
  <2>1. CASE In(queue', e)
    BY <1>5, <2>1 DEF Kept
  <2>2. CASE \E v \in Dispatches : Took(v, e)'
    <3>1. PICK v \in Dispatches : Took(v, e)'
      BY <2>2
    <3>2. v # d /\ Took(v, e)
      BY <1>1, <1>5, <3>1 DEF Took, Has
    <3> QED
      BY <3>2 DEF Kept
  <2> QED
    BY <1>5, <2>1, <2>2 DEF Kept
<1> QED
  BY <1>3, <1>4, <1>5, HeldKept

LEMMA HoldHolds ==
  ASSUME IInv, NEW e \in Entries, Hold(e)
  PROVE  W!Hold(e)
<1>1. queue \in Seq(Entries) /\ dispatch' = dispatch
  BY DEF IInv, TypeOK, Hold
<1>2. \A x \in Entries : In(queue', x) <=> x = e \/ In(queue, x)
  <2>1. CASE queue' = Append(queue, e)
    BY <1>1, <2>1, AppendFacts
  <2>2. CASE queue' = <<e>> \o queue
    BY <1>1, <2>2, PrependFacts
  <2> QED
    BY <2>1, <2>2 DEF Hold
<1>3. \A x \in Entries : Kept(x)' <=> x = e \/ Kept(x)
  BY <1>1, <1>2 DEF Kept, Took, Has
<1>4. ~Kept(e)
  BY DEF Hold, Kept, Queued, In, Took
<1>5. Held' = Held \cup {e} /\ e \notin Held
  BY <1>3, <1>4, HeldKept
<1> QED
  BY <1>5 DEF W!Hold, Hold

LEMMA FindShares ==
  ASSUME IInv, NEW d \in Dispatches, NEW e \in Entries, NEW t \in Tenants, NEW role,
         Find(d, e, t, role)
  PROVE  W!Share(e) \/ UNCHANGED <<Held, runs, log, excused>>
<1> DEFINE q == [pc |-> "remove", entry |-> e, tenant |-> t]
<1>1. q \in Rows /\ q.entry = e
  BY DEF Rows
<1>2. /\ Become(d, q) /\ UNCHANGED <<queue, runs, log>>
      /\ dispatch[d].pc = "idle"
      /\ excused' = excused \cup {e} \/ excused' = excused
  BY DEF Find
<1>3. dispatch[d].entry = NoEntry
  BY <1>2 DEF IInv, HandsTold
<1>4. Kept(e) /\ Kept(e)'
  BY <1>2 DEF Find, First, Kept, In
<1> HIDE DEF q
<1>5. Held' = Held \cup {e}
  BY <1>1, <1>2, <1>3, <1>4, OneMoves
<1>6. e \in Held /\ Held' = Held
  BY <1>4, <1>5, HeldKept
<1> QED
  BY <1>2, <1>6 DEF W!Share

\* A request that shares the entry may take it when it is gone.
LEMMA RemoveReturns ==
  ASSUME IInv, FoundStays, NEW d \in Dispatches, Remove(d)
  PROVE  \/ W!Return(dispatch[d].entry)
         \/ UNCHANGED <<Held, runs, log, excused>>
<1>0. PICK e \in Entries : e = dispatch[d].entry
  BY AtHand DEF Remove
<1> DEFINE q == [pc |-> "run", entry |-> e, tenant |-> dispatch[d].tenant]
<1>1. /\ dispatch[d].pc = "remove" /\ Become(d, q) /\ LRem(e)
      /\ UNCHANGED <<runs, log, excused>>
  BY <1>0 DEF Remove, Goto
<1>2. Has(d, e) /\ dispatch[d].tenant \in Tenants
  BY <1>0, <1>1, AtHand
<1>3. q \in Rows /\ q.entry = e /\ q.pc = "run"
  BY <1>2 DEF Rows
<1> HIDE DEF q
<1>4. \A x \in Entries \ {e} : In(queue', x) <=> In(queue, x)
  BY <1>1, LRemFacts DEF IInv
<1>5. Held' = Held \cup {e}
  BY <1>0, <1>1, <1>3, <1>4, OneMoves
<1>6. e \notin excused => e \in Held
  BY <1>1, <1>2, HeldKept DEF FoundStays, Kept
<1>7. CASE e \in Held
  BY <1>1, <1>5, <1>7
<1>8. CASE e \notin Held
  BY <1>0, <1>1, <1>5, <1>6, <1>8 DEF W!Return
<1> QED
  BY <1>7, <1>8

\* The DDL is run by a request that has the entry: for the first time, or shared.
LEMMA ExecuteRuns ==
  ASSUME IInv, NEW d \in Dispatches, Execute(d) \/ ExecuteFails(d)
  PROVE  \/ W!Run(dispatch[d].entry)
         \/ UNCHANGED <<Held, runs, log, excused>>
<1>0. PICK e \in Entries : e = dispatch[d].entry
  BY AtHand DEF Execute, ExecuteFails
<1>1. PICK c \in {"log", "push"} : Goto(d, c)
  BY DEF Execute, ExecuteFails
<1> DEFINE q == [pc |-> c, entry |-> e, tenant |-> dispatch[d].tenant]
<1>2. /\ dispatch[d].pc = "run" /\ Become(d, q) /\ UNCHANGED <<queue, log, excused>>
      /\ Ran(e) \/ UNCHANGED runs
  BY <1>0, <1>1 DEF Execute, ExecuteFails, Goto
<1>3. Has(d, e) /\ dispatch[d].tenant \in Tenants
  BY <1>0, <1>2, AtHand
<1>4. q \in Rows /\ q.entry = e /\ q.pc # "remove"
  BY <1>3 DEF Rows
<1> HIDE DEF q
<1>5. Kept(e)
  BY <1>2, <1>3 DEF Kept, Took
<1>6. Held' = Held /\ e \in Held
  BY <1>0, <1>2, <1>4, <1>5, HeldKept, OneMoves
<1>7. runs[e] = 0 \/ e \in excused
  BY <1>2, <1>3 DEF IInv, OnePlace
<1>8. CASE Ran(e)
  BY <1>0, <1>2, <1>6, <1>7, <1>8 DEF W!Run, Ran
<1>9. CASE UNCHANGED runs
  BY <1>2, <1>6, <1>9
<1> QED
  BY <1>2, <1>8, <1>9

\* The row is written, or was, whether the request is told or not.
LEMMA LogRecords ==
  ASSUME IInv, NEW d \in Dispatches, LogManualDispatch(d) \/ LogFails(d)
  PROVE  \/ W!Record(dispatch[d].entry)
         \/ UNCHANGED <<Held, runs, log, excused>>
<1>0. PICK e \in Entries : e = dispatch[d].entry
  BY AtHand DEF LogManualDispatch, LogFails
<1>1. dispatch[d].pc = "log" /\ UNCHANGED <<queue, runs, excused>>
  BY DEF LogManualDispatch, LogFails
<1>2. /\ Has(d, e) /\ ExecOf[e] \in Ids /\ runs[e] > 0
      /\ dispatch[d].tenant = Owner(e) /\ dispatch[d].tenant \in Tenants
  BY <1>0, <1>1, AtHand
<1>3. e \in Held
  BY <1>1, <1>2, HeldKept DEF Kept, Took
<1>4. Logged(d) => log' = [log EXCEPT ![ExecOf[e]] =
                             IF log[ExecOf[e]] = NoTenant
                             THEN [x \in Entries |-> Owner(x)][e] ELSE log[ExecOf[e]]]
  BY <1>0, <1>2 DEF Logged
<1>5. CASE LogManualDispatch(d)
  <2>1. Idle \in Rows /\ Idle.entry = NoEntry
    BY DEF Idle, Rows
  <2>2. Become(d, Idle) /\ Logged(d)
    BY <1>5 DEF LogManualDispatch
  <2>3. Held' \in {Held \cup {e}, Held \ {e}}
    BY <1>0, <1>1, <2>1, <2>2, OneMoves
  <2>4. Held' \in {Held, Held \ {e}}
    BY <1>3, <2>3
  <2> QED
    BY <1>0, <1>1, <1>2, <1>3, <1>4, <2>2, <2>4 DEF W!Record
<1>6. CASE LogFails(d)
  <2> DEFINE q == [pc |-> "push", entry |-> e, tenant |-> dispatch[d].tenant]
  <2>1. q \in Rows /\ q.entry = e /\ q.pc # "remove"
    BY <1>2 DEF Rows
  <2>2. Become(d, q) /\ (Logged(d) \/ UNCHANGED log)
    BY <1>0, <1>6 DEF LogFails, Goto
  <2> HIDE DEF q
  <2>3. Held' = Held
    BY <1>0, <1>1, <1>3, <2>1, <2>2, OneMoves
  <2>4. CASE Logged(d)
    BY <1>0, <1>1, <1>2, <1>3, <1>4, <2>3, <2>4 DEF W!Record
  <2>5. CASE UNCHANGED log
    BY <1>1, <2>3, <2>5
  <2> QED
    BY <2>2, <2>4, <2>5
<1> QED
  BY <1>5, <1>6

\* An entry put back after its DDL took effect is shared with its own past.
LEMMA PushShares ==
  ASSUME IInv, NEW d \in Dispatches, PushBack(d)
  PROVE  \/ W!Share(dispatch[d].entry)
         \/ UNCHANGED <<Held, runs, log, excused>>
<1>0. PICK e \in Entries : e = dispatch[d].entry
  BY AtHand DEF PushBack
<1>1. /\ dispatch[d].pc = "push" /\ queue' = <<e>> \o queue /\ Become(d, Idle)
      /\ excused' = excused \cup {e} \/ excused' = excused
      /\ UNCHANGED <<runs, log>>
  BY <1>0 DEF PushBack
<1>2. Idle \in Rows /\ Idle.entry = NoEntry
  BY DEF Idle, Rows
<1>3. \A x : In(queue', x) <=> x = e \/ In(queue, x)
  BY <1>1, PrependFacts DEF IInv, TypeOK
<1>4. Has(d, e)
  BY <1>0, <1>1, AtHand
<1>5. Kept(e) /\ Kept(e)'
  BY <1>1, <1>3, <1>4 DEF Kept, Took
<1>6. Held' = Held \cup {e}
  BY <1>0, <1>1, <1>2, <1>3, <1>5, OneMoves
<1>7. e \in Held /\ Held' = Held
  BY <1>5, <1>6, HeldKept
<1> QED
  BY <1>0, <1>1, <1>7 DEF W!Share

\* A request that ends without an answer of the tables may lose its entry.
LEMMA EndLoses ==
  ASSUME IInv, NEW d \in Dispatches, RemoveFails(d) \/ PushFails(d) \/ Crash(d)
  PROVE  \/ W!Lose(dispatch[d].entry)
         \/ UNCHANGED <<Held, runs, log, excused>>
<1>0. PICK e \in Entries : e = dispatch[d].entry
  BY AtHand DEF RemoveFails, PushFails, Crash
<1>1. UNCHANGED <<runs, log, excused>>
  BY DEF RemoveFails, PushFails, Crash
<1>2. PICK q \in {Idle, Killed} : Become(d, q)
  BY DEF RemoveFails, PushFails, Crash
<1>3. q \in Rows /\ q.entry = NoEntry
  BY DEF Idle, Killed, Rows
<1>4. /\ \A x \in Entries \ {e} : In(queue', x) <=> In(queue, x)
      /\ In(queue', e) => In(queue, e)
  <2>1. CASE UNCHANGED queue
    BY <2>1
  <2>2. CASE LRem(e)
    BY <2>2, LRemFacts DEF IInv
  <2> QED
    BY <1>0, <2>1, <2>2 DEF RemoveFails, PushFails, Crash
<1>5. /\ Kept(e)' => Held' = Held \cup {e}
      /\ ~Kept(e)' => Held' = Held \ {e}
      /\ Kept(e)' => Kept(e)
  BY <1>0, <1>2, <1>3, <1>4, OneMoves, EntriesAssumption
<1>6. Held' = Held \/ Held' = Held \ {e}
  BY <1>5, HeldKept
<1> QED
  BY <1>0, <1>1, <1>6 DEF W!Lose

LEMMA RestartIsSilent ==
  ASSUME IInv, NEW d \in Dispatches, Restart(d)
  PROVE  UNCHANGED <<Held, runs, log, excused>>
<1>1. UNCHANGED <<queue, runs, log, excused>>
  BY DEF Restart
<1>2. \A x \in Entries, v \in Dispatches : Took(v, x)' <=> Took(v, x)
  BY EntriesAssumption DEF Restart, Become, IInv, TypeOK, HandsTold, Idle, Took, Has
<1>3. \A x \in Entries : Kept(x)' <=> Kept(x)
  BY <1>1, <1>2 DEF Kept
<1> QED
  BY <1>1, <1>3, HeldKept

LEMMA StepHolds ==
  ASSUME IInv, FoundStays, [Next]_vars
  PROVE  [W!Next]_<<Held, runs, log, excused>>
<1>1. ASSUME NEW d \in Dispatches,
             \/ Remove(d) \/ RemoveFails(d) \/ Execute(d) \/ ExecuteFails(d)
             \/ LogManualDispatch(d) \/ LogFails(d) \/ PushBack(d) \/ PushFails(d)
             \/ Crash(d)
      PROVE  [W!Next]_<<Held, runs, log, excused>>
  <2>1. dispatch[d].entry \in Entries
    BY <1>1, AtHand DEF Remove, RemoveFails, Execute, ExecuteFails, LogManualDispatch,
                        LogFails, PushBack, PushFails, Crash
  <2> QED
    BY <1>1, <2>1, RemoveReturns, ExecuteRuns, LogRecords, PushShares, EndLoses
       DEF W!Next
<1>2. CASE UNCHANGED vars
  <2>1. Held' = Held
    BY <1>2, HeldKept DEF vars, Kept, Took, Has
  <2> QED
    BY <1>2, <2>1 DEF vars
<1> QED
  BY <1>1, <1>2, HoldHolds, FindShares, RestartIsSilent DEF Next, Step, W!Next

\* The Redis list, with requests that read it and change it later, implements a
\* set of held entries of which each runs once unless it is shared, and gets its
\* row after a run and for its owner, whatever fails or is killed.
THEOREM QueueImplementsHeldWork == Spec => ImplementsHeldWork
<1>1. Init => W!Init
  <2>1. Init => ~(\E e \in Entries : Kept(e))
    BY EntriesAssumption DEF Init, Kept, In, Took, Has, Idle
  <2> QED
    BY <2>1, HeldKept DEF Init, W!Init
<1>2. IInv /\ FoundStays /\ [Next]_vars => [W!Next]_<<Held, runs, log, excused>>
  BY StepHolds
<1> QED
  BY <1>1, <1>2, FoundInvariant, PTL DEF Spec, ImplementsHeldWork, W!Spec, W!vars
=============================================================================
