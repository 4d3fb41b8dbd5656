--------------------------- MODULE MigrationsProofs ---------------------------
(***************************************************************************)
(* Theorems of Migrations, for every set of workers, of files and of       *)
(* directories, and every number of attempts.                              *)
(***************************************************************************)
EXTENDS Migrations, SequenceTheorems, FiniteSetTheorems, WellFoundedInduction,
        TLAPS

InLoop == {"next", "execute", "register"}

\* Who is past the lock holds it, and before the loop nothing is done.
Exclusive ==
  \A w \in Workers :
    /\ worker[w].pc \in Locked => lock = w
    /\ worker[w].pc \notin InLoop => worker[w].ran = <<>> /\ worker[w].listed = {}

\* What the transaction of a worker has done is an ascending list of files of its
\* directory that were missing.
RanMissing(w) ==
  /\ worker[w].todo \subseteq MigrationsOf[w]
  /\ \A i \in DOMAIN worker[w].ran :
       /\ worker[w].ran[i] \in MigrationsOf[w]
       /\ VersionOf[worker[w].ran[i]] \notin registered
       /\ \A j \in DOMAIN worker[w].ran :
            j < i => VersionOf[worker[w].ran[j]] < VersionOf[worker[w].ran[i]]
  /\ Applied(worker[w].ran) =
       IF worker[w].pc = "register"
       THEN worker[w].listed \cup {VersionOf[worker[w].file]} ELSE worker[w].listed

\* What is left is above what is done, and the file in hand between the two.
LeftIsAbove(w) ==
  /\ \A g \in worker[w].todo : \A v \in worker[w].listed : v <= VersionOf[g]
  /\ worker[w].pc \in {"execute", "register"} =>
       /\ worker[w].file \in MigrationsOf[w]
       /\ VersionOf[worker[w].file] \notin registered
       /\ \A v \in worker[w].listed : v < VersionOf[worker[w].file]
       /\ \A g \in worker[w].todo : VersionOf[worker[w].file] <= VersionOf[g]

\* Every file of the directory is done, in hand or left.
NoneForgotten(w) ==
  \A f \in MigrationsOf[w] :
    \/ f \in worker[w].todo
    \/ VersionOf[f] \in registered \cup worker[w].listed
    \/ /\ worker[w].pc \in {"execute", "register"}
       /\ VersionOf[f] = VersionOf[worker[w].file]

LoopInv ==
  \A w \in Workers : worker[w].pc \in InLoop =>
    RanMissing(w) /\ LeftIsAbove(w) /\ NoneForgotten(w)

\* The inductive invariant.
IInv ==
  /\ TypeOK
  /\ Exclusive
  /\ LoopInv
  /\ RegisteredWasApplied
  /\ ServesMigrated

-----------------------------------------------------------------------------
(* Lists of files.                                                          *)

LEMMA AppliedEmpty == Applied(<<>>) = {}
BY DEF Applied

LEMMA AppliedAppend ==
  ASSUME NEW s \in Seq(Files), NEW f \in Files
  PROVE  Applied(Append(s, f)) = Applied(s) \cup {VersionOf[f]}
<1>1. /\ Append(s, f) \in Seq(Files) /\ Len(Append(s, f)) = Len(s) + 1
      /\ Append(s, f)[Len(s) + 1] = f
      /\ \A i \in 1 .. Len(s) : Append(s, f)[i] = s[i]
  BY AppendProperties
<1>2. DOMAIN Append(s, f) = 1 .. Len(s) + 1 /\ DOMAIN s = 1 .. Len(s) /\ Len(s) \in Nat
  BY <1>1, LenProperties
<1>3. DOMAIN Append(s, f) = DOMAIN s \cup {Len(s) + 1}
  BY <1>2
<1> QED
  BY <1>1, <1>2, <1>3 DEF Applied

LEMMA AppliedConcat ==
  ASSUME NEW s \in Seq(Files), NEW t \in Seq(Files)
  PROVE  Applied(s \o t) = Applied(s) \cup Applied(t)
<1>1. /\ s \o t \in Seq(Files) /\ Len(s \o t) = Len(s) + Len(t)
      /\ \A i \in 1 .. Len(s) : (s \o t)[i] = s[i]
      /\ \A i \in 1 .. Len(t) : (s \o t)[Len(s) + i] = t[i]
  BY ConcatProperties, LenProperties
<1>2. /\ DOMAIN (s \o t) = 1 .. Len(s) + Len(t)
      /\ DOMAIN s = 1 .. Len(s) /\ DOMAIN t = 1 .. Len(t)
      /\ Len(s) \in Nat /\ Len(t) \in Nat
  BY <1>1, LenProperties
<1>3. ASSUME NEW i \in DOMAIN (s \o t)
      PROVE  VersionOf[(s \o t)[i]] \in Applied(s) \cup Applied(t)
  <2>1. CASE i <= Len(s)
    BY <1>1, <1>2, <2>1 DEF Applied
  <2>2. CASE i > Len(s)
    <3>1. i - Len(s) \in 1 .. Len(t) /\ i = Len(s) + (i - Len(s))
      BY <1>2, <2>2
    <3> QED
      BY <1>1, <1>2, <3>1 DEF Applied
  <2> QED
    BY <1>2, <2>1, <2>2
<1>4. ASSUME NEW i \in DOMAIN s PROVE VersionOf[s[i]] \in Applied(s \o t)
  BY <1>1, <1>2 DEF Applied
<1>5. ASSUME NEW i \in DOMAIN t PROVE VersionOf[t[i]] \in Applied(s \o t)
  <2>1. Len(s) + i \in DOMAIN (s \o t) /\ (s \o t)[Len(s) + i] = t[i]
    BY <1>1, <1>2
  <2> QED
    BY <2>1 DEF Applied
<1>6. Applied(s \o t) \subseteq Applied(s) \cup Applied(t)
  <2> SUFFICES ASSUME NEW v \in Applied(s \o t) PROVE v \in Applied(s) \cup Applied(t)
    OBVIOUS
  <2>1. PICK i \in DOMAIN (s \o t) : v = VersionOf[(s \o t)[i]]
    BY DEF Applied
  <2> QED
    BY <1>3, <2>1
<1>7. Applied(s) \subseteq Applied(s \o t) /\ Applied(t) \subseteq Applied(s \o t)
  <2>1. ASSUME NEW v \in Applied(s) PROVE v \in Applied(s \o t)
    <3>1. PICK i \in DOMAIN s : v = VersionOf[s[i]]
      BY DEF Applied
    <3> QED
      BY <1>4, <3>1
  <2>2. ASSUME NEW v \in Applied(t) PROVE v \in Applied(s \o t)
    <3>1. PICK i \in DOMAIN t : v = VersionOf[t[i]]
      BY DEF Applied
    <3> QED
      BY <1>5, <3>1
  <2> QED
    BY <2>1, <2>2
<1> QED
  BY <1>6, <1>7

LEMMA InitInv == Init => IInv
<1> SUFFICES ASSUME Init PROVE IInv
  OBVIOUS
<1>1. At("down", 0) \in WorkerRows
  BY PingsAssumption, EmptySeq DEF At, WorkerRows
<1>2. TypeOK
  BY <1>1, EmptySeq DEF Init, TypeOK
<1>3. Exclusive /\ LoopInv
  BY DEF Init, Exclusive, LoopInv, InLoop, Locked, At
<1>4. RegisteredWasApplied /\ ServesMigrated
  BY AppliedEmpty DEF Init, RegisteredWasApplied, ServesMigrated, At
<1> QED
  BY <1>2, <1>3, <1>4 DEF IInv

-----------------------------------------------------------------------------
(* Every step keeps the invariant.                                          *)

\* What the step of a worker does to its slot and to the other ones.
LEMMA Slot ==
  ASSUME TypeOK, NEW w \in Workers, NEW q \in WorkerRows, Become(w, q)
  PROVE  /\ worker' \in [Workers -> WorkerRows]
         /\ worker'[w] = q
         /\ \A v \in Workers \ {w} : worker'[v] = worker[v]
BY DEF TypeOK, Become

\* The rows of workers outside the loop.
LEMMA AtRow ==
  ASSUME NEW pc \in {"down", "running"} \cup Starting \cup Locked,
         NEW n \in 0 .. MaxPings
  PROVE  /\ At(pc, n) \in WorkerRows
         /\ At(pc, n).pc = pc /\ At(pc, n).ran = <<>> /\ At(pc, n).listed = {}
BY EmptySeq DEF At, WorkerRows

\* A worker that does not move, in a step that commits nothing.
LEMMA Unmoved ==
  ASSUME NEW v \in Workers, worker'[v] = worker[v], registered' = registered,
         RanMissing(v), LeftIsAbove(v), NoneForgotten(v)
  PROVE  RanMissing(v)' /\ LeftIsAbove(v)' /\ NoneForgotten(v)'
<1>1. RanMissing(v)'
  BY DEF RanMissing, Applied
<1>2. LeftIsAbove(v)'
  BY DEF LeftIsAbove
<1>3. NoneForgotten(v)'
  BY DEF NoneForgotten
<1> QED
  BY <1>1, <1>2, <1>3

\* A step that changes nothing committed and puts its worker outside the loop.
LEMMA OutsideKeeps ==
  ASSUME IInv, NEW w \in Workers,
         NEW pc \in {"down"} \cup Starting \cup {"table", "files"},
         NEW n \in 0 .. MaxPings, Become(w, At(pc, n)),
         UNCHANGED <<schema, registered>>,
         lock' \in Workers \cup {NoWorker, Gone},
         pc \in Locked => lock' = w,
         \A v \in Workers \ {w} : lock = v => lock' = v
  PROVE  IInv'
<1> DEFINE q == At(pc, n)
<1>1. q \in WorkerRows /\ q.pc = pc /\ q.ran = <<>> /\ q.listed = {}
  BY AtRow DEF Locked
<1>2. Become(w, q)
  OBVIOUS
<1>3. q.pc \notin InLoop /\ q.pc # "running"
  BY <1>1 DEF InLoop, Starting
<1> HIDE DEF q
<1>4. TypeOK'
  BY <1>1, <1>2, Slot DEF IInv, TypeOK
<1>5. Exclusive'
  BY <1>1, <1>2, <1>3, Slot DEF IInv, Exclusive
<1>6. LoopInv'
  <2> SUFFICES ASSUME NEW v \in Workers, worker'[v].pc \in InLoop
               PROVE  RanMissing(v)' /\ LeftIsAbove(v)' /\ NoneForgotten(v)'
    BY DEF LoopInv
  <2>1. worker'[v] = worker[v]
    BY <1>1, <1>2, <1>3, Slot DEF IInv
  <2> QED
    BY <2>1, Unmoved DEF IInv, LoopInv
<1>7. RegisteredWasApplied' /\ ServesMigrated'
  BY <1>1, <1>2, <1>3, Slot DEF IInv, RegisteredWasApplied, ServesMigrated
<1> QED
  BY <1>4, <1>5, <1>6, <1>7 DEF IInv

\* A step in the loop that changes nothing but its worker.
LEMMA LoopKeeps ==
  ASSUME IInv, NEW w \in Workers, NEW q \in WorkerRows, Become(w, q),
         worker[w].pc \in Locked, q.pc \in InLoop,
         UNCHANGED <<schema, registered, lock>>,
         RanMissing(w)' /\ LeftIsAbove(w)' /\ NoneForgotten(w)'
  PROVE  IInv'
<1>1. q.pc \in Locked
  BY DEF InLoop, Locked
<1>2. TypeOK'
  BY Slot DEF IInv, TypeOK
<1>3. Exclusive'
  BY <1>1, Slot DEF IInv, Exclusive
<1>4. LoopInv'
  <2> SUFFICES ASSUME NEW v \in Workers \ {w}, worker'[v].pc \in InLoop
               PROVE  RanMissing(v)' /\ LeftIsAbove(v)' /\ NoneForgotten(v)'
    BY DEF LoopInv
  <2>1. worker'[v] = worker[v]
    BY Slot DEF IInv
  <2> QED
    BY <2>1, Unmoved DEF IInv, LoopInv
<1>5. RegisteredWasApplied' /\ ServesMigrated'
  BY Slot DEF IInv, RegisteredWasApplied, ServesMigrated, InLoop
<1> QED
  BY <1>2, <1>3, <1>4, <1>5 DEF IInv

\* What is known of a worker in the loop.
LEMMA InTheLoop ==
  ASSUME IInv, NEW w \in Workers, worker[w].pc \in InLoop
  PROVE  /\ RanMissing(w) /\ LeftIsAbove(w) /\ NoneForgotten(w)
         /\ worker[w] \in WorkerRows
         /\ worker[w].pc \in Locked /\ lock = w
         /\ \A f \in Files : VersionOf[f] \in Int
BY FilesAssumption DEF IInv, TypeOK, Exclusive, LoopInv, InLoop, Locked

LEMMA ReadDirKeeps == ASSUME IInv, NEW w \in Workers, ReadDir(w) PROVE IInv'
<1> DEFINE q == Doing("next", MigrationsOf[w], NoFile, <<>>, {})
<1>1. /\ q \in WorkerRows /\ q.pc = "next" /\ q.todo = MigrationsOf[w]
      /\ q.ran = <<>> /\ q.listed = {} /\ MigrationsOf[w] \subseteq Files
  BY PingsAssumption, FilesAssumption, EmptySeq DEF Doing, WorkerRows, Locked
<1>2. Become(w, q) /\ UNCHANGED <<schema, registered, lock>> /\ worker[w].pc = "files"
  BY DEF ReadDir
<1> HIDE DEF q
<1>3. worker'[w] = q
  BY <1>1, <1>2, Slot DEF IInv
<1>4. RanMissing(w)'
  <2>1. DOMAIN <<>> = {}
    OBVIOUS
  <2>2. Applied(q.ran) = {}
    BY <1>1, AppliedEmpty
  <2> QED
    BY <1>1, <1>3, <2>1, <2>2 DEF RanMissing
<1>5. LeftIsAbove(w)' /\ NoneForgotten(w)'
  BY <1>1, <1>3 DEF LeftIsAbove, NoneForgotten
<1> QED
  BY <1>1, <1>2, <1>4, <1>5, LoopKeeps DEF InLoop, Locked

LEMMA SkipKeeps ==
  ASSUME IInv, NEW w \in Workers, NEW f \in Files, Skip(w, f)
  PROVE  IInv'
<1> DEFINE q == Doing("next", worker[w].todo \ {f}, NoFile, worker[w].ran,
                    worker[w].listed)
<1>1. /\ worker[w].pc = "next" /\ Become(w, q) /\ UNCHANGED <<schema, registered, lock>>
      /\ VersionOf[f] \in registered \cup worker[w].listed
  BY DEF Skip, Exists
<1>2. worker[w].pc \in InLoop
  BY <1>1 DEF InLoop
<1>3. /\ q \in WorkerRows /\ q.pc = "next" /\ q.todo = worker[w].todo \ {f}
      /\ q.ran = worker[w].ran /\ q.listed = worker[w].listed
  BY <1>2, InTheLoop, PingsAssumption DEF Doing, WorkerRows, Locked
<1> HIDE DEF q
<1>4. worker'[w] = q
  BY <1>1, <1>3, Slot DEF IInv
<1>5. RanMissing(w)'
  BY <1>1, <1>2, <1>3, <1>4, InTheLoop DEF RanMissing
<1>6. LeftIsAbove(w)' /\ NoneForgotten(w)'
  BY <1>1, <1>2, <1>3, <1>4, InTheLoop DEF LeftIsAbove, NoneForgotten
<1> QED
  BY <1>1, <1>2, <1>3, <1>5, <1>6, InTheLoop, LoopKeeps

LEMMA FindKeeps ==
  ASSUME IInv, NEW w \in Workers, NEW f \in Files, Find(w, f)
  PROVE  IInv'
<1> DEFINE q == Doing("execute", worker[w].todo \ {f}, f, worker[w].ran,
                    worker[w].listed)
<1>1. /\ worker[w].pc = "next" /\ Become(w, q) /\ UNCHANGED <<schema, registered, lock>>
      /\ VersionOf[f] \notin registered /\ VersionOf[f] \notin worker[w].listed
      /\ f \in worker[w].todo
      /\ \A g \in worker[w].todo : VersionOf[f] <= VersionOf[g]
  BY DEF Find, Exists, Visits
<1>2. worker[w].pc \in InLoop
  BY <1>1 DEF InLoop
<1>3. /\ q \in WorkerRows /\ q.pc = "execute" /\ q.todo = worker[w].todo \ {f}
      /\ q.ran = worker[w].ran /\ q.listed = worker[w].listed /\ q.file = f
  BY <1>2, InTheLoop, PingsAssumption DEF Doing, WorkerRows, Locked
<1> HIDE DEF q
<1>4. worker'[w] = q
  BY <1>1, <1>3, Slot DEF IInv
<1>5. RanMissing(w)'
  BY <1>1, <1>2, <1>3, <1>4, InTheLoop DEF RanMissing
<1>6. \A v \in worker[w].listed : v \in Int /\ v < VersionOf[f]
  <2>1. worker[w].listed \subseteq Versions
    BY <1>2, InTheLoop DEF WorkerRows
  <2>2. \A v \in worker[w].listed : v \in Int /\ v # VersionOf[f] /\ v <= VersionOf[f]
    BY <1>1, <1>2, <2>1, InTheLoop DEF LeftIsAbove, Versions
  <2> QED
    BY <2>2, InTheLoop, <1>2
<1>7. f \in MigrationsOf[w]
  BY <1>1, <1>2, InTheLoop DEF RanMissing
<1>8. LeftIsAbove(w)'
  BY <1>1, <1>2, <1>3, <1>4, <1>6, <1>7, InTheLoop DEF LeftIsAbove
<1>9. NoneForgotten(w)'
  BY <1>1, <1>2, <1>3, <1>4, InTheLoop DEF NoneForgotten
<1>10. q.pc \in InLoop
  BY <1>3 DEF InLoop
<1> QED
  BY <1>1, <1>2, <1>3, <1>5, <1>8, <1>9, <1>10, InTheLoop, LoopKeeps

LEMMA ExecuteKeeps == ASSUME IInv, NEW w \in Workers, Execute(w) PROVE IInv'
<1> DEFINE s == worker[w].ran
           f == worker[w].file
           q == Doing("register", worker[w].todo, f, Append(s, f), worker[w].listed)
<1>1. worker[w].pc = "execute" /\ Become(w, q) /\ UNCHANGED <<schema, registered, lock>>
  BY DEF Execute
<1>2. worker[w].pc \in InLoop
  BY <1>1 DEF InLoop
<1>3. /\ s \in Seq(Files) /\ f \in MigrationsOf[w] /\ f \in Files
      /\ VersionOf[f] \notin registered
      /\ \A v \in worker[w].listed : v < VersionOf[f]
      /\ \A g \in worker[w].todo : VersionOf[f] <= VersionOf[g]
      /\ Applied(s) = worker[w].listed
  BY <1>1, <1>2, InTheLoop, FilesAssumption
     DEF WorkerRows, LeftIsAbove, RanMissing
<1>4. Append(s, f) \in Seq(Files)
  BY <1>3, AppendProperties
<1>5. /\ q \in WorkerRows /\ q.pc = "register" /\ q.todo = worker[w].todo
      /\ q.ran = Append(s, f) /\ q.listed = worker[w].listed /\ q.file = f
  BY <1>2, <1>4, InTheLoop, PingsAssumption DEF Doing, WorkerRows, Locked
<1> HIDE DEF q
<1>6. worker'[w] = q
  BY <1>1, <1>5, Slot DEF IInv
<1>7. RanMissing(w)'
  <2>1. Applied(Append(s, f)) = worker[w].listed \cup {VersionOf[f]}
    BY <1>3, AppliedAppend
  <2>2. /\ Len(s) \in Nat /\ DOMAIN s = 1 .. Len(s)
        /\ DOMAIN Append(s, f) = 1 .. Len(s) + 1
        /\ Append(s, f)[Len(s) + 1] = f
        /\ \A i \in 1 .. Len(s) : Append(s, f)[i] = s[i]
    BY <1>3, <1>4, AppendProperties, LenProperties
  <2>3. \A j \in DOMAIN s : VersionOf[s[j]] < VersionOf[f]
    BY <1>3 DEF Applied
  <2>4. ASSUME NEW i \in DOMAIN Append(s, f)
        PROVE  /\ Append(s, f)[i] \in MigrationsOf[w]
               /\ VersionOf[Append(s, f)[i]] \notin registered
               /\ \A j \in DOMAIN Append(s, f) : j < i =>
                    VersionOf[Append(s, f)[j]] < VersionOf[Append(s, f)[i]]
    <3>1. CASE i = Len(s) + 1
      BY <1>3, <2>2, <2>3, <3>1
    <3>2. CASE i \in 1 .. Len(s)
      <4>1. /\ s[i] \in MigrationsOf[w] /\ VersionOf[s[i]] \notin registered
            /\ \A j \in DOMAIN s : j < i => VersionOf[s[j]] < VersionOf[s[i]]
        BY <1>2, <2>2, <3>2, InTheLoop DEF RanMissing
      <4> QED
        BY <2>2, <3>2, <4>1
    <3> QED
      BY <2>2, <3>1, <3>2
  <2>5. worker[w].todo \subseteq MigrationsOf[w]
    BY <1>2, InTheLoop DEF RanMissing
  <2> QED
    BY <1>1, <1>5, <1>6, <2>1, <2>4, <2>5 DEF RanMissing
<1>8. LeftIsAbove(w)'
  BY <1>1, <1>2, <1>3, <1>5, <1>6, InTheLoop DEF LeftIsAbove
<1>9. NoneForgotten(w)'
  BY <1>1, <1>2, <1>5, <1>6, InTheLoop DEF NoneForgotten
<1>10. q.pc \in InLoop
  BY <1>5 DEF InLoop
<1> QED
  BY <1>1, <1>2, <1>5, <1>7, <1>8, <1>9, <1>10, InTheLoop, LoopKeeps

LEMMA RegisterKeeps == ASSUME IInv, NEW w \in Workers, Register(w) PROVE IInv'
<1> DEFINE f == worker[w].file
           q == Doing("next", worker[w].todo, NoFile, worker[w].ran,
                      worker[w].listed \cup {VersionOf[f]})
<1>1. worker[w].pc = "register" /\ Become(w, q) /\ UNCHANGED <<schema, registered, lock>>
  BY DEF Register
<1>2. worker[w].pc \in InLoop
  BY <1>1 DEF InLoop
<1>3. /\ f \in MigrationsOf[w] /\ f \in Files /\ VersionOf[f] \in Versions
      /\ \A g \in worker[w].todo : VersionOf[f] <= VersionOf[g]
  BY <1>1, <1>2, InTheLoop, FilesAssumption DEF LeftIsAbove, Versions
<1>4. /\ q \in WorkerRows /\ q.pc = "next" /\ q.todo = worker[w].todo
      /\ q.ran = worker[w].ran /\ q.listed = worker[w].listed \cup {VersionOf[f]}
  BY <1>2, <1>3, InTheLoop, PingsAssumption DEF Doing, WorkerRows, Locked
<1> HIDE DEF q
<1>5. worker'[w] = q
  BY <1>1, <1>4, Slot DEF IInv
<1>6. RanMissing(w)'
  BY <1>1, <1>2, <1>4, <1>5, InTheLoop DEF RanMissing
<1>7. LeftIsAbove(w)'
  BY <1>1, <1>2, <1>3, <1>4, <1>5, InTheLoop DEF LeftIsAbove
<1>8. NoneForgotten(w)'
  BY <1>1, <1>2, <1>4, <1>5, InTheLoop DEF NoneForgotten
<1>9. q.pc \in InLoop
  BY <1>4 DEF InLoop
<1> QED
  BY <1>1, <1>2, <1>4, <1>6, <1>7, <1>8, <1>9, InTheLoop, LoopKeeps

\* COMMIT, answered or not.
LEMMA CommitKeeps ==
  ASSUME IInv, NEW w \in Workers, CommitTx(w),
         NEW pc \in {"running", "down"}, Become(w, At(pc, 0))
  PROVE  IInv'
<1> DEFINE q == At(pc, 0)
<1>1. /\ q \in WorkerRows /\ q.pc = pc /\ q.ran = <<>> /\ q.listed = {}
      /\ q.pc \notin Locked /\ q.pc \notin InLoop /\ Become(w, q)
  BY AtRow, PingsAssumption DEF Locked, InLoop
<1>2. /\ worker[w].pc = "next" /\ worker[w].todo = {}
      /\ schema' = schema \o worker[w].ran
      /\ registered' = registered \cup worker[w].listed /\ lock' = NoWorker
  BY DEF CommitTx
<1> HIDE DEF q
<1>3. worker[w].pc \in InLoop
  BY <1>2 DEF InLoop
<1>4. worker'[w] = q /\ \A v \in Workers \ {w} : worker'[v] = worker[v]
  BY <1>1, Slot DEF IInv
<1>5. /\ worker[w].ran \in Seq(Files) /\ schema \in Seq(Files)
      /\ worker[w].listed \subseteq Versions
  BY <1>3, InTheLoop DEF WorkerRows, IInv, TypeOK
<1>6. TypeOK'
  <2>1. schema' \in Seq(Files)
    BY <1>2, <1>5, ConcatProperties
  <2> QED
    BY <1>1, <1>2, <1>5, <2>1, Slot DEF IInv, TypeOK
<1>7. \A v \in Workers \ {w} : worker[v].pc \notin Locked
  BY <1>3, InTheLoop DEF IInv, Exclusive
<1>8. Exclusive'
  BY <1>1, <1>4, <1>7 DEF IInv, Exclusive
<1>9. LoopInv'
  BY <1>1, <1>4, <1>7 DEF LoopInv, InLoop, Locked
<1>10. RegisteredWasApplied'
  <2>1. Applied(worker[w].ran) = worker[w].listed
    BY <1>2, <1>3, InTheLoop DEF RanMissing
  <2>2. Applied(schema') = Applied(schema) \cup Applied(worker[w].ran)
    BY <1>2, <1>5, AppliedConcat
  <2> QED
    BY <1>2, <2>1, <2>2 DEF IInv, RegisteredWasApplied
<1>11. ServesMigrated'
  <2>1. \A f \in MigrationsOf[w] : VersionOf[f] \in registered'
    BY <1>2, <1>3, InTheLoop DEF NoneForgotten
  <2> QED
    BY <1>2, <1>4, <2>1 DEF IInv, ServesMigrated
<1> QED
  BY <1>6, <1>8, <1>9, <1>10, <1>11 DEF IInv

LEMMA StepKeeps == IInv /\ [Next]_vars => IInv'
<1> SUFFICES ASSUME IInv, [Next]_vars PROVE IInv'
  OBVIOUS
<1>1. /\ lock \in Workers \cup {NoWorker, Gone} /\ worker \in [Workers -> WorkerRows]
      /\ 0 \in 0 .. MaxPings
  BY PingsAssumption DEF IInv, TypeOK
<1>2. ASSUME NEW w \in Workers, Start(w) \/ Ping(w) \/ BeginTx(w) \/ WaitTimesOut(w)
      PROVE  IInv'
  BY <1>1, <1>2, OutsideKeeps DEF Start, Ping, BeginTx, WaitTimesOut, Starting, Locked
<1>3. ASSUME NEW w \in Workers, PingFails(w) PROVE IInv'
  <2>1. worker[w].pings \in 0 .. MaxPings
    BY <1>1 DEF WorkerRows
  <2>2. CASE worker[w].pings + 1 < MaxPings
    <3>1. worker[w].pings + 1 \in 0 .. MaxPings
      BY <2>1, <2>2, PingsAssumption
    <3>2. Become(w, At("ping", worker[w].pings + 1))
      BY <1>3, <2>2 DEF PingFails
    <3> QED
      BY <1>1, <1>3, <3>1, <3>2, OutsideKeeps DEF PingFails, Starting, Locked
  <2>3. CASE ~(worker[w].pings + 1 < MaxPings)
    BY <1>1, <1>3, <2>3, OutsideKeeps DEF PingFails, Locked
  <2> QED
    BY <2>2, <2>3
<1>4. ASSUME NEW w \in Workers, AcquireLock(w) PROVE IInv'
  BY <1>1, <1>4, SessionsAssumption, OutsideKeeps DEF AcquireLock, Locked
<1>5. ASSUME NEW w \in Workers, CreateTable(w) PROVE IInv'
  <2>1. lock = w
    BY <1>5 DEF CreateTable, IInv, Exclusive, Locked
  <2> QED
    BY <1>1, <1>5, <2>1, OutsideKeeps DEF CreateTable, Locked
<1>6. ASSUME NEW w \in Workers, Fails(w) \/ Crash(w) PROVE IInv'
  <2>1. lock' \in Workers \cup {NoWorker, Gone}
        /\ \A v \in Workers \ {w} : lock = v => lock' = v
    BY <1>1, <1>6 DEF Fails, Crash
  <2> QED
    BY <1>1, <1>6, <2>1, OutsideKeeps DEF Fails, Crash, Locked
<1>7. ASSUME NEW w \in Workers, Commit(w) \/ CommitUnanswered(w) PROVE IInv'
  BY <1>7, CommitKeeps DEF Commit, CommitUnanswered
<1>8. CASE EndSession
  <2>1. \A w \in Workers : worker[w].pc \notin Locked
    BY <1>8, SessionsAssumption DEF EndSession, IInv, Exclusive
  <2>2. TypeOK' /\ Exclusive'
    BY <1>8, <2>1 DEF EndSession, IInv, TypeOK, Exclusive
  <2>3. LoopInv'
    BY <1>8, <2>1 DEF EndSession, LoopInv, InLoop, Locked
  <2>4. RegisteredWasApplied' /\ ServesMigrated'
    BY <1>8 DEF EndSession, IInv, RegisteredWasApplied, ServesMigrated
  <2> QED
    BY <2>2, <2>3, <2>4 DEF IInv
<1>9. CASE UNCHANGED vars
  <2>1. TypeOK' /\ Exclusive'
    BY <1>9 DEF vars, IInv, TypeOK, Exclusive
  <2>2. LoopInv'
    BY <1>9, Unmoved DEF vars, IInv, LoopInv
  <2>3. RegisteredWasApplied' /\ ServesMigrated'
    BY <1>9 DEF vars, IInv, RegisteredWasApplied, ServesMigrated
  <2> QED
    BY <2>1, <2>2, <2>3 DEF IInv
<1> QED
  BY <1>2, <1>3, <1>4, <1>5, <1>6, <1>7, <1>8, <1>9, ReadDirKeeps, SkipKeeps,
     FindKeeps, ExecuteKeeps, RegisterKeeps
     DEF Next, Step, Migrate, Disturb

LEMMA Invariant == Spec => []IInv
BY InitInv, StepKeeps, PTL DEF Spec

-----------------------------------------------------------------------------
(* The theorems.                                                            *)

\* Tables, lock and workers have their types.
THEOREM TypeCorrect == Spec => []TypeOK
<1>1. IInv => TypeOK
  BY DEF IInv
<1> QED
  BY <1>1, Invariant, PTL

\* Workers that start together never meet in schema_migrations.
THEOREM StartsDoNotConflict == Spec => []NoConflict
<1>1. IInv => NoConflict
  <2> SUFFICES ASSUME IInv, NEW w \in Workers, worker[w].pc = "register"
               PROVE  /\ ~Exists(w, worker[w].file)
                      /\ \A v \in Workers \ {w} : worker[v].ran = <<>>
    BY DEF NoConflict
  <2>1. LeftIsAbove(w) /\ lock = w /\ worker[w] \in WorkerRows
    BY InTheLoop DEF InLoop
  <2>2. /\ VersionOf[worker[w].file] \notin registered
        /\ \A v \in worker[w].listed : v < VersionOf[worker[w].file]
        /\ worker[w].file \in Files
    BY <2>1, FilesAssumption DEF LeftIsAbove
  <2>3. VersionOf[worker[w].file] \notin worker[w].listed
    BY <2>2, FilesAssumption
  <2>4. \A v \in Workers \ {w} : worker[v].pc \notin Locked
    BY <2>1 DEF IInv, Exclusive
  <2>5. \A v \in Workers \ {w} : worker[v].ran = <<>>
    BY <2>4 DEF IInv, Exclusive, InLoop, Locked
  <2> QED
    BY <2>2, <2>3, <2>5 DEF Exists
<1> QED
  BY <1>1, Invariant, PTL

\* Rows of schema_migrations and the schema agree, whatever failed and crashed.
THEOREM RowsTellTheSchema == Spec => []RegisteredWasApplied
<1>1. IInv => RegisteredWasApplied
  BY DEF IInv
<1> QED
  BY <1>1, Invariant, PTL

\* No worker reads events before its migrations are in the schema.
THEOREM WorkersServeMigrated == Spec => []ServesMigrated
<1>1. IInv => ServesMigrated
  BY DEF IInv
<1> QED
  BY <1>1, Invariant, PTL

-----------------------------------------------------------------------------
(* Starts come nearer to their end, and nobody waits for nothing.           *)

\* A lock that a worker holds is one that a worker uses.
LEMMA LockUsedKept == IInv /\ LockUsed /\ [Next]_vars => LockUsed'
<1> SUFFICES ASSUME IInv, LockUsed, [Next]_vars, NEW w \in Workers, lock' = w
             PROVE  worker'[w].pc \in Locked
  BY DEF LockUsed
<1>1. w # NoWorker /\ w # Gone
  BY SessionsAssumption
<1>2. worker \in [Workers -> WorkerRows]
  BY DEF IInv, TypeOK
<1>3. ASSUME NEW v \in Workers, AcquireLock(v) PROVE worker'[w].pc \in Locked
  <2>1. v = w /\ worker'[w] = At("table", 0)
    BY <1>2, <1>3 DEF AcquireLock, Become
  <2> QED
    BY <2>1 DEF At, Locked
<1>4. ASSUME NEW v \in Workers, Start(v) \/ Ping(v) \/ PingFails(v) \/ BeginTx(v)
                                \/ WaitTimesOut(v)
      PROVE  worker'[w].pc \in Locked
  <2>1. lock' = lock /\ worker[v].pc \notin Locked
    BY <1>4 DEF Start, Ping, PingFails, BeginTx, WaitTimesOut, Locked
  <2>2. v # w
    BY <2>1 DEF LockUsed
  <2>3. worker'[w] = worker[w]
    BY <1>2, <1>4, <2>2 DEF Start, Ping, PingFails, BeginTx, WaitTimesOut, Become
  <2> QED
    BY <2>1, <2>3 DEF LockUsed
<1>5. ASSUME NEW v \in Workers,
             \/ CreateTable(v) \/ ReadDir(v) \/ Execute(v) \/ Register(v)
             \/ \E f \in Files : Skip(v, f) \/ Find(v, f)
      PROVE  worker'[w].pc \in Locked
  <2>1. PICK pc \in Locked : worker'[v].pc = pc
    BY <1>2, <1>5 DEF CreateTable, ReadDir, Execute, Register, Skip, Find, Become, At,
                      Doing, Locked
  <2>2. lock' = lock /\ \A u \in Workers \ {v} : worker'[u] = worker[u]
    BY <1>2, <1>5 DEF CreateTable, ReadDir, Execute, Register, Skip, Find, Become
  <2> QED
    BY <2>1, <2>2 DEF LockUsed
<1>6. ASSUME NEW v \in Workers, Commit(v) \/ CommitUnanswered(v) \/ Fails(v) \/ Crash(v)
      PROVE  worker'[w].pc \in Locked
  <2>1. lock = w /\ v # w
    BY <1>1, <1>6 DEF Commit, CommitUnanswered, CommitTx, Fails, Crash
  <2>2. worker'[w] = worker[w]
    BY <1>2, <1>6, <2>1 DEF Commit, CommitUnanswered, Fails, Crash, Become
  <2> QED
    BY <2>1, <2>2 DEF LockUsed
<1>7. CASE EndSession \/ UNCHANGED vars
  BY <1>1, <1>7 DEF EndSession, vars, LockUsed
<1> QED
  BY <1>3, <1>4, <1>5, <1>6, <1>7 DEF Next, Step, Migrate, Disturb

\* Nothing but a migration in progress, or the session of a dead client, holds
\* the lock: no exit, failure or lost answer leaves it behind.
THEOREM LocksAreUsed == Spec => []LockUsed
<1>1. Init => LockUsed
  BY SessionsAssumption DEF Init, LockUsed
<1> QED
  BY <1>1, LockUsedKept, Invariant, PTL DEF Spec

\* Of some files one has the lowest version.
LEMMA LowestFile ==
  ASSUME NEW S \in SUBSET Files, S # {}
  PROVE  \E f \in S : \A g \in S : VersionOf[f] <= VersionOf[g]
<1> DEFINE Below(f) == {g \in S : VersionOf[g] < VersionOf[f]}
           T == {Below(f) : f \in S}
<1>1. \A f \in Files : VersionOf[f] \in Int
  BY FilesAssumption
<1>2. \A f \in S : Below(f) \in FiniteSubsetsOf(Files)
  BY FS_Subset, FilesAssumption DEF FiniteSubsetsOf
<1>3. IsWellFoundedOn(StrictSubsetOrdering(Files), FiniteSubsetsOf(Files))
  BY FS_StrictSubsetOrderingWellFounded
<1>4. T \subseteq FiniteSubsetsOf(Files) /\ T # {}
  <2> HIDE DEF Below
  <2> QED
    BY <1>2
<1>5. PICK least \in T : \A x \in T : <<x, least>> \notin StrictSubsetOrdering(Files)
  <2> HIDE DEF T
  <2> QED
    BY <1>3, <1>4, WFMin
<1>6. PICK f \in S : least = Below(f)
  BY <1>5
<1>7. ASSUME NEW g \in S, ~(VersionOf[f] <= VersionOf[g]) PROVE FALSE
  <2>1. VersionOf[g] < VersionOf[f]
    BY <1>1, <1>7
  <2>2. Below(g) \subseteq Below(f) /\ g \in Below(f) /\ g \notin Below(g)
    BY <1>1, <2>1
  <2>3. <<Below(g), Below(f)>> \in StrictSubsetOrdering(Files)
    BY <2>2 DEF StrictSubsetOrdering
  <2> QED
    BY <1>5, <1>6, <2>3
<1> QED
  BY <1>6, <1>7

\* Nobody waits for nothing: no start can hang at a file that is never chosen, at
\* a version that another transaction holds, or for a lock that nobody uses.
THEOREM NobodyIsStuck == Spec => []NoneStuck
<1>1. IInv /\ NoConflict /\ LockUsed => NoneStuck
  <2> SUFFICES ASSUME IInv, NoConflict, LockUsed,
                      NEW w \in Workers, worker[w].pc \in Starting \cup Locked
               PROVE  \/ GoesOn(w)
                      \/ /\ worker[w].pc = "lock"
                         /\ lock = Gone \/ \E v \in Workers : lock = v /\ GoesOn(v)
    BY DEF NoneStuck
  <2>1. ASSUME NEW v \in Workers, worker[v].pc \in Locked PROVE GoesOn(v)
    <3>1. CASE worker[v].pc = "next"
      <4>1. worker[v].todo \subseteq Files
        BY DEF IInv, TypeOK, WorkerRows
      <4>2. worker[v].todo = {} \/ \E f \in Files : Visits(v, f)
        BY <4>1, LowestFile DEF Visits
      <4> QED
        BY <3>1, <4>2 DEF GoesOn
    <3>2. CASE worker[v].pc = "register"
      BY <3>2 DEF GoesOn, NoConflict
    <3> QED
      BY <2>1, <3>1, <3>2 DEF Locked, GoesOn
  <2>2. CASE worker[w].pc \in {"ping", "begin"}
    BY <2>2 DEF GoesOn
  <2>3. CASE worker[w].pc = "lock"
    <3>1. lock \in Workers \cup {NoWorker, Gone}
      BY DEF IInv, TypeOK
    <3>2. CASE lock \in Workers
      BY <2>1, <2>3, <3>2 DEF LockUsed
    <3> QED
      BY <2>3, <3>1, <3>2 DEF GoesOn
  <2> QED
    BY <2>1, <2>2, <2>3 DEF Starting
<1> QED
  BY <1>1, Invariant, StartsDoNotConflict, LocksAreUsed, PTL

\* The files of a directory, and those left of it, can be counted.
LEMMA FilesCount ==
  ASSUME TypeOK, NEW w \in Workers
  PROVE  /\ IsFiniteSet(worker[w].todo)
         /\ Cardinality(worker[w].todo) \in Nat
         /\ Cardinality(MigrationsOf[w]) \in Nat
         /\ worker[w].pings \in Nat /\ worker[w].pings <= MaxPings
         /\ MaxPings \in Nat
<1>1. worker[w] \in WorkerRows
  BY DEF TypeOK
<1>2. worker[w].todo \in SUBSET Files /\ worker[w].pings \in 0 .. MaxPings
  BY <1>1 DEF WorkerRows
<1>3. MigrationsOf[w] \in SUBSET Files
  BY FilesAssumption
<1>4. IsFiniteSet(worker[w].todo) /\ IsFiniteSet(MigrationsOf[w])
  BY <1>2, <1>3, FS_Subset, FilesAssumption
<1> QED
  BY <1>2, <1>4, FS_CardinalityType, PingsAssumption

\* A start that is not over has a statement left.
LEMMA SomeLeft ==
  ASSUME TypeOK, NEW w \in Workers, worker[w].pc \in Starting \cup Locked
  PROVE  StatementsLeft(w) \in Nat /\ StatementsLeft(w) > 0
BY FilesCount DEF StatementsLeft, Starting, Locked

\* The end of a start, of whatever kind, leaves nothing.
LEMMA EndsNearer ==
  ASSUME TypeOK, NEW w \in Workers, worker[w].pc \in Starting \cup Locked,
         worker'[w].pc \in {"down", "running"}
  PROVE  StatementsLeft(w)' < StatementsLeft(w)
<1>1. StatementsLeft(w)' = 0
  BY DEF StatementsLeft
<1> QED
  BY <1>1, SomeLeft

\* A statement of the loop over the files.
LEMMA LoopNearer ==
  ASSUME IInv, NEW w \in Workers,
         \/ ReadDir(w) \/ Execute(w) \/ Register(w)
         \/ \E f \in Files : Skip(w, f) \/ Find(w, f)
  PROVE  StatementsLeft(w)' < StatementsLeft(w)
<1>1. TypeOK /\ worker \in [Workers -> WorkerRows]
  BY DEF IInv, TypeOK
<1>2. CASE ReadDir(w)
  <2>1. worker[w].pc = "files" /\ worker'[w].pc = "next" /\ worker'[w].todo = MigrationsOf[w]
    BY <1>1, <1>2 DEF ReadDir, Become, Doing
  <2> QED
    BY <1>1, <2>1, FilesCount DEF StatementsLeft
<1>3. CASE Execute(w) \/ Register(w)
  <2>1. /\ worker'[w].todo = worker[w].todo
        /\ \/ worker[w].pc = "execute" /\ worker'[w].pc = "register"
           \/ worker[w].pc = "register" /\ worker'[w].pc = "next"
    BY <1>1, <1>3 DEF Execute, Register, Become, Doing
  <2> QED
    BY <1>1, <2>1, FilesCount DEF StatementsLeft
<1>4. ASSUME NEW f \in Files, Skip(w, f) \/ Find(w, f)
      PROVE  StatementsLeft(w)' < StatementsLeft(w)
  <2>1. /\ worker[w].pc = "next" /\ f \in worker[w].todo
        /\ worker'[w].todo = worker[w].todo \ {f}
        /\ worker'[w].pc \in {"next", "execute"}
    BY <1>1, <1>4 DEF Skip, Find, Visits, Become, Doing
  <2>2. Cardinality(worker'[w].todo) = Cardinality(worker[w].todo) - 1
    <3>1. IsFiniteSet(worker[w].todo)
      BY <1>1, FilesCount
    <3>2. Cardinality(worker[w].todo \ {f}) = Cardinality(worker[w].todo) - 1
      BY <2>1, <3>1, FS_RemoveElement
    <3> QED
      BY <2>1, <3>2
  <2> QED
    BY <1>1, <2>1, <2>2, FilesCount DEF StatementsLeft
<1> QED
  BY <1>2, <1>3, <1>4

\* The steps of a worker before the loop.
LEMMA OpeningNearer ==
  ASSUME TypeOK, NEW w \in Workers,
         Ping(w) \/ PingFails(w) \/ BeginTx(w) \/ AcquireLock(w) \/ CreateTable(w)
  PROVE  StatementsLeft(w)' < StatementsLeft(w)
<1>1. worker \in [Workers -> WorkerRows]
  BY DEF TypeOK
<1>2. CASE PingFails(w)
  <2>1. CASE worker[w].pings + 1 < MaxPings
    <3>1. /\ worker[w].pc = "ping" /\ worker'[w].pc = "ping"
          /\ worker'[w].pings = worker[w].pings + 1
      BY <1>1, <1>2, <2>1 DEF PingFails, Become, At
    <3> QED
      BY <3>1, FilesCount DEF StatementsLeft
  <2>2. CASE ~(worker[w].pings + 1 < MaxPings)
    <3>1. worker[w].pc = "ping" /\ worker'[w].pc = "down"
      BY <1>1, <1>2, <2>2 DEF PingFails, Become, At
    <3> QED
      BY <3>1, EndsNearer DEF Starting
  <2> QED
    BY <2>1, <2>2
<1>3. CASE Ping(w)
  <2>1. worker[w].pc = "ping" /\ worker'[w].pc = "begin"
    BY <1>1, <1>3 DEF Ping, Become, At
  <2> QED
    BY <2>1, FilesCount DEF StatementsLeft
<1>4. CASE BeginTx(w)
  <2>1. worker[w].pc = "begin" /\ worker'[w].pc = "lock"
    BY <1>1, <1>4 DEF BeginTx, Become, At
  <2> QED
    BY <2>1, FilesCount DEF StatementsLeft
<1>5. CASE AcquireLock(w)
  <2>1. worker[w].pc = "lock" /\ worker'[w].pc = "table"
    BY <1>1, <1>5 DEF AcquireLock, Become, At
  <2> QED
    BY <2>1, FilesCount DEF StatementsLeft
<1>6. CASE CreateTable(w)
  <2>1. worker[w].pc = "table" /\ worker'[w].pc = "files"
    BY <1>1, <1>6 DEF CreateTable, Become, At
  <2> QED
    BY <2>1, FilesCount DEF StatementsLeft
<1> QED
  BY <1>2, <1>3, <1>4, <1>5, <1>6

\* Whatever other workers do and whatever fails, a start only gets nearer to its
\* end: it takes at most three statements for every file of its directory, six
\* and the attempts of dbPingRetry.
THEOREM StartsOnlyGetNearer == Spec => StartsGetNearer
<1>1. IInv /\ [Next]_vars => [GetsNearer]_vars
  <2> SUFFICES ASSUME IInv, Next,
                      NEW w \in Workers, worker[w].pc \in Starting \cup Locked,
                      worker'[w] # worker[w]
               PROVE  StatementsLeft(w)' < StatementsLeft(w)
    BY DEF GetsNearer
  <2>1. TypeOK /\ worker \in [Workers -> WorkerRows]
    BY DEF IInv, TypeOK
  <2>2. ~Start(w)
    BY DEF Start, Starting, Locked
  <2>3. Step(w) \/ Disturb(w)
    <3>1. ASSUME NEW v \in Workers, v # w, Start(v) \/ Step(v) \/ Disturb(v)
          PROVE  worker'[w] = worker[w]
      <4>1. PICK q : Become(v, q)
        BY <3>1 DEF Start, Step, Ping, PingFails, Migrate, BeginTx, AcquireLock,
                    WaitTimesOut, CreateTable, ReadDir, Skip, Find, Execute, Register,
                    Commit, Disturb, Crash, Fails, CommitUnanswered
      <4> QED
        BY <2>1, <3>1, <4>1 DEF Become
    <3>2. ~EndSession
      BY DEF EndSession
    <3> QED
      BY <2>2, <3>1, <3>2 DEF Next
  <2>4. CASE WaitTimesOut(w) \/ Commit(w) \/ Disturb(w)
    <3>1. worker'[w].pc \in {"down", "running"}
      BY <2>1, <2>4 DEF WaitTimesOut, Commit, Disturb, Crash, Fails, CommitUnanswered,
                        Become, At
    <3> QED
      BY <2>1, <3>1, EndsNearer
  <2> QED
    BY <2>1, <2>3, <2>4, LoopNearer, OpeningNearer DEF Step, Migrate
<1> QED
  BY <1>1, Invariant, PTL DEF Spec, StartsGetNearer

-----------------------------------------------------------------------------
(* Refinement.                                                              *)

\* A commit is the upgrade by the directory of its worker.
LEMMA CommitIsUpgrade ==
  ASSUME IInv, NEW w \in Workers, CommitTx(w)
  PROVE  U!Upgrade(MigrationsOf[w])
<1> DEFINE s == schema
           t == worker[w].ran
<1>1. /\ worker[w].pc = "next" /\ worker[w].todo = {} /\ schema' = s \o t
  BY DEF CommitTx
<1>2. worker[w].pc \in InLoop
  BY <1>1 DEF InLoop
<1>3. s \in Seq(Files) /\ t \in Seq(Files)
  BY <1>2, InTheLoop DEF WorkerRows, IInv, TypeOK
<1>4. /\ s \o t \in Seq(Files) /\ Len(s \o t) = Len(s) + Len(t)
      /\ \A i \in 1 .. Len(s) : (s \o t)[i] = s[i]
      /\ \A i \in 1 .. Len(t) : (s \o t)[Len(s) + i] = t[i]
      /\ Len(s) \in Nat /\ Len(t) \in Nat
      /\ DOMAIN s = 1 .. Len(s) /\ DOMAIN t = 1 .. Len(t)
  BY <1>3, ConcatProperties, LenProperties
<1>5. ASSUME NEW i \in Len(s) + 1 .. Len(s \o t)
      PROVE  i - Len(s) \in 1 .. Len(t) /\ (s \o t)[i] = t[i - Len(s)]
  <2>1. i - Len(s) \in 1 .. Len(t) /\ i = Len(s) + (i - Len(s))
    BY <1>4
  <2>2. (s \o t)[Len(s) + (i - Len(s))] = t[i - Len(s)]
    BY <1>4, <2>1
  <2> QED
    BY <2>1, <2>2
<1>6. \A i \in DOMAIN t : /\ t[i] \in MigrationsOf[w] /\ VersionOf[t[i]] \notin registered
                         /\ \A j \in DOMAIN t : j < i => VersionOf[t[j]] < VersionOf[t[i]]
  BY <1>2, InTheLoop DEF RanMissing
<1>7. U!Applied(schema) = registered
  BY DEF IInv, RegisteredWasApplied, Applied, U!Applied
<1>8. ASSUME NEW i \in Len(s) + 1 .. Len(s \o t)
      PROVE  /\ (s \o t)[i] \in MigrationsOf[w]
             /\ VersionOf[(s \o t)[i]] \notin U!Applied(s)
             /\ \A j \in Len(s) + 1 .. i - 1 :
                  VersionOf[(s \o t)[j]] < VersionOf[(s \o t)[i]]
  <2>1. /\ i - Len(s) \in DOMAIN t /\ (s \o t)[i] = t[i - Len(s)]
    BY <1>4, <1>5
  <2>2. ASSUME NEW j \in Len(s) + 1 .. i - 1
        PROVE  VersionOf[(s \o t)[j]] < VersionOf[(s \o t)[i]]
    <3>1. j \in Len(s) + 1 .. Len(s \o t) /\ j - Len(s) < i - Len(s)
      BY <1>4
    <3>2. j - Len(s) \in DOMAIN t /\ (s \o t)[j] = t[j - Len(s)]
      BY <1>4, <1>5, <3>1
    <3> QED
      BY <1>6, <2>1, <3>1, <3>2
  <2> QED
    BY <1>6, <1>7, <2>1, <2>2
<1>9. ASSUME NEW f \in MigrationsOf[w] PROVE VersionOf[f] \in U!Applied(s \o t)
  <2>1. VersionOf[f] \in registered \cup worker[w].listed
    BY <1>1, <1>2, InTheLoop DEF NoneForgotten
  <2>2. Applied(t) = worker[w].listed
    BY <1>1, <1>2, InTheLoop DEF RanMissing
  <2>3. Applied(s \o t) = registered \cup worker[w].listed
    BY <1>3, <2>2, AppliedConcat DEF IInv, RegisteredWasApplied
  <2> QED
    BY <2>1, <2>3 DEF Applied, U!Applied
<1>10. Len(s) <= Len(s \o t)
  BY <1>4
<1>11. \A i \in DOMAIN s : (s \o t)[i] = s[i]
  BY <1>4
<1> HIDE DEF t
<1> QED
  BY <1>1, <1>4, <1>8, <1>9, <1>10, <1>11 DEF U!Upgrade

\* The workers, with all their failures, implement atomic upgrades in ascending
\* order that apply each version once.
THEOREM WorkersImplementUpgrades == Spec => ImplementsUpgrades
<1>1. Init => U!Init
  BY DEF Init, U!Init
<1>2. IInv /\ [Next]_vars => [U!Next]_schema
  <2> SUFFICES ASSUME IInv, [Next]_vars PROVE [U!Next]_schema
    OBVIOUS
  <2>1. ASSUME NEW w \in Workers, CommitTx(w) PROVE U!Next
    BY <2>1, CommitIsUpgrade DEF U!Next
  <2>2. CASE \A w \in Workers : ~CommitTx(w)
    BY <2>2
       DEF Next, vars, Start, Step, Ping, PingFails, Migrate, BeginTx, AcquireLock,
           WaitTimesOut, CreateTable, ReadDir, Skip, Find, Execute, Register, Commit,
           Disturb, Crash, Fails, CommitUnanswered, EndSession
  <2> QED
    BY <2>1, <2>2
<1> QED
  BY <1>1, <1>2, Invariant, PTL DEF Spec, ImplementsUpgrades, U!Spec
===============================================================================
