----------------------------- MODULE PlansProofs -----------------------------
(***************************************************************************)
(* Theorems of Plans, for every set of tenants, execution ids, dashboards  *)
(* and plans, and every number of seeded rows.                             *)
(***************************************************************************)
EXTENDS Plans, FiniteSetTheorems, WellFoundedInduction, TLAPS

\* The inductive invariant.
IInv ==
  /\ TypeOK
  /\ OwnLineage
  /\ ApprovedChecked /\ WaiverKnown
  /\ StagedPassed /\ StagedFree

\* Every id is one of a finite set.
LEMMA IdsFinite == IsFiniteSet(Ids)
<1>1. IsFiniteSet(1 .. SeedSize)
  BY FS_Interval, PlansAssumption
<1>2. IsFiniteSet(Tenants \X (1 .. SeedSize))
  BY <1>1, FS_Product, PlansAssumption
<1> QED
  BY <1>2, FS_Union, PlansAssumption DEF Ids, Seeds

\* What a seeding inserts are rows of the seed.
LEMMA SeedIsId ==
  ASSUME TypeOK, NEW r \in Readers, reader[r].pc # "idle",
         NEW i \in 1 .. SeedSize
  PROVE  Seed(r, i) \in Seeds
BY DEF TypeOK, Seed, Seeds

LEMMA InitInv == Init => IInv
<1> SUFFICES ASSUME Init PROVE IInv
  OBVIOUS
<1>1. TypeOK
  BY PlansAssumption
     DEF Init, TypeOK, ReaderRows, ApplyRows, NotReading, NotApplying, Hashes
<1>2. OwnLineage /\ ApprovedChecked /\ WaiverKnown /\ StagedPassed /\ StagedFree
  BY PlansAssumption
     DEF Init, OwnLineage, ApprovedChecked, WaiverKnown, StagedPassed, StagedFree, NotReading,
         NotApplying
<1> QED
  BY <1>1, <1>2 DEF IInv

\* What the step of a dashboard does to its slot and to the other ones.
LEMMA ReaderSlot ==
  ASSUME TypeOK, NEW r \in Readers, NEW q \in ReaderRows,
         q.pc # "idle" => q.tenant \in Tenants,
         reader' = [reader EXCEPT ![r] = q]
  PROVE  /\ reader' \in [Readers -> ReaderRows]
         /\ \A s \in Readers : reader'[s].pc # "idle" => reader'[s].tenant \in Tenants
         /\ reader'[r] = q
         /\ \A s \in Readers \ {r} : reader'[s] = reader[s]
BY DEF TypeOK

\* The same for the step of a plan.
LEMMA ApplySlot ==
  ASSUME TypeOK, NEW a \in Applies, NEW q \in ApplyRows,
         q.pc # "idle" => q.tenant \in Tenants /\ q.id \in ExecIds,
         apply' = [apply EXCEPT ![a] = q]
  PROVE  /\ apply' \in [Applies -> ApplyRows]
         /\ \A b \in Applies : apply'[b].pc # "idle" =>
              apply'[b].tenant \in Tenants /\ apply'[b].id \in ExecIds
         /\ apply'[a] = q
         /\ \A b \in Applies \ {a} : apply'[b] = apply[b]
BY DEF TypeOK

\* The idle records have their types.
LEMMA IdleRows == NotReading \in ReaderRows /\ NotApplying \in ApplyRows
BY PlansAssumption
   DEF NotReading, NotApplying, ReaderRows, ApplyRows, Hashes

\* A slot that begins again, in the transaction or before it.
LEMMA FreshRow ==
  ASSUME NEW t \in Tenants, NEW pc \in {"deleting", "seeding"}
  PROVE  [pc |-> pc, tenant |-> t, next |-> 1, staged |-> {}] \in ReaderRows
BY PlansAssumption DEF ReaderRows

-----------------------------------------------------------------------------
(* Every step keeps the invariant: dashboards first.                        *)

LEMMA CountKeeps ==
  ASSUME IInv, NEW r \in Readers, NEW t \in Tenants, CountRows(r, t)
  PROVE  IInv'
<1> DEFINE q == [pc |-> "deleting", tenant |-> t, next |-> 1, staged |-> {}]
<1>1. q \in ReaderRows
  BY FreshRow
<1>2. q.pc # "idle" => q.tenant \in Tenants
  OBVIOUS
<1>3. reader' = [reader EXCEPT ![r] = q] /\ UNCHANGED <<rows, approval, apply>>
  BY DEF CountRows
<1>4. q.staged = {}
  OBVIOUS
<1> HIDE DEF q
<1>5. TypeOK'
  BY <1>1, <1>2, <1>3, ReaderSlot DEF IInv, TypeOK
<1>6. OwnLineage' /\ ApprovedChecked' /\ WaiverKnown'
  BY <1>3 DEF IInv, OwnLineage, ApprovedChecked, WaiverKnown
<1>7. StagedPassed' /\ StagedFree'
  BY <1>1, <1>2, <1>3, <1>4, ReaderSlot DEF IInv, StagedPassed, StagedFree
<1> QED
  BY <1>5, <1>6, <1>7 DEF IInv

LEMMA DeleteKeeps ==
  ASSUME IInv, NEW r \in Readers, DeleteRows(r)
  PROVE  IInv'
<1> DEFINE q == [pc |-> "seeding", tenant |-> reader[r].tenant, next |-> 1,
                 staged |-> {}]
<1>1. reader[r].tenant \in Tenants
  BY DEF IInv, TypeOK, DeleteRows
<1>2. q \in ReaderRows
  BY <1>1, FreshRow
<1>3. q.pc # "idle" => q.tenant \in Tenants
  BY <1>1
<1>4. reader' = [reader EXCEPT ![r] = q] /\ UNCHANGED <<approval, apply>>
  BY DEF DeleteRows
<1>5. q.staged = {}
  OBVIOUS
<1> HIDE DEF q
<1>6. rows' \in [Ids -> Rows \cup {NoRow}]
  BY DEF IInv, TypeOK, DeleteRows
<1>7. \A i \in Ids : rows'[i] \in {rows[i], NoRow}
  BY DEF DeleteRows
<1>8. TypeOK'
  BY <1>2, <1>3, <1>4, <1>6, ReaderSlot DEF IInv, TypeOK
<1>9. OwnLineage' /\ ApprovedChecked' /\ WaiverKnown'
  BY <1>4, <1>7 DEF IInv, OwnLineage, ApprovedChecked, WaiverKnown
<1>10. StagedPassed' 
  BY <1>2, <1>3, <1>4, <1>5, ReaderSlot DEF IInv, StagedPassed
<1>11. \A s \in Readers : reader[s].staged \subseteq Ids
  BY DEF IInv, TypeOK, ReaderRows, Ids
<1>12. StagedFree'
  BY <1>2, <1>3, <1>4, <1>5, <1>7, <1>11, ReaderSlot DEF IInv, StagedFree
<1> QED
  BY <1>8, <1>9, <1>10, <1>12 DEF IInv

LEMMA InsertKeeps ==
  ASSUME IInv, NEW r \in Readers, InsertSeed(r)
  PROVE  IInv'
<1> DEFINE n == reader[r].next
           staged == IF rows[Seed(r, n)] = NoRow
                     THEN reader[r].staged \cup {Seed(r, n)}
                     ELSE reader[r].staged
           q == [pc |-> "seeding", tenant |-> reader[r].tenant, next |-> n + 1,
                 staged |-> staged]
<1>1. /\ reader[r] \in ReaderRows
      /\ reader[r].tenant \in Tenants
      /\ reader[r].pc # "idle"
  BY DEF IInv, TypeOK, InsertSeed
<1>2. n \in 1 .. SeedSize
  BY <1>1, PlansAssumption DEF ReaderRows, InsertSeed
<1>3. Seed(r, n) \in Seeds
  BY <1>1, <1>2, SeedIsId DEF IInv
<1>4. staged \subseteq Seeds
  BY <1>1, <1>3 DEF ReaderRows
<1>5. /\ q.pc = "seeding" /\ q.tenant = reader[r].tenant
      /\ q.next = n + 1 /\ q.staged = staged
  OBVIOUS
<1>6. q \in ReaderRows
  <2>1. n + 1 \in 1 .. SeedSize + 1
    BY <1>2, PlansAssumption
  <2> HIDE DEF n, staged
  <2> QED
    BY <1>1, <1>4, <2>1 DEF ReaderRows
<1>7. reader' = [reader EXCEPT ![r] = q] /\ UNCHANGED <<rows, approval, apply>>
  BY DEF InsertSeed
<1>8. q.pc # "idle" => q.tenant \in Tenants
  BY <1>1, <1>5
<1>9. staged \subseteq reader[r].staged \cup {Seed(r, n)}
  OBVIOUS
<1>10. Seed(r, n) \in staged => rows[Seed(r, n)] = NoRow
  BY DEF IInv, StagedFree
<1>11. \A s \in Readers : Seed(r, n) \notin reader[s].staged
  BY DEF InsertSeed, Waits
<1> HIDE DEF q, staged
<1>12. TypeOK'
  BY <1>6, <1>7, <1>8, ReaderSlot DEF IInv, TypeOK
<1>13. OwnLineage' /\ ApprovedChecked' /\ WaiverKnown'
  BY <1>7 DEF IInv, OwnLineage, ApprovedChecked, WaiverKnown
<1>14. StagedPassed'
  <2>1. ASSUME NEW i \in q.staged
        PROVE  i \in {<<q.tenant, j>> : j \in 1 .. q.next - 1}
    <3>1. \A j \in 1 .. n : j \in 1 .. q.next - 1
      BY <1>2, <1>5, PlansAssumption
    <3>2. CASE i = Seed(r, n)
      BY <1>2, <1>5, <3>1, <3>2, PlansAssumption DEF Seed
    <3>3. CASE i \in reader[r].staged
      <4>1. PICK j \in 1 .. n - 1 : i = <<reader[r].tenant, j>>
        BY <3>3 DEF IInv, StagedPassed
      <4>2. j \in 1 .. n
        BY <1>2, PlansAssumption
      <4> QED
        BY <1>5, <3>1, <4>1, <4>2
    <3>4. i = Seed(r, n) \/ i \in reader[r].staged
      BY <1>5, <1>9, <2>1
    <3> QED
      BY <3>2, <3>3, <3>4
  <2>2. q.staged \subseteq {<<q.tenant, j>> : j \in 1 .. q.next - 1}
    BY <2>1
  <2> QED
    BY <1>6, <1>7, <1>8, <2>2, ReaderSlot DEF IInv, StagedPassed
<1>15. StagedFree'
  <2>1. /\ reader'[r] = q
        /\ \A s \in Readers \ {r} : reader'[s] = reader[s]
    BY <1>6, <1>7, <1>8, ReaderSlot DEF IInv
  <2>2. \A i \in staged : /\ rows[i] = NoRow
                          /\ \A s \in Readers \ {r} : i \notin reader[s].staged
    BY <1>9, <1>10, <1>11 DEF IInv, StagedFree
  <2> QED
    BY <1>5, <1>7, <2>1, <2>2 DEF IInv, StagedFree
<1> QED
  BY <1>12, <1>13, <1>14, <1>15 DEF IInv

LEMMA CommitKeeps ==
  ASSUME IInv, NEW r \in Readers, CommitSeeds(r)
  PROVE  IInv'
<1> DEFINE row == [tenant |-> reader[r].tenant, lineage |-> Genesis]
<1>1. row \in Rows /\ row.lineage \in Lineages(row.tenant)
  BY DEF IInv, TypeOK, CommitSeeds, Rows, Hashes, Lineages
<1>2. rows' = [i \in Ids |-> IF i \in reader[r].staged THEN row ELSE rows[i]]
  BY DEF CommitSeeds
<1>3. reader' = [reader EXCEPT ![r] = NotReading] /\ UNCHANGED <<approval, apply>>
  BY DEF CommitSeeds
<1>4. NotReading.pc = "idle" /\ NotReading.staged = {}
  BY DEF NotReading
<1> HIDE DEF row
<1>5. rows' \in [Ids -> Rows \cup {NoRow}]
  BY <1>1, <1>2 DEF IInv, TypeOK
<1>6. TypeOK'
  BY <1>3, <1>4, <1>5, ReaderSlot, IdleRows DEF IInv, TypeOK
<1>7. OwnLineage' /\ ApprovedChecked' /\ WaiverKnown'
  BY <1>1, <1>2, <1>3 DEF IInv, OwnLineage, ApprovedChecked, WaiverKnown
<1>8. StagedPassed'
  BY <1>3, <1>4, ReaderSlot, IdleRows DEF IInv, StagedPassed
<1>9. \A s \in Readers : reader[s].staged \subseteq Ids
  BY DEF IInv, TypeOK, ReaderRows, Ids
<1>10. reader'[r].staged = {} /\ \A s \in Readers \ {r} : reader'[s] = reader[s]
  BY <1>3, <1>4, ReaderSlot, IdleRows DEF IInv
<1>11. ASSUME NEW s \in Readers \ {r}, NEW i \in reader[s].staged
       PROVE  rows'[i] = NoRow
  <2>1. i \in Ids /\ i \notin reader[r].staged /\ rows[i] = NoRow
    BY <1>9, <1>11 DEF IInv, StagedFree
  <2> QED
    BY <1>2, <2>1
<1>12. StagedFree'
  BY <1>10, <1>11 DEF IInv, StagedFree
<1> QED
  BY <1>6, <1>7, <1>8, <1>12 DEF IInv

LEMMA RollBackKeeps ==
  ASSUME IInv, NEW r \in Readers, RollBack(r)
  PROVE  IInv'
<1>1. /\ reader' = [reader EXCEPT ![r] = NotReading]
      /\ UNCHANGED <<rows, approval, apply>>
  BY DEF RollBack
<1>2. NotReading.pc = "idle" /\ NotReading.staged = {}
  BY DEF NotReading
<1>3. TypeOK'
  BY <1>1, <1>2, ReaderSlot, IdleRows DEF IInv, TypeOK
<1>4. OwnLineage' /\ ApprovedChecked' /\ WaiverKnown'
  BY <1>1 DEF IInv, OwnLineage, ApprovedChecked, WaiverKnown
<1>5. StagedPassed' /\ StagedFree'
  BY <1>1, <1>2, ReaderSlot, IdleRows DEF IInv, StagedPassed, StagedFree
<1> QED
  BY <1>3, <1>4, <1>5 DEF IInv

-----------------------------------------------------------------------------
(* The plans.                                                               *)

\* A step of a plan that leaves the table alone.
LEMMA PlanKeeps ==
  ASSUME IInv, NEW a \in Applies, NEW q \in ApplyRows,
         apply' = [apply EXCEPT ![a] = q], UNCHANGED <<rows, approval, reader>>,
         q.pc # "idle" => q.tenant \in Tenants /\ q.id \in ExecIds,
         q.pc # "idle" => q.lineage \in Lineages(q.tenant),
         q.pc # "idle" /\ ~approval[q.tenant] => q.waived,
         q.pc \in {"approved", "executed"} => q.waived \/ NoneRefused(q.list, q.lineage)
  PROVE  IInv'
<1>1. TypeOK'
  BY ApplySlot DEF IInv, TypeOK
<1>2. apply'[a] = q /\ \A b \in Applies \ {a} : apply'[b] = apply[b]
  BY ApplySlot DEF IInv
<1>3. OwnLineage' /\ ApprovedChecked' /\ WaiverKnown'
  BY <1>2 DEF IInv, OwnLineage, ApprovedChecked, WaiverKnown
<1>4. StagedPassed' /\ StagedFree'
  BY DEF IInv, StagedPassed, StagedFree
<1> QED
  BY <1>1, <1>3, <1>4 DEF IInv

\* A lineage that is read is the tenant's own, or Genesis.
LEMMA LatestIsOwn ==
  ASSUME TypeOK, OwnLineage, NEW t \in Tenants, NEW l \in LatestLineage(t)
  PROVE  l \in Lineages(t) /\ l \in Hashes
BY DEF TypeOK, OwnLineage, LatestLineage, RowsOf, Lineages, Hashes

LEMMA ReadKeeps ==
  ASSUME IInv, NEW a \in Applies, NEW t \in Tenants, NEW i \in ExecIds,
         NEW list \in SignatureLists, ReadLineage(a, t, i, list)
  PROVE  IInv'
<1>1. PICK l \in LatestLineage(t) :
        apply' = [apply EXCEPT ![a] =
          [pc |-> "read", tenant |-> t, id |-> i, lineage |-> l,
           list |-> list, waived |-> ~approval[t]]]
  BY DEF ReadLineage
<1> DEFINE q == [pc |-> "read", tenant |-> t, id |-> i, lineage |-> l,
                 list |-> list, waived |-> ~approval[t]]
<1>2. l \in Lineages(t) /\ l \in Hashes
  BY LatestIsOwn DEF IInv
<1>3. (~approval[t]) \in BOOLEAN
  OBVIOUS
<1>4. q \in ApplyRows
  BY <1>2, <1>3 DEF ApplyRows
<1>5. /\ q.pc = "read" /\ q.tenant = t /\ q.id = i /\ q.lineage = l
      /\ q.waived = ~approval[t]
  OBVIOUS
<1>6. apply' = [apply EXCEPT ![a] = q]
  BY <1>1
<1>7. UNCHANGED <<rows, approval, reader>>
  BY DEF ReadLineage
<1> HIDE DEF q
<1> QED
  BY <1>2, <1>4, <1>5, <1>6, <1>7, PlanKeeps

\* A plan that goes on keeps what it has read.
LEMMA BecomeRow ==
  ASSUME TypeOK, NEW a \in Applies, apply[a].pc # "idle",
         NEW pc \in {"approved", "executed"}, Become(a, pc)
  PROVE  \E q \in ApplyRows :
           /\ apply' = [apply EXCEPT ![a] = q]
           /\ q.pc = pc
           /\ q.tenant = apply[a].tenant /\ q.id = apply[a].id
           /\ q.lineage = apply[a].lineage /\ q.list = apply[a].list
           /\ q.waived = apply[a].waived
<1> DEFINE q == [pc |-> pc, tenant |-> apply[a].tenant, id |-> apply[a].id,
                 lineage |-> apply[a].lineage, list |-> apply[a].list,
                 waived |-> apply[a].waived]
<1>1. apply[a] \in ApplyRows
  BY DEF TypeOK
<1>2. q \in ApplyRows
  BY <1>1 DEF ApplyRows
<1>3. apply' = [apply EXCEPT ![a] = q]
  BY DEF Become
<1>4. /\ q.pc = pc
      /\ q.tenant = apply[a].tenant /\ q.id = apply[a].id
      /\ q.lineage = apply[a].lineage /\ q.list = apply[a].list
      /\ q.waived = apply[a].waived
  OBVIOUS
<1> QED
  BY <1>2, <1>3, <1>4

\* A plan that ends, whatever came of it.
LEMMA EndKeeps ==
  ASSUME IInv, NEW a \in Applies, apply' = [apply EXCEPT ![a] = NotApplying],
         UNCHANGED <<rows, approval, reader>>
  PROVE  IInv'
<1>1. NotApplying.pc = "idle"
  BY DEF NotApplying
<1> QED
  BY <1>1, IdleRows, PlanKeeps

LEMMA CheckKeeps ==
  ASSUME IInv, NEW a \in Applies, CheckApproval(a)
  PROVE  IInv'
<1>1. apply[a].pc = "read" /\ UNCHANGED <<rows, approval, reader>>
  BY DEF CheckApproval
<1>2. CASE apply' = [apply EXCEPT ![a] = NotApplying]
  BY <1>1, <1>2, EndKeeps
<1>3. CASE /\ Become(a, "approved")
           /\ approval[apply[a].tenant] =>
                NoneRefused(apply[a].list, apply[a].lineage)
  <2>1. PICK q \in ApplyRows :
          /\ apply' = [apply EXCEPT ![a] = q]
          /\ q.pc = "approved"
          /\ q.tenant = apply[a].tenant /\ q.id = apply[a].id
          /\ q.lineage = apply[a].lineage /\ q.list = apply[a].list
          /\ q.waived = apply[a].waived
    BY <1>1, <1>3, BecomeRow DEF IInv
  <2>2. q.tenant \in Tenants /\ q.id \in ExecIds
    BY <1>1, <2>1 DEF IInv, TypeOK
  <2>3. q.lineage \in Lineages(q.tenant)
    BY <1>1, <2>1 DEF IInv, OwnLineage
  <2>4. ~approval[q.tenant] => q.waived
    BY <1>1, <2>1 DEF IInv, WaiverKnown
  <2>5. q.waived \/ NoneRefused(q.list, q.lineage)
    BY <1>3, <2>1, <2>4
  <2> QED
    BY <1>1, <2>1, <2>2, <2>3, <2>4, <2>5, PlanKeeps
<1>4. \E required \in {approval[apply[a].tenant], TRUE} :
        IF required => NoneRefused(apply[a].list, apply[a].lineage)
        THEN Become(a, "approved")
        ELSE apply' = [apply EXCEPT ![a] = NotApplying]
  BY DEF CheckApproval, ApprovalRequired
<1> QED
  BY <1>2, <1>3, <1>4

LEMMA ExecuteKeeps ==
  ASSUME IInv, NEW a \in Applies, Execute(a)
  PROVE  IInv'
<1>1. /\ apply[a].pc = "approved" /\ Become(a, "executed")
      /\ UNCHANGED <<rows, approval, reader>>
  BY DEF Execute
<1>2. PICK q \in ApplyRows :
        /\ apply' = [apply EXCEPT ![a] = q]
        /\ q.pc = "executed"
        /\ q.tenant = apply[a].tenant /\ q.id = apply[a].id
        /\ q.lineage = apply[a].lineage /\ q.list = apply[a].list
        /\ q.waived = apply[a].waived
  BY <1>1, BecomeRow DEF IInv
<1>3. /\ q.tenant \in Tenants /\ q.id \in ExecIds
      /\ q.lineage \in Lineages(q.tenant)
      /\ ~approval[q.tenant] => q.waived
      /\ q.waived \/ NoneRefused(q.list, q.lineage)
  BY <1>1, <1>2 DEF IInv, TypeOK, OwnLineage, WaiverKnown, ApprovedChecked
<1> QED
  BY <1>1, <1>2, <1>3, PlanKeeps

-----------------------------------------------------------------------------
(* Rows that are added one at a time.                                       *)

\* An id of ExecIds is none that a seeding inserts.
LEMMA ExecNotStaged ==
  ASSUME IInv, NEW i \in ExecIds, NEW r \in Readers
  PROVE  i \notin reader[r].staged
BY PlansAssumption DEF IInv, TypeOK, ReaderRows

\* One more row, or the table as it was.
LEMMA RowKeeps ==
  ASSUME IInv, NEW i \in ExecIds, NEW row \in Rows,
         row.lineage \in Lineages(row.tenant) \cup {NoHash},
         Insert(i, row), UNCHANGED <<approval, reader>>
  PROVE  /\ rows' \in [Ids -> Rows \cup {NoRow}]
         /\ \A j \in Ids : rows'[j] # NoRow =>
              rows'[j].lineage \in Lineages(rows'[j].tenant) \cup {NoHash}
         /\ StagedPassed' /\ StagedFree'
<1>1. i \in Ids
  BY DEF Ids
<1>2. rows \in [Ids -> Rows \cup {NoRow}]
  BY DEF IInv, TypeOK
<1>3. rows' \in [Ids -> Rows \cup {NoRow}]
  BY <1>1, <1>2 DEF Insert
<1>4. \A j \in Ids : rows'[j] = rows[j] \/ rows'[j] = row
  BY <1>1, <1>2 DEF Insert
<1>5. \A j \in Ids : rows'[j] # NoRow =>
        rows'[j].lineage \in Lineages(rows'[j].tenant) \cup {NoHash}
  BY <1>4 DEF IInv, OwnLineage
<1>6. StagedPassed'
  BY DEF IInv, StagedPassed
<1>7. \A r \in Readers : \A j \in reader[r].staged : j \in Ids /\ j # i
  BY ExecNotStaged DEF IInv, TypeOK, ReaderRows, Ids
<1>8. \A j \in Ids : j # i => rows'[j] = rows[j]
  BY <1>2 DEF Insert
<1>9. StagedFree'
  BY <1>7, <1>8 DEF IInv, StagedFree
<1> QED
  BY <1>3, <1>5, <1>6, <1>9

LEMMA LogKeeps ==
  ASSUME IInv, NEW a \in Applies, LogExecution(a)
  PROVE  IInv'
<1> DEFINE row == [tenant |-> apply[a].tenant, lineage |-> apply[a].lineage]
<1>1. /\ Insert(apply[a].id, row)
      /\ apply' = [apply EXCEPT ![a] = NotApplying]
      /\ UNCHANGED <<approval, reader>>
  BY DEF LogExecution
<1>2. /\ apply[a].pc # "idle" /\ apply[a] \in ApplyRows
      /\ apply[a].tenant \in Tenants /\ apply[a].id \in ExecIds
  BY DEF LogExecution, IInv, TypeOK
<1>3. row \in Rows
  BY <1>2 DEF Rows, ApplyRows
<1>4. row.lineage \in Lineages(row.tenant)
  BY <1>2 DEF IInv, OwnLineage
<1>5. NotApplying.pc = "idle"
  BY DEF NotApplying
<1> HIDE DEF row
<1>6. /\ rows' \in [Ids -> Rows \cup {NoRow}]
      /\ \A j \in Ids : rows'[j] # NoRow =>
           rows'[j].lineage \in Lineages(rows'[j].tenant) \cup {NoHash}
      /\ StagedPassed' /\ StagedFree'
  BY <1>1, <1>2, <1>3, <1>4, RowKeeps
<1>7. TypeOK'
  BY <1>1, <1>5, <1>6, ApplySlot, IdleRows DEF IInv, TypeOK
<1>8. apply'[a].pc = "idle" /\ \A b \in Applies \ {a} : apply'[b] = apply[b]
  BY <1>1, <1>5, ApplySlot, IdleRows DEF IInv
<1>9. OwnLineage'
  BY <1>6, <1>8 DEF IInv, OwnLineage
<1>10. ApprovedChecked' /\ WaiverKnown'
  BY <1>1, <1>8 DEF IInv, ApprovedChecked, WaiverKnown
<1> QED
  BY <1>6, <1>7, <1>9, <1>10 DEF IInv

\* An event or a simulated execution.
LEMMA TrafficKeeps ==
  ASSUME IInv, NEW t \in Tenants, NEW i \in ExecIds,
         NEW l \in HashesOf[t] \cup {NoHash},
         Insert(i, [tenant |-> t, lineage |-> l]),
         UNCHANGED <<approval, reader, apply>>
  PROVE  IInv'
<1> DEFINE row == [tenant |-> t, lineage |-> l]
<1>1. row \in Rows /\ row.lineage \in Lineages(row.tenant) \cup {NoHash}
  BY DEF Rows, Hashes, Lineages
<1>2. Insert(i, row)
  OBVIOUS
<1> HIDE DEF row
<1>3. /\ rows' \in [Ids -> Rows \cup {NoRow}]
      /\ \A j \in Ids : rows'[j] # NoRow =>
           rows'[j].lineage \in Lineages(rows'[j].tenant) \cup {NoHash}
      /\ StagedPassed' /\ StagedFree'
  BY <1>1, <1>2, RowKeeps
<1>4. TypeOK' /\ OwnLineage' /\ ApprovedChecked' /\ WaiverKnown'
  BY <1>3 DEF IInv, TypeOK, OwnLineage, ApprovedChecked, WaiverKnown
<1> QED
  BY <1>3, <1>4 DEF IInv

\* Approval is required, or no longer: the plans in progress learn the latter.
LEMMA SetApprovalKeeps ==
  ASSUME IInv, NEW t \in Tenants, NEW required \in BOOLEAN,
         SetApproval(t, required)
  PROVE  IInv'
<1>1. /\ approval' = [approval EXCEPT ![t] = required]
      /\ UNCHANGED <<rows, reader>>
  BY DEF SetApproval
<1>2. ASSUME NEW p \in ApplyRows
      PROVE  /\ [p EXCEPT !.waived = TRUE] \in ApplyRows
             /\ [p EXCEPT !.waived = TRUE].waived
             /\ [p EXCEPT !.waived = TRUE].pc = p.pc
             /\ [p EXCEPT !.waived = TRUE].tenant = p.tenant
             /\ [p EXCEPT !.waived = TRUE].id = p.id
             /\ [p EXCEPT !.waived = TRUE].lineage = p.lineage
             /\ [p EXCEPT !.waived = TRUE].list = p.list
  BY DEF ApplyRows
<1>3. \A a \in Applies : apply[a] \in ApplyRows
  BY DEF IInv, TypeOK
<1>4. apply' = [a \in Applies |-> IF apply[a].tenant = t /\ ~required
                                  THEN [apply[a] EXCEPT !.waived = TRUE]
                                  ELSE apply[a]]
  BY DEF SetApproval
<1>5. \A a \in Applies :
        /\ apply'[a] \in ApplyRows
        /\ apply'[a].pc = apply[a].pc
        /\ apply'[a].tenant = apply[a].tenant
        /\ apply'[a].id = apply[a].id
        /\ apply'[a].lineage = apply[a].lineage
        /\ apply'[a].list = apply[a].list
        /\ apply[a].waived => apply'[a].waived
        /\ apply[a].tenant = t /\ ~required => apply'[a].waived
  BY <1>2, <1>3, <1>4
<1>6. apply' \in [Applies -> ApplyRows]
  BY <1>4, <1>5
<1>7. approval' \in [Tenants -> BOOLEAN]
  BY <1>1 DEF IInv, TypeOK
<1>8. TypeOK'
  BY <1>1, <1>5, <1>6, <1>7 DEF IInv, TypeOK
<1>9. OwnLineage' /\ ApprovedChecked'
  BY <1>1, <1>5 DEF IInv, OwnLineage, ApprovedChecked
<1>10. WaiverKnown'
  BY <1>1, <1>5 DEF IInv, TypeOK, WaiverKnown
<1>11. StagedPassed' /\ StagedFree'
  BY <1>1 DEF IInv, StagedPassed, StagedFree
<1> QED
  BY <1>8, <1>9, <1>10, <1>11 DEF IInv

-----------------------------------------------------------------------------
(* The theorems.                                                            *)

LEMMA StepKeeps == IInv /\ [Next]_vars => IInv'
<1> SUFFICES ASSUME IInv, [Next]_vars PROVE IInv'
  OBVIOUS
<1>1. ASSUME NEW t \in Tenants, NEW i \in ExecIds,
             NEW h \in HashesOf[t] \cup {NoHash}, StoreEvent(t, i, h)
      PROVE  IInv'
  BY <1>1, TrafficKeeps DEF StoreEvent
<1>2. ASSUME NEW i \in ExecIds, NEW h \in HashesOf[Admin], Simulate(i, h)
      PROVE  IInv'
  <2>1. Insert(i, [tenant |-> Admin, lineage |-> h])
    BY <1>2 DEF Simulate, Insert
  <2> QED
    BY <1>2, <2>1, TrafficKeeps, PlansAssumption DEF Simulate
<1>3. ASSUME NEW a \in Applies, ApplyFails(a) PROVE IInv'
  BY <1>3, EndKeeps DEF ApplyFails
<1>4. CASE UNCHANGED vars
  BY <1>4 DEF vars, IInv, TypeOK, OwnLineage, ApprovedChecked, WaiverKnown,
              StagedPassed, StagedFree
<1> QED
  BY <1>1, <1>2, <1>3, <1>4, CountKeeps, DeleteKeeps, InsertKeeps, CommitKeeps,
     RollBackKeeps, ReadKeeps, CheckKeeps, ExecuteKeeps, LogKeeps,
     SetApprovalKeeps DEF Next

\* The inductive invariant holds in every reachable state.
THEOREM Invariant == Spec => []IInv
BY InitInv, StepKeeps, PTL DEF Spec

\* TypeOK holds in every reachable state.
THEOREM TypeCorrect == Spec => []TypeOK
<1>1. IInv => TypeOK
  BY DEF IInv
<1> QED
  BY <1>1, Invariant, PTL

\* No row and no plan carries a lineage hash of another tenant.
THEOREM LineageIsOwn == Spec => []OwnLineage
<1>1. IInv => OwnLineage
  BY DEF IInv
<1> QED
  BY <1>1, Invariant, PTL

\* A plan that its tenant requires to be approved throughout runs only with a
\* list that holds no wrong pair, and unsigned only if it holds no pair at all.
THEOREM PlansRunChecked == Spec => []RunsChecked
<1>1. IInv => RunsChecked
  <2> SUFFICES ASSUME IInv, NEW a \in Applies, apply[a].pc = "executed",
                      ~apply[a].waived
               PROVE  \/ /\ Signed(a)
                         /\ apply[a].list \subseteq {apply[a].lineage, Unpaired}
                      \/ apply[a].list = {Unpaired}
    BY DEF RunsChecked
  <2>1. NoneRefused(apply[a].list, apply[a].lineage)
    BY DEF IInv, ApprovedChecked
  <2>2. apply[a].list # {} /\ apply[a].list \subseteq {apply[a].lineage, Unpaired}
    BY <2>1 DEF NoneRefused
  <2>3. CASE apply[a].lineage \in apply[a].list
    BY <2>2, <2>3 DEF Signed
  <2>4. CASE apply[a].lineage \notin apply[a].list
    BY <2>2, <2>4
  <2> QED
    BY <2>3, <2>4
<1> QED
  BY <1>1, Invariant, PTL

\* Seedings never wait for one another in a circle, however many there are.
THEOREM SeedingsDoNotDeadlock == Spec => []NoCircularWait
<1>1. IInv => NoCircularWait
  <2> SUFFICES ASSUME IInv, NEW r \in Readers, NEW s \in Readers, Waits(r, s)
               PROVE  reader[r].next < reader[s].next
    BY DEF NoCircularWait
  <2>1. reader[r] \in ReaderRows /\ reader[s] \in ReaderRows
    BY DEF IInv, TypeOK
  <2>2. PICK j \in 1 .. reader[s].next - 1 :
          <<reader[r].tenant, reader[r].next>> = <<reader[s].tenant, j>>
    BY DEF IInv, StagedPassed, Waits, Seed
  <2>3. reader[r].next = j
    BY <2>2
  <2> QED
    BY <2>1, <2>2, <2>3, PlansAssumption DEF ReaderRows
<1> QED
  BY <1>1, Invariant, PTL

\* A set of natural numbers that is not empty has a least one.
LEMMA LeastNat ==
  ASSUME NEW N \in SUBSET Nat, N # {}
  PROVE  \E m \in N : \A n \in N : m <= n
<1>1. PICK m \in N : \A n \in N : <<n, m>> \notin OpToRel(<, Nat)
  <2> HIDE DEF OpToRel
  <2> QED
    BY NatLessThanWellFounded, WFMin
<1>2. ASSUME NEW n \in N PROVE m <= n
  <2>1. ~(n < m)
    BY <1>1 DEF OpToRel
  <2> QED
    BY <2>1
<1> QED
  BY <1>2

\* Only a seeding has inserted rows that are not committed.
StagesSeeding == \A r \in Readers : reader[r].pc # "seeding" => reader[r].staged = {}

\* No other step of a dashboard keeps or makes such rows.
LEMMA StagesKept == StagesSeeding /\ TypeOK /\ [Next]_vars => StagesSeeding'
<1> SUFFICES ASSUME StagesSeeding, TypeOK, [Next]_vars, NEW r \in Readers,
                    (reader[r].pc # "seeding")'
             PROVE  reader'[r].staged = {}
  BY DEF StagesSeeding
<1>1. CASE reader' = reader
  BY <1>1 DEF StagesSeeding
<1>2. ASSUME NEW s \in Readers,
             \/ \E t \in Tenants : CountRows(s, t)
             \/ DeleteRows(s) \/ InsertSeed(s) \/ CommitSeeds(s) \/ RollBack(s)
      PROVE  reader'[r].staged = {}
  BY <1>2 DEF StagesSeeding, TypeOK, CountRows, DeleteRows, InsertSeed, CommitSeeds,
              RollBack, NotReading
<1> QED
  BY <1>1, <1>2 DEF Next, vars, ReadLineage, CheckApproval, Execute, LogExecution,
                    ApplyFails, SetApproval, StoreEvent, Simulate

\* Seedings are never stuck: of those that wait, directly or not, for one
\* another, the one that has got furthest goes on.
THEOREM SeedingsGoOn == Spec => []SeedingGoesOn
<1>1. IInv /\ StagesSeeding /\ NoCircularWait => SeedingGoesOn
  <2> SUFFICES ASSUME IInv, StagesSeeding, NoCircularWait,
                      NEW r \in Readers, reader[r].pc = "seeding"
               PROVE  \E s \in Readers : /\ reader[s].pc = "seeding"
                                         /\ reader[r].next <= reader[s].next
                                         /\ ~Blocked(s)
    BY DEF SeedingGoesOn
  <2> DEFINE Ahead == {s \in Readers : /\ reader[s].pc = "seeding"
                                       /\ reader[r].next <= reader[s].next}
             Left(s) == SeedSize + 1 - reader[s].next
             Lefts == {Left(s) : s \in Ahead}
  <2>0. SeedSize \in Nat
    BY PlansAssumption
  <2>1. ASSUME NEW s \in Readers PROVE reader[s].next \in Nat /\ Left(s) \in Nat
    <3>1. reader[s] \in ReaderRows
      BY DEF IInv, TypeOK
    <3>2. reader[s].next \in 1 .. SeedSize + 1
      BY <3>1 DEF ReaderRows
    <3>3. \A n \in 1 .. SeedSize + 1 : n \in Nat /\ SeedSize + 1 - n \in Nat
      BY <2>0
    <3> QED
      BY <3>2, <3>3
  <2>2. Lefts \subseteq Nat /\ Lefts # {}
    <3>1. r \in Ahead
      BY <2>1
    <3> HIDE DEF Left
    <3> QED
      BY <2>1, <3>1
  <2>3. PICK m \in Lefts : \A n \in Lefts : m <= n
    BY <2>2, LeastNat
  <2>4. PICK s \in Ahead : m = Left(s)
    OBVIOUS
  <2>5. ASSUME NEW u \in Readers, Waits(s, u) PROVE FALSE
    <3>1. reader[u].pc = "seeding"
      BY <2>5 DEF StagesSeeding, Waits
    <3>2. reader[s].next < reader[u].next
      BY <2>5 DEF NoCircularWait
    <3>3. u \in Ahead
      BY <3>1, <3>2, <2>1
    <3>4. m <= Left(u)
      BY <3>3, <2>3
    <3> QED
      BY <3>2, <3>4, <2>0, <2>1, <2>4
  <2> QED
    BY <2>4, <2>5 DEF Blocked
<1>2. Init => StagesSeeding
  BY DEF Init, StagesSeeding, NotReading
<1>3. IInv => TypeOK
  BY DEF IInv
<1> QED
  BY <1>1, <1>2, <1>3, StagesKept, Invariant, SeedingsDoNotDeadlock, PTL DEF Spec

\* What a step does to a row: it stays, is deleted by a dashboard of its tenant,
\* or was not there.
LEMMA RowFate ==
  ASSUME IInv, [Next]_vars, NEW i \in Ids, rows[i] # NoRow
  PROVE  \/ rows'[i] = rows[i]
         \/ /\ rows'[i] = NoRow
            /\ \E r \in Readers : /\ reader[r].pc = "deleting"
                                  /\ reader[r].tenant = rows[i].tenant
<1> DEFINE Goal == \/ rows'[i] = rows[i]
                   \/ /\ rows'[i] = NoRow
                      /\ \E r \in Readers : /\ reader[r].pc = "deleting"
                                            /\ reader[r].tenant = rows[i].tenant
<1>1. rows \in [Ids -> Rows \cup {NoRow}]
  BY DEF IInv, TypeOK
<1>2. ASSUME NEW r \in Readers, DeleteRows(r) PROVE Goal
  BY <1>2 DEF DeleteRows, RowsOf
<1>3. ASSUME NEW r \in Readers, CommitSeeds(r) PROVE Goal
  BY <1>3 DEF CommitSeeds, IInv, StagedFree
<1>4. ASSUME NEW j \in Ids, NEW row, Insert(j, row) PROVE Goal
  BY <1>1, <1>4 DEF Insert
<1>5. ASSUME NEW a \in Applies, LogExecution(a) PROVE Goal
  <2>1. apply[a].id \in Ids
    BY <1>5 DEF LogExecution, IInv, TypeOK, Ids
  <2> QED
    BY <1>4, <1>5, <2>1 DEF LogExecution
<1>6. ASSUME NEW t \in Tenants, NEW j \in ExecIds, NEW h, StoreEvent(t, j, h)
      PROVE  Goal
  BY <1>4, <1>6 DEF StoreEvent, Ids
<1>7. ASSUME NEW j \in ExecIds, NEW h, Simulate(j, h) PROVE Goal
  BY <1>1, <1>7 DEF Simulate, Ids
<1>8. CASE UNCHANGED rows
  BY <1>8
<1> QED
  BY <1>2, <1>3, <1>5, <1>6, <1>7, <1>8
     DEF Next, vars, CountRows, InsertSeed, RollBack, ReadLineage, CheckApproval,
         Execute, ApplyFails, SetApproval

\* A dashboard that is about to delete has just found too few rows.
LEMMA DeletingFate ==
  ASSUME IInv, [Next]_vars, NEW r \in Readers, reader'[r].pc = "deleting"
  PROVE  \/ reader'[r] = reader[r]
         \/ Count(reader'[r].tenant) < SeedSize
<1> DEFINE Goal == \/ reader'[r] = reader[r]
                   \/ Count(reader'[r].tenant) < SeedSize
<1>1. reader \in [Readers -> ReaderRows]
  BY DEF IInv, TypeOK
<1>2. ASSUME NEW s \in Readers, NEW t \in Tenants, CountRows(s, t) PROVE Goal
  BY <1>1, <1>2 DEF CountRows
<1>3. ASSUME NEW s \in Readers, DeleteRows(s) \/ InsertSeed(s) PROVE Goal
  BY <1>1, <1>3 DEF DeleteRows, InsertSeed
<1>4. ASSUME NEW s \in Readers, CommitSeeds(s) \/ RollBack(s) PROVE Goal
  BY <1>1, <1>4 DEF CommitSeeds, RollBack, NotReading
<1>5. CASE UNCHANGED reader
  BY <1>5
<1> QED
  BY <1>2, <1>3, <1>4, <1>5
     DEF Next, vars, ReadLineage, CheckApproval, Execute, LogExecution,
         ApplyFails, SetApproval, StoreEvent, Simulate

\* Rows that are kept are counted again.
LEMMA CountGrows ==
  ASSUME NEW t \in Tenants, \A i \in RowsOf(t) : rows'[i] = rows[i]
  PROVE  Count(t)' \in Nat /\ Count(t) \in Nat /\ Count(t) <= Count(t)'
<1>1. RowsOf(t) \subseteq RowsOf(t)'
  BY DEF RowsOf
<1>2. RowsOf(t)' \subseteq Ids
  BY DEF RowsOf
<1>3. IsFiniteSet(RowsOf(t)')
  BY <1>2, IdsFinite, FS_Subset
<1> HIDE DEF RowsOf
<1> QED
  BY <1>1, <1>3, FS_Subset, FS_CardinalityType DEF Count

LEMMA SettledStep == IInv /\ [Next]_vars => SettledKept
<1> SUFFICES ASSUME IInv, [Next]_vars, NEW t \in Tenants, Settled(t)
             PROVE  /\ \A i \in RowsOf(t) : rows'[i] = rows[i]
                    /\ Settled(t)'
  BY DEF SettledKept
<1>1. \A i \in RowsOf(t) : rows'[i] = rows[i]
  BY RowFate DEF Settled, RowsOf
<1>2. Count(t)' >= SeedSize /\ ~(Count(t) < SeedSize)
  BY <1>1, CountGrows, PlansAssumption DEF Settled
<1>3. \A r \in Readers : ~(reader'[r].pc = "deleting" /\ reader'[r].tenant = t)
  BY <1>2, DeletingFate DEF Settled
<1> QED
  BY <1>1, <1>2, <1>3 DEF Settled

\* A settled tenant keeps its executions and stays settled.
THEOREM SettledTenantsStay == Spec => SettledStays
BY Invariant, SettledStep, PTL DEF Spec, SettledStays

\* A row is never changed in place.
THEOREM RowsAreKept == Spec => RowsUnchanged
<1>1. IInv /\ [Next]_vars => RowKept
  BY RowFate DEF RowKept
<1> QED
  BY <1>1, Invariant, PTL DEF Spec, RowsUnchanged

-----------------------------------------------------------------------------
(* The table that its readers see.                                          *)

\* The visit of a dashboard whose slot holds q.
Visited(q) ==
  [stage |-> q.pc, tenant |-> q.tenant,
   left |-> {<<q.tenant, i>> : i \in 1 .. q.next - 1} \ q.staged]

\* The visits are those of the slots, before and after a step.
LEMMA VisitsAre ==
  /\ Visits = [r \in Readers |-> Visited(reader[r])]
  /\ Visits' = [r \in Readers |-> Visited(reader'[r])]
BY DEF Visits, Visited, PassedOver, Seed

\* A step of one dashboard is a step of one visitor.
LEMMA VisitSteps ==
  ASSUME TypeOK, NEW r \in Readers, NEW q, reader' = [reader EXCEPT ![r] = q]
  PROVE  Visits' = [Visits EXCEPT ![r] = Visited(q)]
<1>1. \A s \in Readers : reader'[s] = IF s = r THEN q ELSE reader[s]
  BY DEF TypeOK
<1> HIDE DEF Visited
<1>2. \A s \in Readers :
        Visited(reader'[s]) = IF s = r THEN Visited(q) ELSE Visited(reader[s])
  BY <1>1
<1> QED
  BY <1>2, VisitsAre

\* Visitors whose dashboards do nothing do nothing.
LEMMA VisitsStay == UNCHANGED reader => Visits' = Visits
BY VisitsAre

\* Before the first row nothing is passed over.
LEMMA FreshVisit ==
  ASSUME NEW pc, NEW t
  PROVE  Visited([pc |-> pc, tenant |-> t, next |-> 1, staged |-> {}])
           = T!Visit(pc, t, {})
<1>1. {<<t, i>> : i \in 1 .. 1 - 1} \ {} = {}
  OBVIOUS
<1> QED
  BY <1>1 DEF Visited, T!Visit

\* Who does nothing is no visitor.
LEMMA IdleVisit == Visited(NotReading) = T!NoVisit
BY FreshVisit DEF NotReading, T!NoVisit

\* The rows of a tenant are counted alike.
LEMMA KeysAreRows == \A t \in Tenants : T!KeysOf(t) = RowsOf(t)
BY DEF T!KeysOf, RowsOf

\* Both modules have Cardinality of FiniteSets.
LEMMA CardinalityIsOne == \A S : T!Cardinality(S) = Cardinality(S)
BY DEF T!Cardinality, Cardinality

\* The seed of a tenant, as the table knows it.
SeedOf(t) == {t} \X (1 .. SeedSize)

LEMMA SeedsAre ==
  \A t \in Tenants : [u \in Tenants |-> {u} \X (1 .. SeedSize)][t] = SeedOf(t)
BY DEF SeedOf

LEMMA CountFinds ==
  ASSUME IInv, NEW r \in Readers, NEW t \in Tenants, CountRows(r, t)
  PROVE  T!Find(r, t)
<1> DEFINE q == [pc |-> "deleting", tenant |-> t, next |-> 1, staged |-> {}]
<1>1. reader' = [reader EXCEPT ![r] = q] /\ reader[r].pc = "idle"
  BY DEF CountRows
<1>2. Visits' = [Visits EXCEPT ![r] = Visited(q)]
  BY <1>1, VisitSteps DEF IInv
<1>3. Visited(q) = T!Visit("deleting", t, {})
  BY FreshVisit
<1>4. Visits[r].stage = "idle"
  BY <1>1 DEF Visits
<1>5. T!Cardinality(T!KeysOf(t)) < SeedSize
  <2>1. T!KeysOf(t) = RowsOf(t)
    BY KeysAreRows
  <2>2. Cardinality(RowsOf(t)) < SeedSize
    BY DEF CountRows, Count
  <2> QED
    BY <2>1, <2>2, CardinalityIsOne
<1>6. UNCHANGED rows
  BY DEF CountRows
<1> HIDE DEF q
<1> QED
  BY <1>2, <1>3, <1>4, <1>5, <1>6 DEF T!Find

LEMMA DeleteDeletes ==
  ASSUME IInv, NEW r \in Readers, DeleteRows(r)
  PROVE  T!Delete(r)
<1> DEFINE t == reader[r].tenant
           q == [pc |-> "seeding", tenant |-> t, next |-> 1, staged |-> {}]
<1>1. reader' = [reader EXCEPT ![r] = q] /\ reader[r].pc = "deleting"
  BY DEF DeleteRows
<1>2. t \in Tenants
  BY <1>1 DEF IInv, TypeOK
<1>3. Visits' = [Visits EXCEPT ![r] = Visited(q)]
  BY <1>1, VisitSteps DEF IInv
<1>4. Visited(q) = T!Visit("seeding", t, {})
  BY FreshVisit
<1>5. Visits[r].stage = "deleting" /\ Visits[r].tenant = t
  BY <1>1 DEF Visits
<1>6. \E gone \in {{}, T!KeysOf(t)} :
        rows' = [i \in Ids |-> IF i \in gone THEN NoRow ELSE rows[i]]
  BY <1>2, KeysAreRows DEF DeleteRows
<1> HIDE DEF q, t
<1> QED
  BY <1>3, <1>4, <1>5, <1>6 DEF T!Delete

\* An INSERT that finds no row changes no visit; one that finds a row adds it
\* to the ids that are passed over.
LEMMA InsertVisits ==
  ASSUME NEW t, NEW n \in Nat \ {0}, NEW S, NEW pc, NEW k, k = <<t, n>>,
         S \subseteq {<<t, i>> : i \in 1 .. n - 1}
  PROVE  /\ Visited([pc |-> pc, tenant |-> t, next |-> n + 1,
                     staged |-> S \cup {k}])
              = Visited([pc |-> pc, tenant |-> t, next |-> n, staged |-> S])
         /\ Visited([pc |-> pc, tenant |-> t, next |-> n + 1, staged |-> S])
              = [stage |-> pc, tenant |-> t,
                 left |-> ({<<t, i>> : i \in 1 .. n - 1} \ S) \cup {k}]
<1> DEFINE Passed == {<<t, i>> : i \in 1 .. n - 1}
           Next1 == {<<t, i>> : i \in 1 .. (n + 1) - 1}
<1>1. Next1 = Passed \cup {k}
  <2>1. \A i : i \in 1 .. (n + 1) - 1 <=> i \in 1 .. n - 1 \/ i = n
    OBVIOUS
  <2> QED
    BY <2>1
<1>2. k \notin Passed
  <2> SUFFICES ASSUME NEW i \in 1 .. n - 1, k = <<t, i>> PROVE FALSE
    OBVIOUS
  <2>1. i = n
    OBVIOUS
  <2> QED
    BY <2>1
<1> HIDE DEF Passed, Next1
<1>3. /\ Next1 \ (S \cup {k}) = Passed \ S
      /\ Next1 \ S = (Passed \ S) \cup {k}
  <2>1. S \subseteq Passed
    BY DEF Passed
  <2> QED
    BY <1>1, <1>2, <2>1
<1>4. ASSUME NEW m, NEW U
      PROVE  Visited([pc |-> pc, tenant |-> t, next |-> m, staged |-> U])
               = [stage |-> pc, tenant |-> t,
                  left |-> {<<t, i>> : i \in 1 .. m - 1} \ U]
  BY DEF Visited
<1>5. /\ Visited([pc |-> pc, tenant |-> t, next |-> n + 1, staged |-> S \cup {k}])
           = [stage |-> pc, tenant |-> t, left |-> Next1 \ (S \cup {k})]
      /\ Visited([pc |-> pc, tenant |-> t, next |-> n + 1, staged |-> S])
           = [stage |-> pc, tenant |-> t, left |-> Next1 \ S]
      /\ Visited([pc |-> pc, tenant |-> t, next |-> n, staged |-> S])
           = [stage |-> pc, tenant |-> t, left |-> Passed \ S]
  BY <1>4 DEF Passed, Next1
<1>6. {<<t, i>> : i \in 1 .. n - 1} = Passed
  BY DEF Passed
<1> HIDE DEF Visited
<1> QED
  BY <1>3, <1>5, <1>6

LEMMA InsertVisit ==
  ASSUME IInv, NEW r \in Readers, InsertSeed(r)
  PROVE  [T!TNext]_(T!tvars)
<1> DEFINE t == reader[r].tenant
           n == reader[r].next
           S == reader[r].staged
           k == Seed(r, n)
           q1 == [pc |-> "seeding", tenant |-> t, next |-> n + 1,
                  staged |-> S \cup {k}]
           q2 == [pc |-> "seeding", tenant |-> t, next |-> n + 1, staged |-> S]
           q == [pc |-> "seeding", tenant |-> t, next |-> n, staged |-> S]
<1>1. /\ reader[r].pc = "seeding" /\ reader[r] \in ReaderRows /\ t \in Tenants
      /\ n <= SeedSize
  BY DEF InsertSeed, IInv, TypeOK
<1>2. n \in 1 .. SeedSize /\ n \in Nat \ {0}
  BY <1>1, PlansAssumption DEF ReaderRows
<1>3. S \subseteq {<<t, i>> : i \in 1 .. n - 1} /\ k = <<t, n>>
  BY DEF IInv, StagedPassed, Seed
<1>4. /\ Visited(q1) = Visited(q)
      /\ Visited(q2) = [stage |-> "seeding", tenant |-> t,
                        left |-> ({<<t, i>> : i \in 1 .. n - 1} \ S) \cup {k}]
  BY <1>2, <1>3, InsertVisits
<1>5. /\ Visited(q) = Visits[r]
      /\ Visits[r].stage = "seeding" /\ Visits[r].tenant = t
      /\ Visits[r].left = {<<t, i>> : i \in 1 .. n - 1} \ S
  BY <1>1, VisitsAre DEF Visited
<1>6. reader' = [reader EXCEPT ![r] = IF rows[k] = NoRow THEN q1 ELSE q2]
  BY DEF InsertSeed
<1>7. UNCHANGED rows
  BY DEF InsertSeed
<1>8. k \in SeedOf(t) /\ k \in Ids
  BY <1>1, <1>2, <1>3 DEF SeedOf, Ids, Seeds
<1>9. DOMAIN Visits = Readers /\ Visits = [s \in Readers |-> Visits[s]]
  BY DEF Visits
<1> HIDE DEF q1, q2, q, k
<1>10. CASE rows[k] = NoRow
  <2>1. Visits' = [Visits EXCEPT ![r] = Visited(q1)]
    BY <1>6, <1>10, VisitSteps DEF IInv
  <2>2. Visits' = Visits
    BY <1>4, <1>5, <1>9, <2>1
  <2> QED
    BY <1>7, <2>2 DEF T!tvars
<1>11. CASE rows[k] # NoRow
  <2>1. Visits' = [Visits EXCEPT ![r] = Visited(q2)]
    BY <1>6, <1>11, VisitSteps DEF IInv
  <2>2. Visited(q2) = T!Visit("seeding", t, Visits[r].left \cup {k})
    BY <1>4, <1>5 DEF T!Visit
  <2>3. T!LeaveOut(r, k)
    BY <1>1, <1>5, <1>7, <1>8, <1>11, <2>1, <2>2, SeedsAre DEF T!LeaveOut
  <2> QED
    BY <1>8, <2>3 DEF T!TNext
<1> QED
  BY <1>10, <1>11

LEMMA CommitAddsSeed ==
  ASSUME IInv, NEW r \in Readers, CommitSeeds(r)
  PROVE  T!AddSeed(r)
<1> DEFINE t == reader[r].tenant
           S == reader[r].staged
<1>1. /\ reader[r].pc = "seeding" /\ t \in Tenants
      /\ reader[r].next = SeedSize + 1
  BY DEF CommitSeeds, IInv, TypeOK
<1>2. S \subseteq SeedOf(t)
  BY <1>1, PlansAssumption DEF IInv, StagedPassed, SeedOf
<1>3. /\ Visits[r].stage = "seeding" /\ Visits[r].tenant = t
      /\ Visits[r].left = {<<t, i>> : i \in 1 .. (SeedSize + 1) - 1} \ S
  BY <1>1, VisitsAre DEF Visited
<1>4. {<<t, i>> : i \in 1 .. (SeedSize + 1) - 1} = SeedOf(t)
  BY PlansAssumption DEF SeedOf
<1>5. SeedOf(t) \ Visits[r].left = S
  BY <1>2, <1>3, <1>4
<1>6. \A i \in S : rows[i] = NoRow
  BY DEF IInv, StagedFree
<1>7. rows' = [i \in Ids |-> IF i \in S THEN [tenant |-> t, lineage |-> Genesis]
                             ELSE rows[i]]
  BY DEF CommitSeeds
<1>8. Visits' = [Visits EXCEPT ![r] = T!NoVisit]
  BY VisitSteps, IdleVisit DEF CommitSeeds, IInv
<1> HIDE DEF t, S
<1> QED
  BY <1>1, <1>3, <1>5, <1>6, <1>7, <1>8, SeedsAre DEF T!AddSeed

LEMMA RollBackGivesUp ==
  ASSUME IInv, NEW r \in Readers, RollBack(r)
  PROVE  T!GiveUp(r)
<1>1. Visits' = [Visits EXCEPT ![r] = T!NoVisit]
  BY VisitSteps, IdleVisit DEF RollBack, IInv
<1>2. Visits[r].stage = "seeding"
  BY DEF RollBack, Visits
<1> QED
  BY <1>1, <1>2 DEF RollBack, T!GiveUp

\* An execution that is logged under an id of ExecIds.
LEMMA InsertAdds ==
  ASSUME IInv, NEW i \in ExecIds, NEW t \in Tenants,
         NEW h \in Lineages(t) \cup {NoHash},
         Insert(i, [tenant |-> t, lineage |-> h]), UNCHANGED reader
  PROVE  [T!TNext]_(T!tvars)
<1>1. Visits' = Visits
  BY VisitsStay
<1>2. i \in Ids /\ rows \in [Ids -> Rows \cup {NoRow}]
  BY DEF Ids, IInv, TypeOK
<1>3. CASE rows[i] = NoRow
  <2>1. \A u \in Tenants : i \notin SeedOf(u)
    BY PlansAssumption DEF SeedOf, Seeds
  <2>2. [u \in Tenants |-> Lineages(u) \cup {NoHash}][t] = Lineages(t) \cup {NoHash}
    OBVIOUS
  <2>3. rows' = [rows EXCEPT ![i] = [tenant |-> t, lineage |-> h]]
    BY <1>2, <1>3 DEF Insert
  <2>4. T!Add(i)
    BY <1>1, <1>3, <2>1, <2>2, <2>3, SeedsAre DEF T!Add
  <2> QED
    BY <1>2, <2>4 DEF T!TNext
<1>4. CASE rows[i] # NoRow
  <2>1. UNCHANGED rows
    BY <1>2, <1>4 DEF Insert
  <2> QED
    BY <1>1, <2>1 DEF T!tvars
<1> QED
  BY <1>3, <1>4

LEMMA TableStep == IInv /\ [Next]_vars => [T!TNext]_(T!tvars)
<1> SUFFICES ASSUME IInv, [Next]_vars PROVE [T!TNext]_(T!tvars)
  OBVIOUS
<1>1. ASSUME NEW r \in Readers, NEW t \in Tenants, CountRows(r, t) PROVE T!TNext
  BY <1>1, CountFinds DEF T!TNext
<1>2. ASSUME NEW r \in Readers, DeleteRows(r) PROVE T!TNext
  BY <1>2, DeleteDeletes DEF T!TNext
<1>3. ASSUME NEW r \in Readers, CommitSeeds(r) PROVE T!TNext
  BY <1>3, CommitAddsSeed DEF T!TNext
<1>4. ASSUME NEW r \in Readers, RollBack(r) PROVE T!TNext
  BY <1>4, RollBackGivesUp DEF T!TNext
<1>5. ASSUME NEW a \in Applies, LogExecution(a) PROVE [T!TNext]_(T!tvars)
  <2>1. /\ apply[a].id \in ExecIds /\ apply[a].tenant \in Tenants
        /\ apply[a].lineage \in Lineages(apply[a].tenant)
    BY <1>5 DEF LogExecution, IInv, TypeOK, OwnLineage
  <2> QED
    BY <1>5, <2>1, InsertAdds DEF LogExecution
<1>6. ASSUME NEW t \in Tenants, NEW i \in ExecIds, NEW h \in HashesOf[t] \cup {NoHash},
             StoreEvent(t, i, h)
      PROVE  [T!TNext]_(T!tvars)
  BY <1>6, InsertAdds DEF StoreEvent, Lineages
<1>7. ASSUME NEW i \in ExecIds, NEW h \in HashesOf[Admin], Simulate(i, h)
      PROVE  [T!TNext]_(T!tvars)
  <2>1. Insert(i, [tenant |-> Admin, lineage |-> h]) /\ UNCHANGED reader
    BY <1>7 DEF Simulate, Insert
  <2> QED
    BY <2>1, InsertAdds, PlansAssumption DEF Lineages
<1>8. CASE UNCHANGED <<rows, reader>>
  BY <1>8, VisitsStay DEF T!tvars
<1> QED
  BY <1>1, <1>2, <1>3, <1>4, <1>5, <1>6, <1>7, <1>8, InsertVisit
     DEF Next, vars, ReadLineage, CheckApproval, Execute, ApplyFails, SetApproval

\* Everything that writes telemetry_logs implements the table its readers see:
\* of a seed they see nothing before its commit, and then all of it but for the
\* ids that had a row.
THEOREM WritersImplementTable == Spec => ImplementsTelemetryTable
<1>1. Init => T!TInit
  <2> SUFFICES ASSUME Init PROVE T!TInit
    OBVIOUS
  <2>1. Visits = [r \in Readers |-> Visited(NotReading)]
    BY VisitsAre DEF Init
  <2> QED
    BY <2>1, IdleVisit DEF Init, T!TInit
<1> QED
  BY <1>1, TableStep, Invariant, PTL DEF Spec, ImplementsTelemetryTable, T!TSpec
=============================================================================
