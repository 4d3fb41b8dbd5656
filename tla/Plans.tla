-------------------------------- MODULE Plans --------------------------------
(***************************************************************************)
(* The table telemetry_logs and those who share it: the dashboards that    *)
(* seed it (ensureSeeded and seedTenant of                                 *)
(* internal/repository/telemetry.go), ApplyPlan of                         *)
(* internal/handler/telemetry.go that reads its newest lineage hash and    *)
(* adds an execution, the telemetry worker and the traffic simulator.      *)
(*                                                                         *)
(* One action is one statement.  The INSERTs of a seeding are statements   *)
(* of one transaction: what they insert is invisible until the commit, and *)
(* an INSERT of an id that another transaction has inserted waits for it.  *)
(*                                                                         *)
(* A row is its tenant and its lineage hash.  Its timestamp is left out:   *)
(* events of the worker carry a timestamp of their own, so any row of a    *)
(* tenant may be its newest one.                                           *)
(***************************************************************************)
EXTENDS Naturals, FiniteSets

CONSTANTS
  Tenants,
  Admin,           \* "admin", the tenant of the simulator
  ExecIds,         \* execution ids of plans ("" without a header), events and
                   \* simulated traffic
  HashesOf,        \* tenant -> the lineage hashes its events carry
  Genesis,         \* "genesis", the lineage of a tenant without one
  NoHash,          \* "", the lineage of an event that carries none
  SeedSize,        \* the number of rows a tenant is seeded with, 1000
  SignatureLists,  \* the signature lists that plans are sent with
  Unpaired,        \* an entry of such a list that is not a pair
  Readers,         \* slots for the dashboards being read
  Applies,         \* slots for the plans being applied
  NoTenant, NoId, NoRow

\* fmt.Sprintf("exec_sim_%s_%d", tenantID, i): no two tenants share an id.
Seeds == Tenants \X (1 .. SeedSize)

Ids == ExecIds \cup Seeds

Lineages(t) == HashesOf[t] \cup {Genesis}

Hashes == (UNION {HashesOf[t] : t \in Tenants}) \cup {Genesis, NoHash}

ASSUME PlansAssumption ==
  /\ IsFiniteSet(Tenants)
  /\ Admin \in Tenants
  /\ IsFiniteSet(ExecIds)
  /\ SeedSize \in Nat
  /\ ExecIds \cap Seeds = {}
  /\ NoTenant \notin Tenants
  /\ NoId \notin Ids
  /\ NoRow \notin [tenant: Tenants, lineage: Hashes]
  /\ \A t \in Tenants : NoHash \notin HashesOf[t]
  /\ Unpaired \notin Hashes
  /\ Genesis # NoHash

VARIABLES
  rows,      \* telemetry_logs: execution_id -> the row, or NoRow
  approval,  \* tenant -> sre_approval_required in its workspace settings
  reader,    \* slot -> the dashboard request it serves
  apply      \* slot -> the plan it applies

vars == <<rows, approval, reader, apply>>

Rows == [tenant: Tenants, lineage: Hashes]

RowsOf(t) == {i \in Ids : rows[i] # NoRow /\ rows[i].tenant = t}

Count(t) == Cardinality(RowsOf(t))

\* INSERT ... ON CONFLICT (execution_id) DO NOTHING
Insert(i, row) ==
  rows' = [rows EXCEPT ![i] = IF @ = NoRow THEN row ELSE @]

\* pc: "deleting" (too few rows counted), "seeding" (in the transaction, with
\* the row number next to insert).
ReaderRows ==
  [pc: {"idle", "deleting", "seeding"}, tenant: Tenants \cup {NoTenant},
   next: 1 .. SeedSize + 1, staged: SUBSET Seeds]

NotReading == [pc |-> "idle", tenant |-> NoTenant, next |-> 1, staged |-> {}]

\* pc: "read" (the lineage hash is read), "approved" (signatures are right or
\* not wanted), "executed" (the DDL ran).  waived records that approval was
\* not required at some time since the request came.
ApplyRows ==
  [pc: {"idle", "read", "approved", "executed"},
   tenant: Tenants \cup {NoTenant}, id: ExecIds \cup {NoId}, lineage: Hashes,
   list: SignatureLists \cup {{}}, waived: BOOLEAN]

NotApplying == [pc |-> "idle", tenant |-> NoTenant, id |-> NoId,
                lineage |-> NoHash, list |-> {}, waived |-> FALSE]

Init ==
  /\ rows = [i \in Ids |-> NoRow]
  /\ approval = [t \in Tenants |-> TRUE]
  /\ reader = [r \in Readers |-> NotReading]
  /\ apply = [a \in Applies |-> NotApplying]

-----------------------------------------------------------------------------
(* Reading a dashboard.  A tenant with enough rows, or whose rows cannot be *)
(* counted, is only read; the rows that are shown are not modelled.         *)

\* Slip: the rows are seeded anew when there are just enough of them.
CountTooMany(r, t) ==
  /\ reader[r].pc = "idle"
  /\ Count(t) <= SeedSize
  /\ reader' = [reader EXCEPT ![r] =
       [pc |-> "deleting", tenant |-> t, next |-> 1, staged |-> {}]]
  /\ UNCHANGED <<rows, approval, apply>>

CountRows(r, t) ==
  /\ reader[r].pc = "idle"
  /\ Count(t) < SeedSize
  /\ reader' = [reader EXCEPT ![r] =
       [pc |-> "deleting", tenant |-> t, next |-> 1, staged |-> {}]]
  /\ UNCHANGED <<rows, approval, apply>>

\* Slip: the rows are numbered from 0.
DeleteThenZero(r) ==
  /\ reader[r].pc = "deleting"
  /\ reader' = [reader EXCEPT ![r] =
       [pc |-> "seeding", tenant |-> reader[r].tenant, next |-> 0,
        staged |-> {}]]
  /\ UNCHANGED <<rows, approval, apply>>

\* The DELETE takes the rows there are now; its error is ignored.
DeleteRows(r) ==
  /\ reader[r].pc = "deleting"
  /\ \E gone \in {{}, RowsOf(reader[r].tenant)} :
       rows' = [i \in Ids |-> IF i \in gone THEN NoRow ELSE rows[i]]
  /\ reader' = [reader EXCEPT ![r] =
       [pc |-> "seeding", tenant |-> reader[r].tenant, next |-> 1,
        staged |-> {}]]
  /\ UNCHANGED <<approval, apply>>

\* Slip: the rows are ranged over in an order that differs between requests.
SeedInAnyOrder(r, i) ==
  <<reader[r].tenant,
    IF r = CHOOSE first \in Readers : TRUE THEN SeedSize + 1 - i ELSE i>>

\* The row number i that seeding r inserts.
Seed(r, i) == <<reader[r].tenant, i>>

\* The INSERT of r meets a row that the open transaction of s has inserted.
Waits(r, s) ==
  /\ reader[r].pc = "seeding"
  /\ Seed(r, reader[r].next) \in reader[s].staged

\* Slip: each INSERT is a transaction of its own.
InsertAlone(r) ==
  /\ reader[r].pc = "seeding"
  /\ reader[r].next <= SeedSize
  /\ Insert(Seed(r, reader[r].next),
            [tenant |-> reader[r].tenant, lineage |-> Genesis])
  /\ reader' = [reader EXCEPT ![r] =
       [pc |-> "seeding", tenant |-> reader[r].tenant,
        next |-> reader[r].next + 1, staged |-> {}]]
  /\ UNCHANGED <<approval, apply>>

\* The next INSERT of the transaction; a committed row is left as it is.
InsertSeed(r) ==
  /\ reader[r].pc = "seeding"
  /\ reader[r].next <= SeedSize
  /\ \A s \in Readers : ~Waits(r, s)
  /\ reader' = [reader EXCEPT ![r] =
       [pc |-> "seeding", tenant |-> reader[r].tenant,
        next |-> reader[r].next + 1,
        staged |-> IF rows[Seed(r, reader[r].next)] = NoRow
                   THEN reader[r].staged \cup {Seed(r, reader[r].next)}
                   ELSE reader[r].staged]]
  /\ UNCHANGED <<rows, approval, apply>>

CommitSeeds(r) ==
  /\ reader[r].pc = "seeding"
  /\ reader[r].next = SeedSize + 1
  /\ rows' = [i \in Ids |->
       IF i \in reader[r].staged
       THEN [tenant |-> reader[r].tenant, lineage |-> Genesis]
       ELSE rows[i]]
  /\ reader' = [reader EXCEPT ![r] = NotReading]
  /\ UNCHANGED <<approval, apply>>

\* A statement of the transaction fails, or the client or the process is gone:
\* nothing of it is kept, and the dashboard is read without it.
RollBack(r) ==
  /\ reader[r].pc = "seeding"
  /\ reader' = [reader EXCEPT ![r] = NotReading]
  /\ UNCHANGED <<rows, approval, apply>>

-----------------------------------------------------------------------------
(* Applying a plan.                                                         *)

\* Slip: the SELECT does not look at tenant_id.
AnyLineage(t) ==
  ({rows[i].lineage : i \in {j \in Ids : rows[j] # NoRow}} \ {NoHash})
    \cup {Genesis}

\* What reading the newest lineage hash gives: one of a row that has one, or
\* Genesis, for a tenant without such a row and on every error.
LatestLineage(t) ==
  ({rows[i].lineage : i \in RowsOf(t)} \ {NoHash}) \cup {Genesis}

ReadLineage(a, t, i, list) ==
  /\ apply[a].pc = "idle"
  /\ \E h \in LatestLineage(t) :
       apply' = [apply EXCEPT ![a] =
         [pc |-> "read", tenant |-> t, id |-> i, lineage |-> h, list |-> list,
          waived |-> ~approval[t]]]
  /\ UNCHANGED <<rows, approval, reader>>

Become(a, pc) ==
  apply' = [apply EXCEPT ![a] =
    [pc |-> pc, tenant |-> apply[a].tenant, id |-> apply[a].id,
     lineage |-> apply[a].lineage, list |-> apply[a].list,
     waived |-> apply[a].waived]]

\* The loop over the signatures refuses no entry: every pair is signed over the
\* lineage hash that was read, and an entry that is not a pair is passed over.
NoneRefused(list, lineage) == list # {} /\ list \ {Unpaired} \subseteq {lineage}

\* Slip: settings that cannot be read do not require an approval.
ErrorWaives(t) == {approval[t], FALSE}

\* sre_approval_required as ApplyPlan finds it: TRUE when it cannot be read.
ApprovalRequired(t) == {approval[t], TRUE}

\* The settings are read and, if they require it, the signatures checked.
CheckApproval(a) ==
  /\ apply[a].pc = "read"
  /\ \E required \in ApprovalRequired(apply[a].tenant) :
       IF required => NoneRefused(apply[a].list, apply[a].lineage)
       THEN Become(a, "approved")
       ELSE apply' = [apply EXCEPT ![a] = NotApplying]
  /\ UNCHANGED <<rows, approval, reader>>

\* The engine compiles and verifies the plan (a CRITICAL risk is printed), and
\* the DDL runs on the target database.
Execute(a) ==
  /\ apply[a].pc = "approved"
  /\ Become(a, "executed")
  /\ UNCHANGED <<rows, approval, reader>>

LogExecution(a) ==
  /\ apply[a].pc = "executed"
  /\ Insert(apply[a].id,
            [tenant |-> apply[a].tenant, lineage |-> apply[a].lineage])
  /\ apply' = [apply EXCEPT ![a] = NotApplying]
  /\ UNCHANGED <<approval, reader>>

\* The engine or the target fails and the plan is given up; or the DDL ran and
\* only its row is missing, which is not an error; or the process is gone.
ApplyFails(a) ==
  /\ apply[a].pc # "idle"
  /\ apply' = [apply EXCEPT ![a] = NotApplying]
  /\ UNCHANGED <<rows, approval, reader>>

-----------------------------------------------------------------------------
(* Everybody else.                                                          *)

\* PATCH /workspaces/:id/settings; a body without the field sets it to FALSE.
SetApproval(t, required) ==
  /\ approval' = [approval EXCEPT ![t] = required]
  /\ apply' = [a \in Applies |->
       IF apply[a].tenant = t /\ ~required
       THEN [apply[a] EXCEPT !.waived = TRUE]
       ELSE apply[a]]
  /\ UNCHANGED <<rows, reader>>

\* The telemetry worker stores an event of tenant t.
StoreEvent(t, i, h) ==
  /\ Insert(i, [tenant |-> t, lineage |-> h])
  /\ UNCHANGED <<approval, reader, apply>>

\* The traffic simulator adds an execution; an id drawn twice is an error.
Simulate(i, h) ==
  /\ rows[i] = NoRow
  /\ rows' = [rows EXCEPT ![i] = [tenant |-> Admin, lineage |-> h]]
  /\ UNCHANGED <<approval, reader, apply>>

Next ==
  \/ \E r \in Readers, t \in Tenants : CountRows(r, t)
  \/ \E r \in Readers : DeleteRows(r)
  \/ \E r \in Readers : InsertSeed(r)
  \/ \E r \in Readers : CommitSeeds(r)
  \/ \E r \in Readers : RollBack(r)
  \/ \E a \in Applies, t \in Tenants, i \in ExecIds, list \in SignatureLists :
       ReadLineage(a, t, i, list)
  \/ \E a \in Applies : CheckApproval(a)
  \/ \E a \in Applies : Execute(a)
  \/ \E a \in Applies : LogExecution(a)
  \/ \E a \in Applies : ApplyFails(a)
  \/ \E t \in Tenants, required \in BOOLEAN : SetApproval(t, required)
  \/ \E t \in Tenants, i \in ExecIds : \E h \in HashesOf[t] \cup {NoHash} :
       StoreEvent(t, i, h)
  \/ \E i \in ExecIds, h \in HashesOf[Admin] : Simulate(i, h)

Spec == Init /\ [][Next]_vars

-----------------------------------------------------------------------------
(* Properties.                                                              *)

\* Rows, settings and requests have their types.
TypeOK ==
  /\ rows \in [Ids -> Rows \cup {NoRow}]
  /\ approval \in [Tenants -> BOOLEAN]
  /\ reader \in [Readers -> ReaderRows]
  /\ apply \in [Applies -> ApplyRows]
  /\ \A r \in Readers : reader[r].pc # "idle" => reader[r].tenant \in Tenants
  /\ \A a \in Applies : apply[a].pc # "idle" =>
       apply[a].tenant \in Tenants /\ apply[a].id \in ExecIds

\* The lineage a plan is checked against, and every row, has a hash of its own
\* tenant or none, never one of another tenant: whoever wrote the row and
\* however requests of several tenants interleave.
OwnLineage ==
  /\ \A i \in Ids :
       rows[i] # NoRow => rows[i].lineage \in Lineages(rows[i].tenant) \cup {NoHash}
  /\ \A a \in Applies :
       apply[a].pc # "idle" => apply[a].lineage \in Lineages(apply[a].tenant)

\* The list holds a pair signed over the lineage hash the plan was read with.
Signed(a) == apply[a].lineage \in apply[a].list

\* A plan that runs while its tenant requires approval, from before it is sent
\* until it has run, is signed ("Verify cryptographic signature", "executing
\* since plan is signed").  A list without a single pair shows otherwise.
RunsSigned ==
  \A a \in Applies :
    apply[a].pc = "executed" => apply[a].waived \/ Signed(a)

\* What holds instead, whatever read fails and however settings change: such a
\* plan is sent with a list, the list holds no wrong pair, and if it holds a
\* pair at all then the plan is signed.
RunsChecked ==
  \A a \in Applies :
    apply[a].pc = "executed" =>
      \/ apply[a].waived
      \/ Signed(a) /\ apply[a].list \subseteq {apply[a].lineage, Unpaired}
      \/ apply[a].list = {Unpaired}

\* Why it is so: the signatures are checked before anything else is done.
ApprovedChecked ==
  \A a \in Applies :
    apply[a].pc \in {"approved", "executed"} =>
      apply[a].waived \/ NoneRefused(apply[a].list, apply[a].lineage)

\* Why it is so: a plan in progress knows that approval is not required.
WaiverKnown ==
  \A a \in Applies :
    apply[a].pc # "idle" /\ ~approval[apply[a].tenant] => apply[a].waived

\* A seeding waits only for one that is further ahead: seedings that wait for
\* one another in a circle, which the database would have to break, are none.
NoCircularWait ==
  \A r, s \in Readers : Waits(r, s) => reader[r].next < reader[s].next

\* Why it is so: what a seeding has inserted are rows it has passed.
StagedPassed ==
  \A r \in Readers : reader[r].staged \subseteq
    {<<reader[r].tenant, i>> : i \in 1 .. reader[r].next - 1}

\* Rows of an open transaction are not in the table, nor in another one.
StagedFree ==
  \A r \in Readers : \A i \in reader[r].staged :
    /\ rows[i] = NoRow
    /\ \A s \in Readers \ {r} : i \notin reader[s].staged

\* An INSERT of the seeding waits.
Blocked(r) == \E s \in Readers : Waits(r, s)

\* However many seedings wait for one another, each waits in the end for one
\* that has got at least as far and that waits for nobody.
SeedingGoesOn ==
  \A r \in Readers : reader[r].pc = "seeding" =>
    \E s \in Readers : /\ reader[s].pc = "seeding"
                       /\ reader[r].next <= reader[s].next
                       /\ ~Blocked(s)

\* A tenant that has enough rows, and no dashboard has found it otherwise
\* and not yet deleted them.
Settled(t) ==
  /\ Count(t) >= SeedSize
  /\ \A r \in Readers : ~(reader[r].pc = "deleting" /\ reader[r].tenant = t)

SettledKept ==
  \A t \in Tenants : Settled(t) =>
    /\ \A i \in RowsOf(t) : rows'[i] = rows[i]
    /\ Settled(t)'

\* Once a tenant is settled its executions are never deleted or changed again,
\* and it stays settled: no dashboard seeds it anew, whatever others do.
SettledStays == [][SettledKept]_vars

\* Nobody changes a row: it is there as it was inserted until it is deleted.
RowKept == \A i \in Ids : rows[i] # NoRow => rows'[i] \in {rows[i], NoRow}

RowsUnchanged == [][RowKept]_vars

\* The ids of the seed that seeding r has passed over: they had a row.
PassedOver(r) == {Seed(r, i) : i \in 1 .. reader[r].next - 1} \ reader[r].staged

\* What the dashboards are to the table: its visitors.
Visits == [r \in Readers |-> [stage |-> reader[r].pc, tenant |-> reader[r].tenant,
                              left |-> PassedOver(r)]]

T == INSTANCE TelemetryTable WITH
       Keys <- Ids, Owners <- Tenants, Nobody <- NoTenant, SeedHash <- Genesis,
       HashesFor <- [t \in Tenants |-> Lineages(t) \cup {NoHash}],
       SeedsFor <- [t \in Tenants |-> {t} \X (1 .. SeedSize)],
       Few <- SeedSize, Visitors <- Readers, table <- rows,
       visit <- Visits

\* Dashboards, plans, worker and simulator implement the table: whatever overlaps,
\* a seed shows all at once, but for the ids that had a row when their turn came,
\* a commit replaces no row, nobody else writes a row of a seed, each row has a
\* hash of its tenant's, and only a tenant found with too few rows loses them.
ImplementsTelemetryTable == T!TSpec
=============================================================================
