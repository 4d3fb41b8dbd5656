# TLA+ models of nacl-cloud-go

This directory holds TLA+ specifications of the programs of this repository,
TLC configurations that check them on small instances, and proofs, checked by
TLAPS, that their safety properties hold for every value of the parameters.
`PROJECT.json` lists the runs, the theorems, the lines each definition models
and the hazards the properties are for.

## The system

`nacl-cloud` is an HTTP API (Fiber) over PostgreSQL; `nacl-telemetry-worker`
copies events from a Redis channel to the table the API reads;
`nacl-traffic-simulator` writes demo rows to it.  All state that matters is in
PostgreSQL: the processes share tables, not memory, and every request is a
sequence of statements between which other requests run.

| Component | State | Operations | What makes it correct | Model |
|---|---|---|---|---|
| Role table (`internal/auth`) | none | `IsAuthorized` | an operator others use | `Authorization` |
| Workspaces, members, invitations (`handler/workspace.go`, `repository/workspace.go`) | three tables | create and delete a workspace, add and remove members, invite, claim, revoke | an owner stays a member; a deleted workspace leaves no members; an address has one pending invitation per workspace, a settled one is out of use | `Workspaces`, `Directory`, `InvitationBook` |
| Sign-in (`middleware/auth.go`) | the same tables, the locals of a request | automatic acceptance, sandbox, choice of the workspace | every human has a workspace; what is accepted is pending | `Workspaces` |
| Settings and audit log | `workspaces.settings`, `workspace_settings_audit` | update, read | no change without its entry, in order | `SettingsAudit`, `AuditedSettings` |
| Pruner (`cmd/nacl-cloud/main.go`) | a goroutine, its context | a pass every 24 hours, shutdown | prunes old entries, all of them in the end, and no others | `SettingsAudit` |
| Recommendations (`service/telemetry.go`) | `index_recommendations`, the target schema | approve, reject | applied means tried; decisions are final | `Recommendations` |
| Telemetry worker (`cmd/nacl-telemetry-worker`) | semaphore, WaitGroup, struct pool, `telemetry_logs` | subscribe, dispatch, insert, shut down | rows are events; slots come back; shutdown ends | `TelemetryWorker`, `EventLog` |
| Telemetry store (`repository/telemetry.go`) | `telemetry_logs` | dashboards, seeding on first read | enough data is not lost by reading; seeds show at once; seedings do not deadlock | `Plans`, `TelemetryTable` |
| Plans (`handler/telemetry.go`) | lineage hash in `telemetry_logs`, the target database | plan, apply | a plan that needs an approval is refused for a wrong signature or an empty list, whatever fails; hashes stay with their tenant | `Plans` |
| JWKS cache (`middleware/auth.go`) | keys, time of the last fetch, a lock | look up, fetch | keys never step back; only new keys are refused; a key that stays is found | `JwksCache` |
| Hold queue (`handler/telemetry.go`, routes commented out) | the Redis list `nacl:hold_queue`, `telemetry_logs` | list, dispatch | an entry runs once, is not lost, and its row tells who ran it | `HoldQueue`, `HeldWork` |
| Migrations (start of the worker) | `schema_migrations`, the schema, an advisory lock | ping, run | each version once, in order, and its row with it; starts end | `Migrations`, `Upgrades` |
| Traffic simulator | `telemetry_logs` | insert a row | a writer of the store | `Plans` |
| User endpoints | `workspace_members`, `developers` | create, read | part of the membership | `CreateUser` of `Workspaces` |
| Engine client, database pool, configuration, wiring, generated protocol | none after the start | | | not modelled |

The hard parts are the windows between statements: a check and the write it
guards are nearly always two statements, often of two functions in two
packages, and the count of rows a write matched is not looked at.  Then come a
struct pool and a semaphore shared by goroutines, a shutdown that races with
the reader, rows that are re-issued under their old id, a cache filled by
fetches that overtake one another, workers that migrate one schema at once, and
a queue entry that is between two stores while its DDL runs.

## The modules

Each component has a specification; an `MC` module next to it with the
instances and symmetries for TLC, one `.cfg` per run; and a `Proofs` module.
Most have an abstract specification too, of what the component promises those
who do not see its statements; that it implements it is checked and proved.
Definitions named "Slip" are mistakes the code does not make; each
property is seen to fail when one takes the place of the definition it is a slip
of.

### Workspaces

`owner`, `members` and `invites` are the tables: `owner[w]` is the `owner_id`
of workspace `w` (`NoUser`: no row), `members[w][u]` a role or `NoRole`,
`invites[i]` the row of invitation `i`.  `spent` are the identifiers drawn so
far: `uuid.New()` is assumed not to draw one twice.  `request[r]` holds the
locals of the request in slot `r` between two statements, its `pc` says which
statement is next.

One action is one statement, or one transaction, of one request.  A
transaction is one action because its first statement locks the rows it
writes until the commit (Read Committed).  A request starts in the middleware
(`Arrive`, `AutoAccept`, `ProbeSandbox`, `CreateSandbox`, `Resolve`); then its
handler runs.  `RemoveChecksOwner`/`RemoveWorkspaceMember`,
`DeleteChecksOwner`/`DeleteWorkspace`, `InviteListsMembers`/
`InviteChecksOwner`/`InviteInserts` and `ClaimLooksUp`/`ClaimInvitation` are
the handlers that take several statements.  `FailRequest` is every error
answer and every read-only endpoint.

The schema is not in the repository.  Whether a member row of a deleted
workspace is refused, and whether deletion takes invitations along, are
therefore nondeterministic.  The `developers` table is abstracted to its
effect on `default_ws`.  A machine key makes requests as `m2m-agent` with a
workspace that need not exist; the header `x-clerk-user-id` may give that name
without a key.  A request with only an `x-tenant-id` has no user
(`ArriveWithoutUser`): `POST /users` and `CreateInvitation` serve it, the latter
where the owner it reads is empty, too (`OwnerReads`, `MayInvite`).  The empty
id is an id like others in `workspace_members`, as `POST /users` accepts it
(`UserIds`).  The email of a request is any or none: it comes from a token or a
header.  The order in which `CreateInvitation` visits its workspaces is any
order.

`Directory` is the abstract specification: workspaces begin once with their
owner as a member, roles are granted and dropped, an owner is never dropped,
some workspaces end.  `ImplementsDirectory` says that the statements of all
requests implement it, `founded` being refined by the ids drawn and the
sandboxes that exist.

`InvitationBook` is the same for the invitations and the seats they give: an
address is invited to a workspace (`Issue`) only while it has no pending
invitation there, and a pending one is renewed under its id with a token never
used (`Renew`).  Only pending, unexpired rows are read: a sign-in lists those of
its address (`List`), a claim looks one up (`LookUp`).  What is read is in a
`hand`, and is acted on once (`Accept`), for the person of that hand, row and
seat in one step.  The row may have changed in between, and the code lets the
holder have the seat all the same: a sign-in makes such a row accepted again, a
claim leaves a settled one alone.  The book says so, and that it ends there: no
hand takes up a settled row, and no other step touches it.

### SettingsAudit

`settings` and `audit` are the committed tables; `nextId` the sequence of log
ids; `clock` the time in days.  Here the transaction of an update IS split
(`BeginTx`, `UpdateRow`, `InsertAudit`, `Commit`, `Rollback`), because the
order of its lock and its id is the point: `UpdateRow` waits while another
transaction holds the row.  `worker` is the pruning goroutine; `StartPass` is
the five seconds or the ticker, `DeleteBatch` one `DELETE ... LIMIT 500`.
`Restart` is a crash or a restart of the process: open transactions roll back.
`overtaken` is history: the updates whose row somebody wrote after they had
read it, outside their transaction (`FetchOld`).

`AuditedSettings` is the abstract specification: each change of settings is one
step that adds its entry, with an id above the earlier ones of the workspace;
entries go by age or with their workspace.  Transactions, their rollbacks and
crashes do not show.

### Recommendations

`status` is the column of `index_recommendations`, `runs` how often the DDL of
a recommendation took effect, `tried` those whose DDL was sent and either took
effect or named something that does not exist, which the service tolerates.
An approval goes through `ReadPending`, `VerifySafety` (or `VerifyFails`: the
engine returns an error), `RunDDL` (or `TableMissing`) and `MarkApplied`; a
rejection is one `UPDATE`.

### TelemetryWorker

The reader (`reader`), the goroutines (`worker`), `main` and the structures
they share: the channel of the subscription (`feed`), the semaphore (`sem`),
the WaitGroup (`wg`), the struct pool (`pool`, `event`) and the table
(`rows`).  An event is its id, its tenant, one nested object and whether it
decodes; the two nested objects of the code behave alike and the other fields
are copied like these.  `GetEvent` and `PutEvent` are the pool, `Reset` and
`Merge` what `Reset()` and `json.Unmarshal` do to a struct that was used
before.  The pool may make a new struct at any time.  `Release` and `Finish`
are the two statements of the deferred function.  When `main` has exited no
goroutine takes a step.  `RowsStay`, which is proved, is about this program: the
API deletes rows when it seeds a tenant, which is modelled in `Plans`.

`EventLog` is the abstract specification: whole events are added under their own
ids, and the first to come stays.  Goroutines, pool, slots, redeliveries and
restarts do not show.

### Plans

`rows` is `telemetry_logs`, shared by the API, the worker and the simulator; a
row is its tenant and its lineage hash.  `reader[r]` is a dashboard request:
`CountRows`, `DeleteRows`, then the transaction of `seedTenant` with an
`InsertSeed` for each row and `CommitSeeds` or `RollBack`.  What it has
inserted (`staged`) is invisible to others, but an INSERT of the same id waits
for the transaction (`Waits`).  `apply[a]` is a `POST /apply`: `ReadLineage`,
`CheckApproval`, `Execute`, `LogExecution`; `ApplyFails` is every early end.
A signature list is the set of its entries, an entry the lineage hash it is
signed over, a value for one that verifies over none, or `Unpaired`, an entry
that does not have two elements.  `NoneRefused` is the loop of the code over
them; `Signed`, which only properties use, is that an entry is signed over the
hash that was read.
`SetApproval` is what an update of the settings does to
`sre_approval_required`.  `waived` is history: it notes that approval was not
required at some time since the request came.

Timestamps are left out: an event's is its own, so the newest row of a tenant
is any of them.  `CreatePlan` only reads and is not modelled; clients sign over
any hash.  Execution ids that clients choose are assumed to differ from those
of seeded rows, and the engine's hashes are told apart by tenant (`HashesOf`).

`TelemetryTable` is the abstract specification of what readers see: executions
come one by one, under ids that are in nobody's seed, and do not change.  A
visitor (`visit`) that has found a tenant with too few rows may delete what rows
it has then, passes over ids of the seed only where it meets a row (`LeaveOut`),
and adds all others in one step (`AddSeed`), or gives up and adds none.  The
rows of an open transaction do not show; `PassedOver` tells from a seeding's
place in its loop what it leaves out.

### JwksCache

`cache` is `jwksKeys` with the version of the key set it was built from, `age`
is `time.Since(lastFetch)`, counted in ticks up to `Window`, the five minutes
("longer ago" is one value).  `request[r]` is between two critical sections of
`getPublicKey` and `fetchJWKS`: `Lookup` and `LookupAgain` are its two lookups,
`CheckRecent` and `Store` the two checks of the time, `Answer` and `FetchFails`
the HTTP request between them, outside the lock.  `Rotate` replaces the set at
the endpoint; it may be empty or hold keys that are no RSA keys (`Usable`).
`busy` bounds how long a request may be under way: the client's timeout of five
seconds, so `FetchTime` is below `Window`.  That is an assumption about the
scheduling of goroutines, which Go does not bound, but 295 seconds is a wide
margin.  An answer with status 200 is assumed to be the key set: the JSON `{}`
would be stored as an empty one, as the set that `Rotate` may leave empty is.
`tenure[k]` notes how long a key has been served without a break.

### Migrations

`schema` is the list of the files whose SQL is committed, `registered` the rows
of `schema_migrations`, `lock` the session that holds the advisory lock,
`worker[w]` a worker between two statements: the pings of `dbPingRetry`, then
`BeginTx`, `AcquireLock`, `CreateTable`, `ReadDir`, and for each file `Skip` or
`Find`, `Execute` and `Register`, then `Commit`.  What a transaction has done
(`ran`, `listed`) is visible to it only.  `Fails` is an error of any statement
or the end of the 30 seconds: a rollback and `log.Fatalf`.  After `Crash` the
session of the dead process may hold the lock (`Gone`) until PostgreSQL ends it
(`EndSession`).  `CommitUnanswered` is a COMMIT that was made and whose answer
was lost.  Workers may have different files, two files the same number.  The
migrations themselves are not in this repository (`findMigrationsPath` looks for
them next to it); a file is assumed to hold no COMMIT of its own.

`Upgrades` is the abstract specification: the schema grows, in one step, by the
missing versions of one directory in ascending order.

### HoldQueue

`queue` is the Redis list, front first, `runs` how often the DDL of an entry
took effect, `log` the tenant in the row of an execution id (written once, by ON
CONFLICT), `dispatch[d]` a `POST .../dispatch` between two commands: `Find`
(LRANGE and the loop over it, with the checks), `Remove` (LREM), `Execute`,
`LogManualDispatch`, and `PushBack` (LPUSH) when one of the last two fails.
Each may fail without its effect or after it.  `Crash` loses what the request
has in hand.  `Hold` is the scheduler, which is not in this repository: it is
assumed not to hold a payload again of which something is left.  `excused` is
history: entries that two requests had at once, or that were put back although
their DDL had taken effect.

`HeldWork` is the abstract specification: a set of held entries.  An entry runs
once; only one that two requests have (`Share`), or that is put back after its
run, may run again; a request that fails at the wrong moment loses it; the row
of an execution is written once, after a run and for its owner.

## What is checked

| Run | Instance | Shows |
|---|---|---|
| `members` | a human and the machine key, for 1 shared workspace and 1 sandbox that need not exist, requests without a user, 2 requests, 1 invitation to two workspaces, `POST /users` | `OwnerIsMember`, `SandboxFound`, `Consistent` (the inductive invariant, `TypeOK` among others), `ImplementsDirectory`: removals, deletions (with and without cascade), creations and invitations that overlap |
| `invitations` | 2 users, requests without one, 2 invitations, 2 spellings of an address, 2 requests | `ImplementsInvitationBook` over sign-in, claim, re-invitation, revocation, new members, expiry |
| `settings_log` | 1 workspace, 2 updates, 2 values, 3 days, 2 log ids | `TypeOK`, `ImplementsAuditedSettings`, `PruneSparesRecent`, `UnlessOvertaken` |
| `settings_worker` | 1 update at a time, 3 days, fairness | `OldEntriesGo` |
| `recommendation_decisions` | 3 recommendations (plain, without DDL, critical), 3 approvals | `TypeOK`, `AppliedWasTried`, `DecisionsAreFinal` |
| `recommendation_rejected` | the same | `RejectedStaysRejected`, which does not hold (see below) |
| `plans` | 2 tenants, 2 seeded rows, 1 other execution id, 2 dashboards, 1 plan | `TypeOK`, `OwnLineage`, `RunsChecked`, `NoCircularWait`, `SettledStays`, `ImplementsTelemetryTable` |
| `plans_unsigned` | the same | `RunsSigned`, which does not hold (see below) |
| `telemetry_worker` | 2 goroutines, 2 slots, 2 structs, 3 deliveries of 3 events, fairness | `TypeOK`, `OwnContents`, `ImplementsEventLog`; `SlotsComeBack`, `ShutdownEnds` |
| `jwks_cache` | 2 requests, 3 key ids of which 2 usable, one rotation, window of 2 ticks, fairness | `TypeOK`; `NoStepBack`, `RefusedIsNew`, `ServedIsFound` |
| `migrations_start` | 3 workers, 2 images, 4 files of which 2 have one number, 2 pings, fairness | `TypeOK`, `NoConflict`, `RegisteredWasApplied`, `ServesMigrated`, `ImplementsUpgrades`; `StartEnds`, `StartSucceeds` |
| `hold_queue` | 3 dispatches, 3 payloads of one execution id (one without a tenant, one without SQL), 2 tenants | `TypeOK`, `ImplementsHeldWork`, `RunsOnce`, `CopiesBounded`, `NoneLost` |

The bounds are the smallest at which the interesting case happens.  Two requests
are enough for a window of two statements; an invitation that names no workspace
goes to the active one, which is a list of one; three days with a retention of
one tell an entry that is kept from one on the boundary and one past it; a batch
of one makes a pass take several batches; the third delivery meets a full
semaphore, or a goroutine that has returned its slot and not yet called `Done`,
or a struct that the first two left in the pool; two seeded rows are a tenant
with too few, with a part of them and with just enough, and one execution id is
drawn by the plan and by an event.  Two requests with one rotation between their
fetches are an answer that is overtaken, and the window of two ticks a key that
is looked up before, at and after its end; three workers are one that migrates,
one that waits and one that has died holding the lock; three dispatches are one
more than needed for two copies of an entry.  `MaxTime`, `MaxId`, `MaxRuns`,
`MaxDeliveries`, `FeedSize` and `MaxVersion` bound counters and are named in the
modules; the proofs hold for any of their values (`MaxPings` is 10 in the code
and 2 in the run).  `hold_queue` does not check deadlock: when every entry is
done or lost nothing may be left to do.  Symmetric slots, goroutines and structs
are declared so where a run checks no liveness.

### Known deviations

The run `recommendation_rejected` checks a message the code does not keep,
"Successfully rejected recommendation": an approval under way runs the DDL, if
the recommendation has any, and marks it applied after it was rejected.  The run
`plans_unsigned` checks what the comments in `ApplyPlan` say, "Verify
cryptographic signature" (`handler/telemetry.go:466`) and "executing since plan
is signed by trusted SRE identity" (515): a list whose entries are no pairs
passes the loop (472), and the plan runs.  TLC's counterexamples are the
sequences of statements.

More of the same kind is in the models without a run of its own.  Inviting an
address again keeps the old row's id, so the id answered names no row and
revoking it changes nothing, though the answer is "Invitation successfully
revoked" (`handler/workspace.go:616`, `repository/workspace.go:342`).  The
worker's reader may start a goroutine after `wg.Wait()` returned, which then is
not waited for (`nacl-telemetry-worker/main.go:187`), and the second event
without an id is dropped by ON CONFLICT though "Telemetry log saved" is logged
(427).  The role in the locals was read by the middleware: an Admin removed
since then still adds and removes in the request in progress
(`handler/workspace.go:110`).  `CreateInvitation` compares the caller with the
owner it read, and ignores that it read none (`handler/workspace.go:424`): a
request without a user passes the comparison when there is no such row or the
read fails.  `POST /users` takes an empty id (`repository/user.go:31`).
`AutoAccept` accepts, and grants the role of, an invitation that was revoked,
renewed or accepted after the middleware listed it: its UPDATE matches the id
only (`middleware/auth.go:496`).  `ClaimInvitation` makes the caller a member,
with the role read at the lookup, whatever its UPDATE matched
(`repository/workspace.go:374`).  `InviteRefused` refuses an SRE although the
comment above the check says "Admin/SRE or owner" (`handler/workspace.go:437`).
`FetchOld` reads the old settings outside the transaction, so two overlapping
updates log the same old values (`repository/workspace.go:223`), which
`UnlessOvertaken` confines to updates that overlap.  `VerifyFails` lets critical
DDL through when the engine returns an error, although the comment says "Make
the gRPC safety check call before applying the DDL!"
(`service/telemetry.go:69`).  A dashboard deletes the executions of a tenant
that has fewer than 1000 rows, plans that ran included, and a plan logs the
lineage hash it was signed over, so only events move the lineage.  A plan whose
execution id is in the table already (two without the header `x-execution-id`,
say) runs and leaves no row.  With three dashboards of one tenant a seeding may
commit fewer than 1000 rows.  Two plans signed over one hash both run, and so
does one plan sent twice.  An approval whose UPDATE fails leaves the
recommendation pending, and the next one runs its DDL again.  Of two migration
files that begin with the same number the second is never run and nothing is
logged (`nacl-telemetry-worker/main.go:322`): `schema_migrations` knows
versions, and the properties of `Migrations` speak of these.  A key that is
rotated out is accepted until a token with an uncached key id causes a fetch:
nothing else refreshes the cache.  Failed fetches, and fetches while no key is
cached, are not limited (`middleware/auth.go:98`).  Two dispatches of one
hold-queue entry both run its DDL, as the count of LREM is not looked at
(`handler/telemetry.go:327`), and may both push it back; an entry whose row
could not be written is pushed back although its DDL ran (343); one that is in
hand when the process dies or LPUSH fails is lost (336); and one behind another
tenant's entry of the same execution id cannot be dispatched (307).
`ImplementsInvitationBook`, `ImplementsAuditedSettings`, `RunsChecked`,
`SettledStays`, `RunsOnce` and `NoneLost` say what does hold in their place.

### Fairness

`Workspaces`, `Recommendations`, `Plans` and `HoldQueue` state safety only:
nothing makes a client call.  `SettingsAudit!FairSpec`: the timers fire (strong
fairness of `StartPass`, which a restart disables), and DELETEs do not fail
every time (strong fairness of `DeleteBatch`, which a failing pass disables).
`TelemetryWorker!FairSpec`: goroutines and main are scheduled, and an INSERT
ends by its five-second timeout (weak fairness); a `select` that finds
`ctx.Done()` ready again and again takes it (strong fairness of `ReaderStops`).
Nothing forces Redis to deliver, a signal to come or a restart to happen; the
properties hold whether they do or not.  `JwksCache!FairSpec`: time passes, and
each step of a request is taken in the end although a restart may end the
request; not every fetch fails (strong fairness of `Answer`), and not every
request that has its answer is interrupted before it stores it (of `Store`).
`Migrations!FairSpec`: a process runs and a statement ends, by its result or its
timeout (weak fairness of `Step`), a worker that waits for a lock that is free
again and again gets it (strong fairness of `AcquireLock`), and PostgreSQL
notices a dead client (weak fairness of `EndSession`).  Failures, kills and
starts are not forced; `StartSucceeds` says what follows when failures cease and
the worker is started again.

## What is proved

All theorems are for any sets of users, workspaces, requests, events and
goroutines, under the assumptions named in the modules, which every run
evaluates.  Assumed finite are what there are finitely many of: goroutines,
pooled structs, dispatches, approvals, tenants, execution ids and migration
files.  `TelemetryWorker` assumes as many structs as slots, since `sync.Pool`
makes one whenever it has none.

Every state and action property that a passing run checks is a theorem, and so
is every refinement.  The refinements are proved step by step: initial states to
initial states, each action to a step of the abstract specification or a
stutter.

* `WorkspacesProofs`.  `AlwaysConsistent` is the inductive invariant
  `Consistent`; `OwnerIsMember` alone is not inductive, because a removal that
  has passed its check may meet a workspace founded or deleted since.  The
  strengthening says what the locals of every request still mean: the workspace
  of a removal was founded (so an owner cannot appear later) and its owner is
  not the subject, a sandbox's owner is a user it is named after, an id with an
  invitation was drawn.  From it follow `TypeCorrect`, `OwnerStaysMember`,
  `SandboxAlwaysFound` (if no two users share a sandbox: ids that differ in
  "user_" only would) and `TablesImplementDirectory`.  `InvitesImplementBook`
  needs `InvitesDistinct`, or an upsert would renew two rows; that in turn holds
  because every step is a step of the book, so the two are proved together.
  `SettledIsFinal` is then a fact about the book: no request comes to hold a
  settled row, and only a sign-in that had listed it before may still change
  it.  The maps of hands and seats are shown to change pointwise, slot by slot,
  as the requests do.
* `SettingsAuditProofs`.  `Sound` is `TypeOK`, `EntriesInOrder` and
  `CutoffIsPast`.  `EntriesInOrder` carries the argument: whoever has updated
  the row holds its lock, so the id it draws is above all committed ones and
  nobody commits before it.  `EveryChangeIsLogged` and `RecentEntriesStay` are
  action properties proved from it.  `SettingsAreAudited` also needs that no two
  entries, committed or in a transaction, have one id.  `Timed` adds, for
  updates that nobody overtook, that the old settings are current and the
  entries of the workspace older than BEGIN; `OvertakenOnly` follows.
* `RecommendationsProofs`.  The invariant says that an approval with nothing
  left but its UPDATE has tried its DDL; `AppliedAfterDDL` follows.
  `FinalDecisions` bounds what may still happen after a decision: the approvals
  that had read the row before it are fewer with each run of the DDL, so each
  runs it at most once, and when none is left nothing changes.
* `TelemetryWorkerProofs`.  The invariant is a conjunction of which the run
  checks what the rest is for: slots are counted by the sets of goroutines
  (cardinalities, by the library's theorems), structs are unshared, a struct
  holds nothing after `Reset` and its goroutine's payload after
  `json.Unmarshal`, and hence every row is one event.  The conjuncts need each
  other: the contents of a struct stay only because no other goroutine has it,
  and the two counters do not fall below zero only because they count sets.
  `WorkerImplementsEventLog` and `StoredRowsStay` follow.
* `PlansProofs`.  The invariant adds four facts to what the run checks: a plan
  in progress knows when approval is not required (`WaiverKnown`), one that goes
  on has passed the loop over its signatures (`ApprovedChecked`), a seeding has
  inserted only rows it has passed (`StagedPassed`), and what an open
  transaction has inserted is in no table and no other transaction
  (`StagedFree`).  The first two give `PlansRunChecked`, which is weaker than
  `RunsSigned` and says by how much.  The third gives `SeedingsDoNotDeadlock`:
  who waits is behind whom it waits for.  The fourth gives `RowsAreKept`: a
  commit replaces nothing.  With the third it gives `WritersImplementTable`: at
  the commit the rows inserted and the ids passed over are together the whole
  seed, so what the commit adds is what the visitor of the table adds in its one
  step.  `SettledTenantsStay` combines `RowsAreKept` with the count: a row is
  deleted only by a dashboard that is past its count, and none gets there while
  the count, a cardinality that only grows, is at the bound.
* `JwksCacheProofs`.  The invariant says what answers and cache must hold, by
  the age of either: an answer has every key served throughout its request
  (`AnswersComplete`), a cache that is not due every key served since before its
  fetch (`CacheComplete`), and a request at its second lookup finds what was
  served for the window and as long as requests last (`SecondLookupComplete`).
  `OvertakenLately` gives `KeysNeverStepBack`: an answer older than the cache
  was overtaken while its request was under way, so the cache is recent and the
  second check discards it.
* `MigrationsProofs`.  Who is past the lock holds it, and the others have done
  nothing (`Exclusive`).  In the loop, what the transaction has done is an
  ascending list of missing files (`RanMissing`), the files left are above it
  (`LeftIsAbove`), and every version of the directory is left, done or
  registered (`NoneForgotten`).  The commit is then one step of `Upgrades`, and
  every other step a stutter (`WorkersImplementUpgrades`).
* `HoldQueueProofs`.  What a request has in hand was found for its owner and has
  run when the row is due (`HandsTold`); an entry that is not excused is in one
  place, and before its run nowhere else (`OnePlace`).  Copies are counted by
  the sets of positions and of requests, LREM and LPUSH trading one for the
  other.  `QueueImplementsHeldWork` needs, besides, that what a request has
  found stays held, by the list or in hand, unless another request shares it.

Of liveness the prover reaches the half that is safety: that there is always
somebody who can go on, and that going on gets nearer to the end.

* `NobodyIsStuck`, `LocksAreUsed` and `StartsOnlyGetNearer` (`Migrations`): a
  worker that is starting can take a step, or the lock it waits for is with one
  that can, or with a dead session; and each of its steps leaves fewer
  statements to do.
* `NothingEverBlocks` (`TelemetryWorker`): a goroutine always finds the struct,
  the slot and the counter that its next statement needs, and the reader waits
  only for a slot that a goroutine holds.
* `SeedingsGoOn` (`Plans`): whoever a seeding waits for, along the chain there
  is one at least as far that waits for nobody.  It is the one with the greatest
  row number, as waiting goes from smaller to greater.

The arguments by the least or greatest element use the library's theorem that a
well-founded relation has minimal elements.

Proved without being listed in a run of their own are the invariants the checked
properties rest on (`TypeOK` of `Workspaces`, which is part of `Consistent`,
`InvitesDistinct`, `EntriesInOrder`, `SlotsHeld`, `EventsUnshared`), what
follows from a refinement that is checked (`SettledStaysSettled`,
`ChangesAreLogged`, `RowsAreEvents`, `RowsStay`, `RowsUnchanged`,
`LogTellsRuns`), and the safety halves above.

Only model-checked: the liveness properties (`OldEntriesGo`, `SlotsComeBack`,
`ShutdownEnds`, `ServedIsFound`, `StartEnds`, `StartSucceeds`), as fairness and
ENABLED are outside the prover's reach, and the deviation above.

## What is not modelled

Wording, formats, HTTP details, validation of names and numbers, the durations
of timeouts and backoffs (their ends are steps that may come at any time), and
the components marked so above.  Durability of PostgreSQL, its locks and its
sequences are taken as documented by PostgreSQL.  Two replicas of the API are
not told from two requests of one; two pruners at once are not modelled.

## Plan

Order: first the tables most requests write, then what runs unattended.

1. Done: `Authorization`, `Workspaces` with `Directory` and `InvitationBook`,
   `SettingsAudit` with `AuditedSettings`, `Recommendations`, `TelemetryWorker`
   with `EventLog`, and their proofs.
2. Done: `Plans`, the table `telemetry_logs` with its seeding, plans and the
   simulator, with `TelemetryTable`.  Left: the worker's goroutines composed
   with it (a step of `EventLog` is a step `Add` of `TelemetryTable`, but a log
   that only grows is not a table that is also cleared).
3. Done: `JwksCache`, `Migrations` with `Upgrades`, `HoldQueue` with `HeldWork`,
   and their proofs.
4. Left: the parsing of tokens (`Authenticate` before the key is looked up), and
   `HoldQueue` composed with `Plans`, with which it shares `telemetry_logs`.
5. Left: the safety halves of `OldEntriesGo` and `ServedIsFound` (each batch of
   a pass and each stored answer gets nearer), and abstract specifications of
   `Recommendations` and `JwksCache`.
