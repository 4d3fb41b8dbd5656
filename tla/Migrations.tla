------------------------------ MODULE Migrations ------------------------------
(* The start of nacl-telemetry-worker: dbPingRetry and runMigrations, by any  *)
(* number of workers at once.  A step is one statement of the migration       *)
(* transaction.  Statements fail, the 30 seconds run out, processes die, and  *)
(* PostgreSQL may notice only later that a client is gone.                    *)
EXTENDS Integers, Sequences, FiniteSets

CONSTANTS
  Workers,
  Files,         \* the migration files of all images
  VersionOf,     \* the number that a file's name begins with
  MigrationsOf,  \* the files in the directory of each worker
  MaxPings,      \* attempts of dbPingRetry: 10
  NoWorker, Gone, \* nobody, and a session whose client has died
  NoFile

ASSUME FilesAssumption ==
  /\ IsFiniteSet(Files) /\ VersionOf \in [Files -> Int]
  /\ MigrationsOf \in [Workers -> SUBSET Files]
ASSUME PingsAssumption == MaxPings \in Nat \ {0}
ASSUME SessionsAssumption ==
  /\ NoWorker \notin Workers /\ Gone \notin Workers /\ NoWorker # Gone
  /\ NoFile \notin Files

VARIABLES
  schema,      \* the files whose SQL was committed, in that order
  registered,  \* schema_migrations, or NoTable
  lock,        \* the session that holds the advisory lock
  worker       \* the workers between two statements

vars == <<schema, registered, lock, worker>>

-----------------------------------------------------------------------------
Versions == {VersionOf[f] : f \in Files}

\* The versions of a list of files.
Applied(s) == {VersionOf[s[i]] : i \in DOMAIN s}

Starting == {"ping", "begin", "lock"}
Locked == {"table", "files", "next", "execute", "register"}

\* ran and listed are what the transaction has done: the SQL of files, rows of
\* schema_migrations.
WorkerRows == [pc : {"down", "running"} \cup Starting \cup Locked,
               pings : 0..MaxPings, todo : SUBSET Files, file : Files \cup {NoFile},
               ran : Seq(Files), listed : SUBSET Versions]

At(pc, pings) ==
  [pc |-> pc, pings |-> pings, todo |-> {}, file |-> NoFile, ran |-> <<>>,
   listed |-> {}]

Doing(pc, todo, file, ran, listed) ==
  [pc |-> pc, pings |-> 0, todo |-> todo, file |-> file, ran |-> ran,
   listed |-> listed]

TypeOK ==
  /\ schema \in Seq(Files)
  /\ registered \subseteq Versions
  /\ lock \in Workers \cup {NoWorker, Gone}
  /\ worker \in [Workers -> WorkerRows]

Init ==
  /\ schema = <<>>
  /\ registered = {}
  /\ lock = NoWorker
  /\ worker = [w \in Workers |-> At("down", 0)]

Become(w, row) == worker' = [worker EXCEPT ![w] = row]

-----------------------------------------------------------------------------
(* dbPingRetry.                                                              *)

Start(w) ==
  /\ worker[w].pc = "down"
  /\ Become(w, At("ping", 0))
  /\ UNCHANGED <<schema, registered, lock>>

Ping(w) ==
  /\ worker[w].pc = "ping"
  /\ Become(w, At("begin", 0))
  /\ UNCHANGED <<schema, registered, lock>>

\* Slip of PingFails: the attempts begin anew.
PingForever(w) ==
  /\ worker[w].pc = "ping"
  /\ Become(w, At("ping", IF worker[w].pings + 1 < MaxPings
                          THEN worker[w].pings + 1 ELSE 0))
  /\ UNCHANGED <<schema, registered, lock>>

\* After the last attempt the process ends.
PingFails(w) ==
  /\ worker[w].pc = "ping"
  /\ Become(w, IF worker[w].pings + 1 < MaxPings
               THEN At("ping", worker[w].pings + 1) ELSE At("down", 0))
  /\ UNCHANGED <<schema, registered, lock>>

-----------------------------------------------------------------------------
(* runMigrations.                                                            *)

BeginTx(w) ==
  /\ worker[w].pc = "begin"
  /\ Become(w, At("lock", 0))
  /\ UNCHANGED <<schema, registered, lock>>

\* Slip of AcquireLock: pg_try_advisory_xact_lock, its answer ignored.
AcquireAnyway(w) ==
  /\ worker[w].pc = "lock"
  /\ lock' = IF lock = NoWorker THEN w ELSE lock
  /\ Become(w, At("table", 0))
  /\ UNCHANGED <<schema, registered>>

\* pg_advisory_xact_lock.
AcquireLock(w) ==
  /\ worker[w].pc = "lock"
  /\ lock = NoWorker
  /\ lock' = w
  /\ Become(w, At("table", 0))
  /\ UNCHANGED <<schema, registered>>

\* The 30 seconds end while the worker waits for the lock.
WaitTimesOut(w) ==
  /\ worker[w].pc = "lock"
  /\ Become(w, At("down", 0))
  /\ UNCHANGED <<schema, registered, lock>>

\* CREATE TABLE IF NOT EXISTS: without rows the table is not told from none.
CreateTable(w) ==
  /\ worker[w].pc = "table"
  /\ Become(w, At("files", 0))
  /\ UNCHANGED <<schema, registered, lock>>

\* The directory, without what is no numbered .sql file.
ReadDir(w) ==
  /\ worker[w].pc = "files"
  /\ Become(w, Doing("next", MigrationsOf[w], NoFile, <<>>, {}))
  /\ UNCHANGED <<schema, registered, lock>>

\* Slip of Visits: the files are not sorted.
VisitsAny(w, f) == f \in worker[w].todo

\* The file that the sorted loop visits now; two of one version in any order.
Visits(w, f) ==
  /\ f \in worker[w].todo
  /\ \A g \in worker[w].todo : VersionOf[f] <= VersionOf[g]

\* SELECT EXISTS, which sees what is committed and what the transaction wrote.
Exists(w, f) == VersionOf[f] \in registered \cup worker[w].listed

Skip(w, f) ==
  /\ worker[w].pc = "next"
  /\ Visits(w, f)
  /\ Exists(w, f)
  /\ Become(w, Doing("next", worker[w].todo \ {f}, NoFile,
                  worker[w].ran, worker[w].listed))
  /\ UNCHANGED <<schema, registered, lock>>

Find(w, f) ==
  /\ worker[w].pc = "next"
  /\ Visits(w, f)
  /\ ~Exists(w, f)
  /\ Become(w, Doing("execute", worker[w].todo \ {f}, f,
                  worker[w].ran, worker[w].listed))
  /\ UNCHANGED <<schema, registered, lock>>

\* Slip of Execute: an error of the SQL is lost, as of an err declared anew.
ExecuteOrNot(w) ==
  /\ worker[w].pc = "execute"
  /\ \E ran \in {worker[w].ran, Append(worker[w].ran, worker[w].file)} :
       Become(w, Doing("register", worker[w].todo, worker[w].file, ran,
                       worker[w].listed))
  /\ UNCHANGED <<schema, registered, lock>>

\* The SQL of the file.
Execute(w) ==
  /\ worker[w].pc = "execute"
  /\ Become(w, Doing("register", worker[w].todo, worker[w].file,
                  Append(worker[w].ran, worker[w].file), worker[w].listed))
  /\ UNCHANGED <<schema, registered, lock>>

\* Slip of Register: the file instead of its version.
RegisterFile(w) ==
  /\ worker[w].pc = "register"
  /\ ~Exists(w, worker[w].file)
  /\ Become(w, Doing("next", worker[w].todo, NoFile, worker[w].ran,
                  worker[w].listed \cup {worker[w].file}))
  /\ UNCHANGED <<schema, registered, lock>>

\* INSERT INTO schema_migrations; the version is its primary key.
Register(w) ==
  /\ worker[w].pc = "register"
  /\ ~Exists(w, worker[w].file)
  /\ Become(w, Doing("next", worker[w].todo, NoFile, worker[w].ran,
                  worker[w].listed \cup {VersionOf[worker[w].file]}))
  /\ UNCHANGED <<schema, registered, lock>>

\* Slip of CommitTx: pg_advisory_lock, which the session of a worker that runs
\* goes on holding.
CommitKeepsLock(w) ==
  /\ worker[w].pc = "next"
  /\ worker[w].todo = {}
  /\ schema' = schema \o worker[w].ran
  /\ registered' = registered \cup worker[w].listed
  /\ UNCHANGED lock

\* COMMIT, which releases the lock.
CommitTx(w) ==
  /\ worker[w].pc = "next"
  /\ worker[w].todo = {}
  /\ schema' = schema \o worker[w].ran
  /\ registered' = registered \cup worker[w].listed
  /\ lock' = NoWorker

\* The worker goes on to subscribe.
Commit(w) ==
  /\ CommitTx(w)
  /\ Become(w, At("running", 0))

\* The answer of COMMIT is lost, and the worker takes it for an error.
CommitUnanswered(w) ==
  /\ CommitTx(w)
  /\ Become(w, At("down", 0))

\* Slip of Fails: log.Printf instead of log.Fatalf.
FailsGoesOn(w) ==
  /\ worker[w].pc \in {"begin"} \cup Locked
  /\ lock' = IF lock = w THEN NoWorker ELSE lock
  /\ Become(w, At("running", 0))
  /\ UNCHANGED <<schema, registered>>

\* An error of any statement, or the 30 seconds: Rollback, then log.Fatalf.
Fails(w) ==
  /\ worker[w].pc \in {"begin"} \cup Locked
  /\ lock' = IF lock = w THEN NoWorker ELSE lock
  /\ Become(w, At("down", 0))
  /\ UNCHANGED <<schema, registered>>

-----------------------------------------------------------------------------
(* The rest of the world.                                                    *)

\* The process is killed at any time; its session may live on.  One that waits
\* for the lock ends as soon as it has it, and is left out.
Crash(w) ==
  /\ worker[w].pc # "down"
  /\ lock' = IF lock = w THEN Gone ELSE lock
  /\ Become(w, At("down", 0))
  /\ UNCHANGED <<schema, registered>>

\* PostgreSQL ends the session of a dead client.
EndSession ==
  /\ lock = Gone
  /\ lock' = NoWorker
  /\ UNCHANGED <<schema, registered, worker>>

Migrate(w) ==
  \/ BeginTx(w)
  \/ AcquireLock(w)
  \/ WaitTimesOut(w)
  \/ CreateTable(w)
  \/ ReadDir(w)
  \/ \E f \in Files : Skip(w, f) \/ Find(w, f)
  \/ Execute(w)
  \/ Register(w)
  \/ Commit(w)

Step(w) == Ping(w) \/ PingFails(w) \/ Migrate(w)

Disturb(w) == Crash(w) \/ Fails(w) \/ CommitUnanswered(w)

Next ==
  \/ \E w \in Workers : Start(w) \/ Step(w) \/ Disturb(w)
  \/ EndSession

Spec == Init /\ [][Next]_vars

(* A process runs, a statement ends, PostgreSQL notices that a client is gone, *)
(* and who waits for a free lock gets it in the end.                           *)
FairSpec ==
  /\ Spec
  /\ WF_vars(EndSession)
  /\ \A w \in Workers : WF_vars(Step(w)) /\ SF_vars(AcquireLock(w))

-----------------------------------------------------------------------------
(* Properties.                                                               *)

\* No INSERT into schema_migrations meets a version that is registered or that
\* another open transaction has inserted, and no file is run by two: workers
\* that start together do not make one another fail.
NoConflict ==
  \A w \in Workers : worker[w].pc = "register" =>
    /\ ~Exists(w, worker[w].file)
    /\ \A v \in Workers \ {w} : worker[v].ran = <<>>

\* What is registered is what made the schema: no version ran without its row,
\* and none has a row without having run, after failures and crashes included.
RegisteredWasApplied == registered = Applied(schema)

\* A worker that reads events has every version of its directory.
ServesMigrated ==
  \A w \in Workers : worker[w].pc = "running" =>
    \A f \in MigrationsOf[w] : VersionOf[f] \in registered

\* The statements of all workers implement upgrades that are atomic, in order,
\* and apply each version once.
U ==
  INSTANCE Upgrades WITH Images <- {MigrationsOf[w] : w \in Workers}
ImplementsUpgrades == U!Spec

\* The lock is held by a worker in its migration or by the session of a dead one.
LockUsed == \A w \in Workers : lock = w => worker[w].pc \in Locked

\* The next statement of a start does not wait.
GoesOn(w) ==
  \/ worker[w].pc \in {"ping", "begin", "table", "files", "execute"}
  \/ worker[w].pc = "lock" /\ lock = NoWorker
  \/ /\ worker[w].pc = "next"
     /\ worker[w].todo = {} \/ \E f \in Files : Visits(w, f)
  \/ worker[w].pc = "register" /\ ~Exists(w, worker[w].file)

\* Nobody waits for nothing: a start goes on, or it waits for the lock of a
\* session that PostgreSQL ends or of a worker that goes on.
NoneStuck ==
  \A w \in Workers : worker[w].pc \in Starting \cup Locked =>
    \/ GoesOn(w)
    \/ /\ worker[w].pc = "lock"
       /\ lock = Gone \/ \E v \in Workers : lock = v /\ GoesOn(v)

\* The statements a start has before it, at most: three for every file.
StatementsLeft(w) ==
  LET files == 3 * Cardinality(MigrationsOf[w])
      left == 3 * Cardinality(worker[w].todo)
  IN  CASE worker[w].pc = "ping" -> files + 6 + MaxPings - worker[w].pings
        [] worker[w].pc = "begin" -> files + 5
        [] worker[w].pc = "lock" -> files + 4
        [] worker[w].pc = "table" -> files + 3
        [] worker[w].pc = "files" -> files + 2
        [] worker[w].pc = "execute" -> left + 3
        [] worker[w].pc = "register" -> left + 2
        [] worker[w].pc = "next" -> left + 1
        [] OTHER -> 0

\* No step, of whatever worker, takes a start back: it leaves the start where it
\* is or brings it nearer to its end.
GetsNearer ==
  \A w \in Workers : worker[w].pc \in Starting \cup Locked =>
    \/ worker'[w] = worker[w]
    \/ StatementsLeft(w)' < StatementsLeft(w)

StartsGetNearer == [][GetsNearer]_vars

\* A start comes to an end, with a worker that runs or a process that has ended:
\* nobody waits for the database, or for the lock, for ever.
StartEnds ==
  \A w \in Workers :
    worker[w].pc \notin {"down", "running"} ~> worker[w].pc \in {"down", "running"}

\* When failures and crashes cease, every worker that is started again after its
\* exits comes to run: no lock is left behind that keeps it from it.
StartSucceeds ==
  \A w \in Workers :
    /\ <>[][\A v \in Workers : ~Disturb(v) /\ ~PingFails(v)]_vars
    /\ []<>(worker[w].pc # "down")
    => <>[](worker[w].pc = "running")
===============================================================================
