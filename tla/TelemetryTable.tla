---------------------------- MODULE TelemetryTable ----------------------------
(* What telemetry_logs promises those who read it, without transactions,     *)
(* statements or plans: rows that are added one by one and never change, and *)
(* visitors of a tenant with few rows, each of whom may delete them and then *)
(* adds the whole seed in one step, but for the ids it has met a row at.     *)
EXTENDS FiniteSets, Naturals

CONSTANTS
  Keys,        \* the execution ids
  Owners,      \* the tenants
  Nobody,      \* no tenant
  HashesFor,   \* tenant -> the lineage hashes of its rows
  SeedsFor,    \* tenant -> the ids of its seed
  SeedHash,    \* the lineage hash of a seeded row
  Few,         \* a tenant with fewer rows may be seeded
  Visitors,    \* those who may seed
  NoRow

VARIABLES
  table,   \* execution id -> the row, or NoRow
  visit    \* visitor -> what it is about, for which tenant, and the ids it
           \* leaves out of the seed

tvars == <<table, visit>>

KeysOf(t) == {k \in Keys : table[k] # NoRow /\ table[k].tenant = t}

Visit(stage, t, left) == [stage |-> stage, tenant |-> t, left |-> left]

NoVisit == Visit("idle", Nobody, {})

TInit == table = [k \in Keys |-> NoRow] /\ visit = [v \in Visitors |-> NoVisit]

\* An execution is logged, under an id that is in nobody's seed.
Add(k) ==
  /\ table[k] = NoRow
  /\ \A u \in Owners : k \notin SeedsFor[u]
  /\ \E t \in Owners : \E hash \in HashesFor[t] :
       table' = [table EXCEPT ![k] = [tenant |-> t, lineage |-> hash]]
  /\ UNCHANGED visit

Find(v, t) ==
  /\ visit[v].stage = "idle"
  /\ visit' = [visit EXCEPT ![v] = Visit("deleting", t, {})]
  /\ Cardinality(KeysOf(t)) < Few
  /\ UNCHANGED table

\* The rows there are now, or none, whoever has added them since.
Delete(v) ==
  /\ visit[v].stage = "deleting"
  /\ \E gone \in {{}, KeysOf(visit[v].tenant)} :
       table' = [k \in Keys |-> IF k \in gone THEN NoRow ELSE table[k]]
  /\ visit' = [visit EXCEPT ![v] = Visit("seeding", visit[v].tenant, {})]

\* Only an id that has a row is left out.
LeaveOut(v, k) ==
  /\ visit[v].stage = "seeding"
  /\ k \in SeedsFor[visit[v].tenant]
  /\ table[k] # NoRow
  /\ visit' = [visit EXCEPT ![v] =
       Visit("seeding", visit[v].tenant, visit[v].left \cup {k})]
  /\ UNCHANGED table

\* All of the seed but what is left out, at once, and in nobody's place.
AddSeed(v) ==
  /\ visit[v].stage = "seeding"
  /\ \A k \in SeedsFor[visit[v].tenant] \ visit[v].left : table[k] = NoRow
  /\ table' = [k \in Keys |->
       IF k \in SeedsFor[visit[v].tenant] \ visit[v].left
       THEN [tenant |-> visit[v].tenant, lineage |-> SeedHash]
       ELSE table[k]]
  /\ visit' = [visit EXCEPT ![v] = NoVisit]

GiveUp(v) ==
  /\ visit[v].stage = "seeding"
  /\ visit' = [visit EXCEPT ![v] = NoVisit]
  /\ UNCHANGED table

TNext ==
  \/ \E k \in Keys : Add(k)
  \/ \E v \in Visitors : GiveUp(v) \/ Delete(v) \/ AddSeed(v)
  \/ \E v \in Visitors, t \in Owners : Find(v, t)
  \/ \E v \in Visitors, k \in Keys : LeaveOut(v, k)

TSpec == TInit /\ [][TNext]_tvars
=============================================================================
