----------------------------- MODULE MCHoldQueue -----------------------------
(* Instances of HoldQueue for TLC. *)
EXTENDS HoldQueue, TLC

CONSTANTS own, other, blank, id1, admin, t2

\* All payloads carry one execution id: two tenants hold it, one of them by a
\* payload that names no tenant, the other also by one without SQL.
MCExecOf == [e \in Entries |-> id1]
MCTenantOf == [e \in Entries |-> IF e = own THEN NoTenant ELSE t2]

Symmetry == Permutations(Dispatches)
===============================================================================
