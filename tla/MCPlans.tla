------------------------------- MODULE MCPlans -------------------------------
(* Instances of Plans for TLC. *)
EXTENDS Plans, TLC

CONSTANTS acme, h, k, Invalid

\* acme's events carry h, the simulator draws k.
MCHashesOf == [t \in Tenants |-> IF t = acme THEN {h} ELSE {k}]

\* Over the hash the client knows, over an outdated one, of a wrong key next
\* to a right one, not a pair, and none.
MCSignatureLists == {{h}, {Genesis}, {k, Invalid}, {Unpaired}, {}}

ReaderSymmetry == Permutations(Readers)
=============================================================================
