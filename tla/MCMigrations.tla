----------------------------- MODULE MCMigrations -----------------------------
(* Instances of Migrations for TLC. *)
EXTENDS Migrations

CONSTANTS old, new, f1, f2, g2, f3

\* Two files of the new image begin with the same number.
MCVersionOf == [f \in Files |-> CASE f = f1 -> 1 [] f = f3 -> 3 [] OTHER -> 2]

\* The old image lacks what the new one brings, and has a file it has dropped.
MCMigrationsOf == [w \in Workers |-> IF w = old THEN {f1, f3} ELSE {f1, f2, g2}]
===============================================================================
