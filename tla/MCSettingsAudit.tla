--------------------------- MODULE MCSettingsAudit ---------------------------
(* Instances of SettingsAudit for TLC. *)
EXTENDS SettingsAudit, TLC

RequestSymmetry == Permutations(Requests)
=============================================================================
