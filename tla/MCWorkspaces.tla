----------------------------- MODULE MCWorkspaces -----------------------------
(* Instances of Workspaces for TLC. *)
EXTENDS Workspaces, TLC

CONSTANTS ann, bob, m2m, annBox, bobBox, bobMail, bobMAIL, w1

\* Every user has a sandbox of its own.
MCPersonalOf == [u \in Users |-> IF u = ann THEN annBox ELSE bobBox]

\* Two spellings of bob's address are equal in lower case.
MCFold == [e \in Emails |-> IF e = bobMAIL THEN bobMail ELSE e]

RequestSymmetry == Permutations(Requests)
=============================================================================
