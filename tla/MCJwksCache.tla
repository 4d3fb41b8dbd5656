----------------------------- MODULE MCJwksCache -----------------------------
(* Instances of JwksCache for TLC. *)
EXTENDS JwksCache

CONSTANTS old, new, ec

\* A key replaces another, the third is no RSA key, and there may be none.
MCPublished == {{}, {old, ec}, {new}}
=============================================================================
