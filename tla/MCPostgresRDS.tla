--------------------------- MODULE MCPostgresRDS ---------------------------
(* PostgresRDS for TLC: two passwords, so that a re-created secret differs. *)
EXTENDS PostgresRDS, TLC

PasswordSymmetry == Permutations(Passwords)
============================================================================
