------------------------ MODULE MCStandaloneNetwork ------------------------
(* StandaloneNetwork for TLC: one Postgres and one Redis CR, the smallest set
   in which two controllers meet. *)
EXTENDS StandaloneNetwork

CONSTANTS pg, redis

MCResources == {pg, redis}
MCService == [r \in MCResources |-> IF r = pg THEN "rds" ELSE "cache"]
============================================================================
