----------------------- MODULE MCResourceController ------------------------
(* ResourceController for TLC.  Two strategies are enough for the config map
   to point to another provider than the one in use. *)
EXTENDS ResourceController

CONSTANTS aws, gcp

MCStrategies == {aws, gcp}
============================================================================
