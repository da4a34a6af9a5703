---------------------------- MODULE MCGCPNetwork ----------------------------
EXTENDS GCPNetwork

\* One Postgres and one Redis CR.
MCResources == {"postgres", "redis"}
============================================================================
