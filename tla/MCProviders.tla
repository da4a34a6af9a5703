----------------------------- MODULE MCProviders -----------------------------
(* Providers for TLC: every provider, and two passwords, so that a re-created *)
(* secret differs.                                                            *)
EXTENDS Providers

MCProvs == AllProvs
============================================================================
