---------------------------- MODULE MCSnapshots ----------------------------
(***************************************************************************)
(* Snapshots for TLC.                                                      *)
(***************************************************************************)
EXTENDS Snapshots

MCKinds == AllKinds
============================================================================
