----------------------------- MODULE MCSnapshots -----------------------------
(* Small instances of Snapshots for TLC.                                   *)
EXTENDS Snapshots, TLC

=============================================================================
