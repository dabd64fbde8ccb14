----------------------------- MODULE MCExpansion -----------------------------
(* Small instances of Expansion for TLC.                                   *)
EXTENDS Expansion, TLC

=============================================================================
