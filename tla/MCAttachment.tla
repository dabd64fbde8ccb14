----------------------------- MODULE MCAttachment -----------------------------
(* Small instances of Attachment for TLC.                                  *)
EXTENDS Attachment, TLC

\* Safety runs only: volumes, nodes and device names are interchangeable.
Symmetry ==
  Permutations(Volumes) \cup Permutations(Nodes) \cup Permutations(Devices)

=============================================================================
