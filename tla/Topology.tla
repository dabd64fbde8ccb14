------------------------------- MODULE Topology -------------------------------
(***************************************************************************)
(* Zones: what NodeGetInfo (pkg/driver/node.go) reports of a node, and     *)
(* which zone CreateVolume (pkg/driver/controller.go) takes from the       *)
(* topology requirement the container orchestrator makes up from it. The   *)
(* driver takes a zone for the VolumePool of the same name.                *)
(***************************************************************************)
EXTENDS Naturals, Sequences

CONSTANTS
  Nodes,    \* the nodes of the target cluster
  Labels    \* Labels[n]: the two zone labels of n, "none" if there is none

NoPool == "none"   \* an empty name

\* The deprecated label comes first.
GetZoneFromNode(n) == IF Labels[n].beta # NoPool THEN Labels[n].beta ELSE Labels[n].stable

\* The zone a node reports as its topology, if it has one.
NodeGetInfo(n) == {GetZoneFromNode(n)} \ {NoPool}

\* The first zone of the segments.
FirstZone(segments) ==
  LET zoned == {i \in 1..Len(segments) : NodeGetInfo(segments[i]) # {}}
  IN  IF zoned = {}
      THEN NoPool
      ELSE GetZoneFromNode(segments[CHOOSE i \in zoned : \A j \in zoned : i <= j])

\* Faulty: requisite topologies come first.
FaultyGetAZFromTopology(t) == FirstZone(t.requisite \o t.preferred)

\* Preferred topologies come before requisite ones; each is given as the node
\* it stands for.
GetAZFromTopology(t) == FirstZone(t.preferred \o t.requisite)

=============================================================================
