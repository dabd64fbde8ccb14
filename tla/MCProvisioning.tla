---------------------------- MODULE MCProvisioning ----------------------------
(* A small instance of Provisioning for TLC.                               *)
EXTENDS Provisioning, TLC

CONSTANTS pa, pb, pz, n1, n2, n3, n4

\* n1 has both labels, which differ, n3 none, and the zone of n4 no pool.
MCLabels ==
  n1 :> [beta |-> pa, stable |-> pb] @@ n2 :> [beta |-> NoPool, stable |-> pb] @@
  n3 :> [beta |-> NoPool, stable |-> NoPool] @@ n4 :> [beta |-> NoPool, stable |-> pz]

\* Preferred and requisite topologies; a required size and a limit, around
\* one unit, at the limit, and up to where rounding wraps around.
MCTopologies == {<<<<n1>>, <<n2, n1>>>>, <<<<n3, n2>>, <<n1>>>>, <<<<>>, <<n3, n2>>>>,
                 <<<<n4>>, <<n1>>>>, <<<<n3>>, <<>>>>}
MCRanges     == {<<0, 0>>, <<0, 3>>, <<1, 3>>, <<1, 4>>, <<4, 4>>, <<5, 7>>, <<5, 0>>,
                 <<60, 63>>, <<61, 63>>, <<63, 0>>}

Topo(given, t)  == [given |-> given, preferred |-> t[1], requisite |-> t[2]]
Bytes(given, r) == [given |-> given, required |-> r[1], limit |-> r[2]]

MCRequests ==
  [type : {TRUE}, pool : {NoPool, pa, pz},
   topology : {Topo(TRUE, t) : t \in MCTopologies} \cup {Topo(FALSE, <<<<>>, <<>>>>)},
   range : {Bytes(TRUE, r) : r \in MCRanges} \cup {Bytes(FALSE, <<0, 0>>)}]
  \cup
  [type : {FALSE}, pool : {pa}, topology : {Topo(FALSE, <<<<>>, <<>>>>)},
   range : {Bytes(FALSE, <<0, 0>>)}]

=============================================================================
