------------------------------- MODULE MCSystem -------------------------------
(* A small instance of System for TLC. Device names have one character,    *)
(* handles two, and one character of the handle is kept.                   *)
EXTENDS System, TLC

CONSTANTS v1, v2, n1, n2, oda

MCChar     == {"a", "x", "y", "z"}
MCName     == oda :> <<"a">>
MCHandle   == v1 :> <<"x", "z">> @@ v2 :> <<"y", "z">>
MCEligible == {<<v1, n1>>, <<v1, n2>>, <<v2, n1>>}

=============================================================================
