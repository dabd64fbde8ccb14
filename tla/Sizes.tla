-------------------------------- MODULE Sizes --------------------------------
(***************************************************************************)
(* Volume sizes (pkg/utils/util.go): whole allocation units, computed in   *)
(* int64, which wraps around.                                              *)
(***************************************************************************)
EXTENDS Integers

CONSTANTS
  GiB,       \* bytes of an allocation unit (a small number for TLC)
  MaxInt64   \* largest int64, 2^63 - 1 in the code (a small number for TLC)

ASSUME SizesAssumption ==
  /\ GiB \in Nat \ {0}
  /\ MaxInt64 \in Nat /\ GiB <= MaxInt64

Int64 == (-MaxInt64 - 1)..MaxInt64

\* Arithmetic of the language: results wrap around, and a quotient is cut
\* off towards zero.
Wrap(x)        == ((x + MaxInt64 + 1) % (2 * MaxInt64 + 2)) - (MaxInt64 + 1)
Quotient(x, y) == IF x >= 0 THEN x \div y ELSE -((-x) \div y)

RoundUpSize(b) == Quotient(Wrap(b + GiB - 1), GiB)

\* Faulty: the size is not rounded.
FaultyRoundUpNothing(b) == b

RoundUpBytes(b) == Wrap(RoundUpSize(b) * GiB)

\* The sizes that can be rounded up without wrapping around.
Fits(b) == b + GiB - 1 <= MaxInt64

=============================================================================
