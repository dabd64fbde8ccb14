----------------------------- MODULE SizesProofs -----------------------------
(***************************************************************************)
(* What rounding up gives, for every allocation unit and every width of    *)
(* the integers.                                                           *)
(***************************************************************************)
EXTENDS Sizes, TLAPS

\* Wrapping around gives an int64, and leaves one alone.
LEMMA WrapRange == ASSUME NEW x \in Int PROVE Wrap(x) \in Int64
<1> DEFINE n == 2 * MaxInt64 + 2
<1>1. n \in Nat \ {0} /\ MaxInt64 \in Nat
  BY SizesAssumption
<1>2. \A y \in Int : y % n \in 0..(n - 1)
  BY <1>1
<1>3. (x + MaxInt64 + 1) % n \in 0..(2 * MaxInt64 + 1)
  BY <1>1, <1>2
<1> QED BY <1>1, <1>3 DEF Wrap, Int64

LEMMA WrapSame == ASSUME NEW x \in Int64 PROVE Wrap(x) = x
<1> DEFINE n == 2 * MaxInt64 + 2
           y == x + MaxInt64 + 1
<1>1. n \in Nat \ {0} /\ MaxInt64 \in Nat
  BY SizesAssumption
<1>2. y \in 0..(n - 1)
  BY <1>1 DEF Int64
<1>3. \A z \in 0..(n - 1) : z % n = z
  BY <1>1
<1>4. y % n = y
  BY <1>2, <1>3
<1> QED BY <1>1, <1>4 DEF Wrap, Int64

\* The whole units in a size.
LEMMA Division ==
  ASSUME NEW a \in Nat, NEW g \in Nat \ {0}
  PROVE  /\ a \div g \in Nat /\ (a \div g) * g \in Nat
         /\ (a \div g) * g <= a /\ a < (a \div g) * g + g
         /\ ((a \div g) * g) % g = 0
<1>1. /\ a \div g \in Nat /\ (a \div g) * g \in Nat
      /\ (a \div g) * g <= a /\ a < (a \div g) * g + g
  OBVIOUS
<1>2. \A q \in Nat : (q * g) % g = 0
  OBVIOUS
<1> QED BY <1>1, <1>2

\* RoundUpBytes never wraps around a second time: what it multiplies was
\* divided before.
LEMMA RoundUpUnits ==
  ASSUME NEW b \in Nat
  PROVE  LET w == Wrap(b + GiB - 1) IN
         /\ w >= 0 => RoundUpBytes(b) = (w \div GiB) * GiB
         /\ w < 0 => RoundUpBytes(b) \in w..0
<1> DEFINE w == Wrap(b + GiB - 1)
<1>1. GiB \in Nat \ {0} /\ MaxInt64 \in Nat
  BY SizesAssumption
<1>2. w \in Int64 /\ w \in Int
  BY <1>1, WrapRange DEF Int64
<1> HIDE DEF w
<1>3. CASE w >= 0
  <2>1. (w \div GiB) * GiB \in Int64
    BY <1>1, <1>2, <1>3, Division DEF Int64
  <2>2. RoundUpBytes(b) = Wrap((w \div GiB) * GiB)
    BY <1>3 DEF RoundUpBytes, RoundUpSize, Quotient, w
  <2> QED BY <1>2, <1>3, <2>1, <2>2, WrapSame DEF w
<1>4. CASE w < 0
  <2>1. PICK q \in Nat : q = (-w) \div GiB /\ q * GiB \in 0..(-w)
    BY <1>1, <1>2, <1>4, Division
  <2>2. (-q) * GiB = -(q * GiB)
    BY <1>1
  <2>3. (-q) * GiB \in Int64 /\ (-q) * GiB \in w..0
    BY <1>1, <1>2, <1>4, <2>1, <2>2 DEF Int64
  <2>4. RoundUpBytes(b) = Wrap((-q) * GiB)
    BY <1>2, <1>4, <2>1 DEF RoundUpBytes, RoundUpSize, Quotient, w
  <2> QED BY <1>2, <1>4, <2>3, <2>4, WrapSame DEF w
<1> QED BY <1>2, <1>3, <1>4 DEF w

\* RoundUpBytes gives an int64, whole units if it is a size at all, and, for
\* every size that can be rounded up, the least whole number of units that
\* holds it.
THEOREM RoundUpBytesRounds ==
  ASSUME NEW b \in Nat
  PROVE  /\ RoundUpBytes(b) \in Int64
         /\ RoundUpBytes(b) >= 0 => RoundUpBytes(b) % GiB = 0
         /\ Fits(b) => RoundUpBytes(b) >= b /\ RoundUpBytes(b) < b + GiB
<1> DEFINE w == Wrap(b + GiB - 1)
<1>1. GiB \in Nat \ {0} /\ MaxInt64 \in Nat
  BY SizesAssumption
<1>2. w \in Int64 /\ w \in Int
  BY <1>1, WrapRange DEF Int64
<1>3. /\ w >= 0 => RoundUpBytes(b) = (w \div GiB) * GiB
      /\ w < 0 => RoundUpBytes(b) \in w..0
  BY RoundUpUnits
<1>4. Fits(b) => w = b + GiB - 1
  BY <1>1, WrapSame DEF Fits, Int64
<1> HIDE DEF w
<1>5. CASE w >= 0
  <2>1. /\ (w \div GiB) * GiB \in 0..w /\ w < (w \div GiB) * GiB + GiB
        /\ ((w \div GiB) * GiB) % GiB = 0
    BY <1>1, <1>2, <1>5, Division
  <2> QED BY <1>1, <1>2, <1>3, <1>4, <1>5, <2>1 DEF Int64
<1>6. CASE w < 0
  <2>1. RoundUpBytes(b) \in w..0 /\ ~Fits(b)
    BY <1>1, <1>3, <1>4, <1>6
  <2>2. 0 % GiB = 0
    BY <1>1
  <2> QED BY <1>1, <1>2, <1>6, <2>1, <2>2 DEF Int64
<1> QED BY <1>2, <1>5, <1>6

\* A size that cannot be rounded up comes out as no size at all, never as a
\* smaller one that would pass for it.
THEOREM WrappedIsNoSize ==
  ASSUME NEW b \in 0..MaxInt64, ~Fits(b)
  PROVE  RoundUpBytes(b) <= 0
<1> DEFINE n == 2 * MaxInt64 + 2
           y == b + GiB - 1 + MaxInt64 + 1
<1>1. GiB \in Nat \ {0} /\ MaxInt64 \in Nat /\ GiB <= MaxInt64 /\ b \in Nat
  BY SizesAssumption
<1>2. n \in Nat \ {0} /\ y - n \in 0..(n - 1)
  BY <1>1 DEF Fits
<1>3. y % n = y - n
  <2>1. ASSUME NEW z \in Nat, NEW m \in Nat \ {0}, z - m \in 0..(m - 1)
        PROVE  z % m = z - m
    BY <2>1
  <2>2. y \in Nat
    BY <1>1
  <2> HIDE DEF n, y
  <2> QED BY <1>2, <2>1, <2>2
<1>4. Wrap(b + GiB - 1) = b + GiB - 1 - n
  BY <1>1, <1>3 DEF Wrap
<1>5. Wrap(b + GiB - 1) \in Int /\ Wrap(b + GiB - 1) < 0
  BY <1>1, <1>4
<1> QED BY <1>1, <1>5, RoundUpUnits

=============================================================================
