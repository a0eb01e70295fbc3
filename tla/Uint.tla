-------------------------------- MODULE Uint --------------------------------
(***************************************************************************)
(* U256 of crates/ivory-primitives/src/uint.rs: four limbs, the least      *)
(* significant first.  Limbs have W bits instead of 64, so that a number   *)
(* has 4 * W bits instead of 256; a hex digit has one bit and a byte two.  *)
(* The arithmetic is the code's, limb by limb and carry by carry; Val is   *)
(* the number a value stands for, and the properties compare the two.      *)
(*                                                                         *)
(* An Option or Result is the set of what it holds: {x} or {}.             *)
(***************************************************************************)
EXTENDS Integers, SequencesExt

CONSTANT W      \* bits in a limb

ASSUME WAssumption == W \in Nat \ {0}

Base == 2 ^ W
Limb == 0 .. Base - 1
U256 == [0 .. 3 -> Limb]
None == {}
Some(x) == {x}

Zero == [i \in 0 .. 3 |-> 0]
One == [i \in 0 .. 3 |-> IF i = 0 THEN 1 ELSE 0]
Most == [i \in 0 .. 3 |-> Base - 1]
BitWidth == 4 * W

\* the number that four limbs stand for, and its limbs
Val(a) == a[0] + Base * (a[1] + Base * (a[2] + Base * a[3]))
MaxVal == Base * Base * Base * Base - 1
OfVal(n) == [i \in 0 .. 3 |-> (n \div Base ^ i) % Base]
----------------------------------------------------------------------------
(* Order, and sums and differences.                                        *)
\* Ord::cmp, from the most significant limb down
Less(a, b) ==
    \E i \in 0 .. 3 : a[i] < b[i] /\ \A j \in i + 1 .. 3 : a[j] = b[j]

\* carry into each limb, and out of the last: two overflowing_add per limb
Carries(a, b) ==
    LET c[i \in 0 .. 4] ==
            IF i = 0 THEN 0 ELSE (a[i - 1] + b[i - 1] + c[i - 1]) \div Base
    IN  c

WrappingAdd(a, b) ==
    LET c == Carries(a, b)
    IN  [i \in 0 .. 3 |-> (a[i] + b[i] + c[i]) % Base]

CheckedAddByTopLimb(a, b) ==
    IF a[3] + b[3] >= Base THEN None ELSE Some(WrappingAdd(a, b))

CheckedAdd(a, b) == IF Carries(a, b)[4] > 0 THEN None ELSE Some(WrappingAdd(a, b))

Borrows(a, b) ==
    LET c[i \in 0 .. 4] ==
            IF i = 0 THEN 0
            ELSE IF a[i - 1] - b[i - 1] - c[i - 1] < 0 THEN 1 ELSE 0
    IN  c

WrappingSub(a, b) ==
    LET c == Borrows(a, b)
    IN  [i \in 0 .. 3 |-> (a[i] - b[i] - c[i]) % Base]

CheckedSub(a, b) == IF Less(a, b) THEN None ELSE Some(WrappingSub(a, b))

UnwrapOr(option, default) == IF option = None THEN default ELSE CHOOSE x \in option : TRUE
SaturatingAdd(a, b) == UnwrapOr(CheckedAdd(a, b), Most)
SaturatingSub(a, b) == UnwrapOr(CheckedSub(a, b), Zero)
----------------------------------------------------------------------------
(* Bits and shifts.                                                        *)
LimbBits(x) == CHOOSE n \in 0 .. W : x < 2 ^ n /\ (n = 0 \/ x >= 2 ^ (n - 1))

LeadingZeros(a) ==
    IF a = Zero THEN BitWidth
    ELSE LET top == CHOOSE i \in 0 .. 3 : a[i] # 0 /\ \A j \in i + 1 .. 3 : a[j] = 0
         IN  (3 - top) * W + (W - LimbBits(a[top]))

TrailingZeros(a) ==
    IF a = Zero THEN BitWidth
    ELSE LET low == CHOOSE i \in 0 .. 3 : a[i] # 0 /\ \A j \in 0 .. i - 1 : a[j] = 0
         IN  low * W + CHOOSE n \in 0 .. W - 1 :
                            a[low] % 2 ^ n = 0 /\ (a[low] \div 2 ^ n) % 2 = 1

Bits(a) == BitWidth - LeadingZeros(a)

ShlLimb(x, n) == (x * 2 ^ n) % Base
ShrLimb(x, n) == x \div 2 ^ n

ShlWithoutSpill(a, shift) ==
    LET limbs == shift \div W
    IN  IF shift >= BitWidth THEN Zero
        ELSE [i \in 0 .. 3 |->
                IF i < limbs THEN 0 ELSE ShlLimb(a[i - limbs], shift % W)]

\* the bits that the or joins are disjoint, so it is a sum
Shl(a, shift) ==
    LET limbs == shift \div W
        bits  == shift % W
        spill(i) == IF bits > 0 /\ i > limbs THEN ShrLimb(a[i - limbs - 1], W - bits) ELSE 0
    IN  IF shift >= BitWidth THEN Zero
        ELSE [i \in 0 .. 3 |->
                IF i < limbs THEN 0 ELSE ShlLimb(a[i - limbs], bits) + spill(i)]

Shr(a, shift) ==
    LET limbs == shift \div W
        bits  == shift % W
        spill(i) == IF bits > 0 /\ i + limbs < 3 THEN ShlLimb(a[i + limbs + 1], W - bits) ELSE 0
    IN  IF shift >= BitWidth THEN Zero
        ELSE [i \in 0 .. 3 |->
                IF i + limbs > 3 THEN 0 ELSE ShrLimb(a[i + limbs], bits) + spill(i)]

\* BitAnd, BitOr, BitXor and Not, limb by limb
BitOf(x, k) == (x \div 2 ^ k) % 2
Ones(x) == {k \in 0 .. W - 1 : BitOf(x, k) = 1}
OfOnes(S) == MapThenSumSet(LAMBDA k : 2 ^ k, S)
And(a, b) == [i \in 0 .. 3 |-> OfOnes(Ones(a[i]) \cap Ones(b[i]))]

\* Mutant: or by adding.
OrByAdding(a, b) == [i \in 0 .. 3 |-> (a[i] + b[i]) % Base]
Or(a, b) == [i \in 0 .. 3 |-> OfOnes(Ones(a[i]) \cup Ones(b[i]))]
OneSided(x, y) == (Ones(x) \ Ones(y)) \cup (Ones(y) \ Ones(x))
Xor(a, b) == [i \in 0 .. 3 |-> OfOnes(OneSided(a[i], b[i]))]
Not(a) == [i \in 0 .. 3 |-> Base - 1 - a[i]]
----------------------------------------------------------------------------
(* Products, quotients and powers.                                         *)
\* One round of checked_mul's outer loop: the limbs it leaves, and what it
\* finds beyond the last one.  The inner loop stops at the first limb that
\* does not fit, so the products of higher limbs are never looked at.
MulRow(a, b, i, acc) ==
    LET c[j \in 0 .. 4 - i] ==
            IF j = 0 THEN 0
            ELSE (a[i] * b[j - 1] + acc[i + j - 1] + c[j - 1]) \div Base
    IN  [limbs |-> [k \in 0 .. 3 |->
                        IF k < i THEN acc[k]
                        ELSE (a[i] * b[k - i] + acc[k] + c[k - i]) % Base],
         spill |-> c[4 - i] + IF i = 0 THEN 0 ELSE a[i] * b[4 - i]]

MulRows(a, b) ==
    LET rows[i \in 0 .. 4] ==
            IF i = 0 THEN Some(Zero)
            ELSE IF rows[i - 1] = None \/ a[i - 1] = 0 THEN rows[i - 1]
            ELSE LET acc == CHOOSE x \in rows[i - 1] : TRUE
                     row == MulRow(a, b, i - 1, acc)
                 IN  IF row.spill > 0 THEN None ELSE Some(row.limbs)
    IN  rows[4]

CheckedMulUnguarded(a, b) ==
    IF a = Zero \/ b = Zero THEN Some(Zero)
    ELSE IF a = One THEN Some(b)
    ELSE IF b = One THEN Some(a)
    ELSE MulRows(a, b)

CheckedMul(a, b) ==
    IF a = Zero \/ b = Zero THEN Some(Zero)
    ELSE IF a = One THEN Some(b)
    ELSE IF b = One THEN Some(a)
    ELSE IF Bits(a) + Bits(b) > BitWidth + 1 THEN None
    ELSE MulRows(a, b)

SaturatingMul(a, b) == UnwrapOr(CheckedMul(a, b), Most)

\* checked_div: how far the divisor is shifted up, and remainder, quotient and
\* divisor after some rounds of the loop
DivShift(a, b) == LeadingZeros(b) - LeadingZeros(a)
DivAfter(a, b, rounds) ==
    LET shift == DivShift(a, b)
        round[k \in 0 .. rounds] ==
            IF k = 0 THEN [rem |-> a, quot |-> Zero, div |-> Shl(b, shift)]
            ELSE LET r    == round[k - 1]
                     fits == ~Less(r.rem, r.div)
                 IN  [rem  |-> IF fits THEN WrappingSub(r.rem, r.div) ELSE r.rem,
                      quot |-> IF fits THEN Or(r.quot, Shl(One, shift + 1 - k)) ELSE r.quot,
                      div  |-> Shr(r.div, 1)]
    IN  round[rounds]

\* Mutant: the round of shift zero left out.
DivRoundsShort(a, b) == DivAfter(a, b, DivShift(a, b))
DivRounds(a, b) == DivAfter(a, b, DivShift(a, b) + 1)

CheckedDiv(a, b) ==
    IF b = Zero THEN None
    ELSE IF a = Zero \/ Less(a, b) THEN Some(Zero)
    ELSE IF b = One THEN Some(a)
    ELSE Some(DivRounds(a, b).quot)

AndThen(option, op(_)) == IF option = None THEN None ELSE op(CHOOSE x \in option : TRUE)

CheckedRem(a, b) ==
    IF b = Zero THEN None
    ELSE AndThen(CheckedDiv(a, b), LAMBDA q :
            AndThen(CheckedMul(q, b), LAMBDA p : CheckedSub(a, p)))

Squared(option) == AndThen(option, LAMBDA x : CheckedMul(x, x))
SquaredAlways(base, left) == Squared(base)

\* the base is squared only while a bit of the exponent is left to use it
SquaredIfUsed(base, left) == IF left > 0 THEN Squared(base) ELSE base

\* checked_pow: square and multiply, a round for each bit of the exponent
CheckedPow(a, exp) ==
    LET step[k \in 0 .. 8] ==
            IF k = 0 THEN [base |-> Some(a), exp |-> exp, result |-> Some(One)]
            ELSE LET s    == step[k - 1]
                     used == IF s.exp % 2 = 0 THEN s.result
                             ELSE CheckedMul(UnwrapOr(s.result, One), UnwrapOr(s.base, One))
                     base == SquaredIfUsed(s.base, s.exp \div 2)
                 IN  IF s.exp = 0 \/ s.result = None THEN s
                     ELSE [base   |-> base,
                           exp    |-> s.exp \div 2,
                           result |-> IF base = None THEN None ELSE used]
    IN  step[8].result
----------------------------------------------------------------------------
(* What the operations compute, against the numbers.                       *)
Exactly(n) == IF 0 <= n /\ n <= MaxVal THEN Some(OfVal(n)) ELSE None
Clamped(n) == IF n < 0 THEN Zero ELSE IF n > MaxVal THEN Most ELSE OfVal(n)

\* checked_add, checked_sub and their saturating and wrapping forms are the
\* sum and difference of the numbers: None, the nearest end or the remainder
\* when it does not fit, whatever carries run through the limbs.  The order
\* that checked_sub and every balance check use is the order of the numbers.
SumsExact(a, b) ==
    /\ Less(a, b) = (Val(a) < Val(b))
    /\ CheckedAdd(a, b) = Exactly(Val(a) + Val(b))
    /\ CheckedSub(a, b) = Exactly(Val(a) - Val(b))
    /\ SaturatingAdd(a, b) = Clamped(Val(a) + Val(b))
    /\ SaturatingSub(a, b) = Clamped(Val(a) - Val(b))
    /\ Val(WrappingAdd(a, b)) = (Val(a) + Val(b)) % (MaxVal + 1)
    /\ Val(WrappingSub(a, b)) = (Val(a) - Val(b)) % (MaxVal + 1)

\* checked_mul gives the product or None if it does not fit.  Its loop looks
\* at one limb beyond the last, so this needs the test on bit lengths.
ProductExact(a, b) ==
    LET fits == Val(b) = 0 \/ Val(a) <= MaxVal \div Val(b)
    IN  /\ CheckedMul(a, b) = IF fits THEN Some(OfVal(Val(a) * Val(b))) ELSE None
        /\ SaturatingMul(a, b) = IF fits THEN OfVal(Val(a) * Val(b)) ELSE Most

\* checked_div and checked_rem give quotient and remainder, and None for a
\* divisor of zero only: no step inside them fails or overflows.
QuotientExact(a, b) ==
    /\ CheckedDiv(a, b) = IF b = Zero THEN None ELSE Some(OfVal(Val(a) \div Val(b)))
    /\ CheckedRem(a, b) = IF b = Zero THEN None ELSE Some(OfVal(Val(a) % Val(b)))

\* Shifts by any distance multiply and divide by a power of two, and the bit
\* counts (leading_zeros, trailing_zeros, bits) agree with them.
ShiftsExact(a, n) ==
    LET power == 2 ^ (IF n < BitWidth THEN n ELSE BitWidth)
    IN  /\ Val(Shl(a, n)) = ((Val(a) % ((MaxVal + 1) \div power)) * power) % (MaxVal + 1)
        /\ Val(Shr(a, n)) = Val(a) \div power
        /\ (Bits(a) <= n) = (Val(a) < power \/ n >= BitWidth)
        /\ (TrailingZeros(a) >= n) = (Val(a) % power = 0 /\ n <= BitWidth)

\* The bitwise operators split a sum: what two numbers share and what either
\* has add up to the two, also across limbs.
BitsExact(a, b) ==
    /\ Val(And(a, b)) + Val(Or(a, b)) = Val(a) + Val(b)
    /\ Val(Xor(a, b)) = Val(Or(a, b)) - Val(And(a, b))
    /\ Less(Or(a, b), a) = FALSE /\ Less(a, And(a, b)) = FALSE
    /\ Val(Not(a)) = MaxVal - Val(a)

\* checked_pow gives the power or None if it does not fit: squaring the base
\* never fails for a result that fits.
PowerExact(a, exp) ==
    LET power[e \in 0 .. exp] ==        \* MaxVal + 1 stands for what is larger
            IF e = 0 THEN 1
            ELSE IF Val(a) > 0 /\ power[e - 1] > MaxVal \div Val(a) THEN MaxVal + 1
            ELSE power[e - 1] * Val(a)
    IN  CheckedPow(a, exp) = Exactly(power[exp])
=============================================================================
