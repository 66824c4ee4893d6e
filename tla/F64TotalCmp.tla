------------------------------ MODULE F64TotalCmp ------------------------------
(***************************************************************************)
(* The order test_total_cmp (sgx_tstd/src/f64/tests.rs) asserts of        *)
(* f64::total_cmp, on a binary floating-point format of the same shape as *)
(* f64 (sign, EXP_BITS exponent bits, MANTISSA_BITS stored mantissa bits) *)
(* but narrow enough that every pair of bit patterns can be compared.     *)
(*                                                                         *)
(* total_cmp compares the bit patterns as signed integers after flipping  *)
(* every bit but the sign of a negative one.  The test builds its         *)
(* operands from bits (from_bits) and the unary minus, and asserts the    *)
(* IEEE total order: -qNaN < -sNaN < -inf < -MAX < ... < -0 < +0 < ...    *)
(* < +inf < sNaN < qNaN.  A state is a pair of operands; the invariant    *)
(* compares total_cmp with that order, defined from the values.           *)
(***************************************************************************)
EXTENDS Integers, Sequences, Bitwise

CONSTANTS
    EXP_BITS,       \* exponent bits (11 in f64)
    MANTISSA_BITS,  \* stored mantissa bits (52 in f64)
    NAN_PAYLOAD     \* what s_nan adds to a NaN with its quiet bit cleared (42)

ASSUME EXP_BITS >= 3 /\ MANTISSA_BITS >= 2
ASSUME NAN_PAYLOAD \in 1 .. 2^(MANTISSA_BITS - 1) - 1

W == 1 + EXP_BITS + MANTISSA_BITS           \* width of the bit pattern
Bits == 0 .. 2^W - 1
SIGN == 2^(W - 1)
EXP_ALL == 2^EXP_BITS - 1                   \* exponent of infinities and NaNs
BIAS == 2^(EXP_BITS - 1) - 1
MANTISSA_DIGITS == MANTISSA_BITS + 1        \* f64::MANTISSA_DIGITS counts the hidden bit

Exp(b) == (b \div 2^MANTISSA_BITS) % 2^(EXP_BITS)
Mant(b) == b % 2^MANTISSA_BITS
Negative(b) == b >= SIGN

\* num::FpCategory of a pattern (f64::classify).
Class(b) ==
    CASE Exp(b) = EXP_ALL /\ Mant(b) # 0 -> "Nan"
      [] Exp(b) = EXP_ALL                -> "Infinite"
      [] Exp(b) = 0 /\ Mant(b) = 0       -> "Zero"
      [] Exp(b) = 0                      -> "Subnormal"
      [] OTHER                           -> "Normal"

\* The magnitude of a finite pattern in units of the least subnormal.
Scaled(b) == IF Exp(b) = 0 THEN Mant(b)
             ELSE (2^MANTISSA_BITS + Mant(b)) * 2^(Exp(b) - 1)

\* The non-negative pattern of an exactly representable magnitude.
FromScaled(s) == CHOOSE b \in 0 .. SIGN - 1 : Class(b) # "Nan" /\ Scaled(b) = s

\* The literal num/den (2.5_f64 is Lit(5, 2)).
ONE == 2^(MANTISSA_BITS + BIAS - 1)
Lit(num, den) == FromScaled((num * ONE) \div den)

\* The unary minus: flips the sign bit.
Neg(b) == b ^^ SIGN

\* The f64 constants.
INFINITY == EXP_ALL * 2^MANTISSA_BITS
MAX == INFINITY - 1
MIN_POSITIVE == 2^MANTISSA_BITS

-----------------------------------------------------------------------------
(* The operands test_total_cmp builds.                                     *)

quiet_bit_mask == 2^(MANTISSA_DIGITS - 2)
NAN == INFINITY + quiet_bit_mask            \* f64::NAN is the quiet NaN
min_subnorm == FromScaled(Scaled(MIN_POSITIVE) \div 2^(MANTISSA_DIGITS - 1))
max_subnorm == FromScaled(Scaled(MIN_POSITIVE) - Scaled(min_subnorm))
q_nan == NAN | quiet_bit_mask
s_nan == (NAN & (2^W - 1 - quiet_bit_mask)) + NAN_PAYLOAD

\* The 24 operands of the test's chain of Less assertions, in order.
TestChain ==
    LET up == << 0, min_subnorm, max_subnorm, MIN_POSITIVE, Lit(1, 2), Lit(1, 1),
                 Lit(3, 2), Lit(5, 2), MAX, INFINITY, s_nan, q_nan >>
    IN  [i \in 1 .. 12 |-> Neg(up[13 - i])] \o up

-----------------------------------------------------------------------------
(* f64::total_cmp.                                                         *)

Cmp(l, r) == IF l < r THEN "Less" ELSE IF l = r THEN "Equal" ELSE "Greater"

\* `as i64` of a W-bit pattern.
Signed(b) == IF Negative(b) THEN b - 2^W ELSE b

\* A total_cmp that shifts the sign out logically ((left as u64) >> 63):
\* the mask is always 0 and negative patterns keep their order.
total_cmp_logical_shift(a, b) ==
    LET key(x) == Signed(x ^^ shiftR(shiftR(x, W - 1), 1))
    IN  Cmp(key(a), key(b))

\* left ^= (((left >> 63) as u64) >> 1) as i64; left.cmp(&right)
total_cmp(a, b) ==
    LET key(x) == Signed(x ^^ shiftR(IF Negative(x) THEN 2^W - 1 ELSE 0, 1))
    IN  Cmp(key(a), key(b))

-----------------------------------------------------------------------------

VARIABLES x, y   \* the two operands of self.total_cmp(&other)

vars == << x, y >>

\* Operands from_bits of a sign-clear pattern; the minus gives the others.
Init == x \in 0 .. SIGN - 1 /\ y \in 0 .. SIGN - 1

\* The test's unary minus on either operand.
NegSelf == x' = Neg(x) /\ UNCHANGED y
NegOther == y' = Neg(y) /\ UNCHANGED x

Next == NegSelf \/ NegOther

Spec == Init /\ [][Next]_vars

-----------------------------------------------------------------------------
(* The reference: the IEEE 754 total order the test asserts, by value.     *)
(* NaNs lie beyond the infinities, ordered by payload (so the quiet one    *)
(* beyond the signalling one), and -0 lies just below +0.                  *)

TOP == Scaled(MAX) + 1
Rank(b) == CASE Class(b) = "Nan"      -> TOP + 1 + Mant(b)
             [] Class(b) = "Infinite" -> TOP
             [] OTHER                 -> Scaled(b)
RefKey(b) == IF Negative(b) THEN -(2 * Rank(b) + 1) ELSE 2 * Rank(b)

\* The reference agrees with the chain the test writes out.
ASSUME \A i \in 1 .. Len(TestChain) - 1 :
           Cmp(RefKey(TestChain[i]), RefKey(TestChain[i + 1])) = "Less"

\* total_cmp of any two patterns, the test's operands among them, gives
\* the IEEE total order of their values: the sign-magnitude to
\* two's-complement flip must order negatives backwards, put -0 below +0
\* and both NaN signs beyond the infinities.
TotalCmpIsIeeeOrder == total_cmp(x, y) = Cmp(RefKey(x), RefKey(y))

=============================================================================
