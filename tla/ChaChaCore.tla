----------------------------- MODULE ChaChaCore -----------------------------
(***************************************************************************)
(* The ChaCha20 block function of sgx_rand/src/chacha.rs: the              *)
(* quarter_round and double_round macros and core().                       *)
(*                                                                         *)
(* A Wrapping<u32> word is kept as two 16-bit halves <<hi, lo>>: TLC       *)
(* integers are 32-bit signed, and every operation of the block function   *)
(* (wrapping add, xor, rotate_left) is defined on the halves with the      *)
(* carries and the bits crossing between them.                             *)
(***************************************************************************)
EXTENDS Integers, Sequences, Bitwise

Half == 65536                       \* 2^16
STATE_WORDS == 16
CHACHA_ROUNDS == 20
StateIdx == 0 .. STATE_WORDS - 1

Halves == 0 .. Half - 1
\* A u32 word, and a word array over index set D.  (Stated as operators, so
\* that the 2^32 words are never built as a set.)
IsW32(w) == w \in Halves \X Halves
IsWords(f, D) == f \in [D -> Halves \X Halves]

\* The u32 with the given high and low 16 bits.
U32(hi, lo) == << hi, lo >>
ZeroWord == U32(0, 0)

\* Wrapping addition mod 2^32: the low halves' carry goes into the high half.
WAdd(a, b) ==
    LET lo == a[2] + b[2]
    IN  << (a[1] + b[1] + lo \div Half) % Half, lo % Half >>

WXor(a, b) == << a[1] ^^ b[1], a[2] ^^ b[2] >>

\* u32::rotate_left(n) for 0 < n <= 16: the top n bits of each half move
\* into the bottom of the other.
RotL(a, n) ==
    IF n = 16 THEN << a[2], a[1] >>
    ELSE << ((a[1] * 2^n) % Half) + (a[2] \div 2^(16 - n)),
            ((a[2] * 2^n) % Half) + (a[1] \div 2^(16 - n)) >>

(***************************************************************************)
(* TLC recomputes a LET definition at every use but evaluates an operator   *)
(* argument once, so intermediate results below are handed on as operator *)
(* arguments, and Strict(x) makes TLC compute x before the next round      *)
(* instead of chaining all 80 quarter rounds into one deep evaluation.     *)
(***************************************************************************)
Strict(x) == x = x

\* The quarter_round! lines "a += b; d ^= a; d = rotl(d, n)" on the four
\* words t = <<a, b, c, d>>.
AddXorRotDWith(t, a, n) == << a, t[2], t[3], RotL(WXor(t[4], a), n) >>
AddXorRotD(t, n) == AddXorRotDWith(t, WAdd(t[1], t[2]), n)

\* The lines "c += d; b ^= c; b = rotl(b, n)".
AddXorRotBWith(t, c, n) == << t[1], RotL(WXor(t[2], c), n), c, t[4] >>
AddXorRotB(t, n) == AddXorRotBWith(t, WAdd(t[3], t[4]), n)

QuarterWords(t) == AddXorRotB(AddXorRotD(AddXorRotB(AddXorRotD(t, 16), 12), 8), 7)

PutWords(x, a, b, c, d, t) == [x EXCEPT ![a] = t[1], ![b] = t[2], ![c] = t[3], ![d] = t[4]]

\* quarter_round!(a, b, c, d) on the state x (indices as in the code).
quarter_round(x, a, b, c, d) ==
    PutWords(x, a, b, c, d, QuarterWords(<< x[a], x[b], x[c], x[d] >>))

\* The eight quarter_round! invocations of double_round!, in order: a column
\* round, then a diagonal round.
DoubleRoundOrder ==
    << <<0, 4,  8, 12>>, <<1, 5,  9, 13>>, <<2, 6, 10, 14>>, <<3, 7, 11, 15>>,
       <<0, 5, 10, 15>>, <<1, 6, 11, 12>>, <<2, 7,  8, 13>>, <<3, 4,  9, 14>> >>

\* Mutant order: a mistyped index in the second diagonal quarter round.
DoubleRoundOrderTypo == [DoubleRoundOrder EXCEPT ![6] = <<1, 6, 11, 13>>]

\* The quarter rounds order[k], order[k+1], ... applied to x in turn.
RECURSIVE QuarterRounds(_, _, _)
QuarterRounds(order, x, k) ==
    IF k > Len(order) \/ ~Strict(x) THEN x
    ELSE QuarterRounds(order,
                       quarter_round(x, order[k][1], order[k][2], order[k][3], order[k][4]),
                       k + 1)

\* Mutant of double_round.
double_round_typo(x) == QuarterRounds(DoubleRoundOrderTypo, x, 1)

double_round(x) == QuarterRounds(DoubleRoundOrder, x, 1)

\* n double rounds.
RECURSIVE DoubleRounds(_, _)
DoubleRounds(x, n) ==
    IF n = 0 \/ ~Strict(x) THEN x ELSE DoubleRounds(double_round(x), n - 1)

AddWords(x, y) == [i \in StateIdx |-> WAdd(x[i], y[i])]

\* core(output, input): CHACHA_ROUNDS / 2 double rounds of a copy of the
\* input, then the input added word by word.
core(input) == AddWords(DoubleRounds(input, CHACHA_ROUNDS \div 2), input)

=============================================================================
