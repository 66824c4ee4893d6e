----------------------------- MODULE Counter128 -----------------------------
(***************************************************************************)
(* A 128-bit counter as four u32 words, least significant first (the      *)
(* layout of state[12..15] in chacha.rs), and its successor and            *)
(* predecessor mod 2^128.  These are the reference arithmetic the          *)
(* generator's own carry chain is compared with.                           *)
(***************************************************************************)
EXTENDS Integers, ChaChaCore

IsCounter(c) == IsWords(c, 0 .. 3)
ZeroCounter == [i \in 0 .. 3 |-> ZeroWord]
MaxWord == U32(Half - 1, Half - 1)

\* The counter plus one, carrying from word i upwards.
RECURSIVE IncFrom(_, _)
IncFrom(c, i) ==
    IF i > 3 THEN c
    ELSE IF c[i] = MaxWord THEN IncFrom([c EXCEPT ![i] = ZeroWord], i + 1)
         ELSE [c EXCEPT ![i] = WAdd(c[i], U32(0, 1))]

\* The counter minus one, borrowing from word i upwards.
RECURSIVE DecFrom(_, _)
DecFrom(c, i) ==
    IF i > 3 THEN c
    ELSE IF c[i] = ZeroWord THEN DecFrom([c EXCEPT ![i] = MaxWord], i + 1)
         ELSE [c EXCEPT ![i] = WAdd(c[i], MaxWord)]

\* The counter whose low 64 bits are lo64 and high 64 bits hi64, each u64
\* a <<high u32, low u32>> pair: the 128-bit value set_counter's doc names.
FromU64s(lo64, hi64) == [i \in 0 .. 3 |-> IF i < 2 THEN lo64[2 - i] ELSE hi64[4 - i]]

Inc(c) == IncFrom(c, 0)
Dec(c) == DecFrom(c, 0)

=============================================================================
