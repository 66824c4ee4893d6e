---------------------------- MODULE MC_ChaChaRng ----------------------------
EXTENDS ChaChaRng

WMax == U32(Half - 1, Half - 1)

\* Seeds: the empty seed (every key word zero-filled) and nine distinct
\* words (one more than the key holds, so the ninth must be dropped).
NineWords == [i \in 1 .. 9 |-> U32(0, i)]
MCSeeds == { << >>, NineWords }

\* rand() draws the eight words the nine-word seed keeps: the same key must
\* give the same stream whichever constructor built the generator.
MCRandKeys == { SubSeq(NineWords, 1, 8) }

\* set_counter(low, high) arguments, as u64 <<hi, lo>> word pairs: 0,
\* 2^32 - 1 and 2^64 - 1, so that the first refill after the call carries
\* into word 13, into word 14, and wraps the whole 128-bit counter.
Z64 == << ZeroWord, ZeroWord >>
M32 == << ZeroWord, WMax >>
M64 == << WMax, WMax >>
MCCounterArgs == { << Z64, Z64 >>, << M32, Z64 >>, << M64, Z64 >>, << M64, M64 >> }

(***************************************************************************)
(* core is evaluated once per block at start-up rather than at every state *)
(* that refills from it: the blocks the model can reach are those of each  *)
(* key at the counters the generator starts from (0 or a set_counter       *)
(* value) and one block on.  MCcore replaces core in the configuration; it *)
(* computes the same function, through the same double_round.              *)
(***************************************************************************)
MCKeys == {ZeroKey} \cup {SeedKey(s) : s \in MCSeeds \cup MCRandKeys}
CounterAt(a) == [i \in 0 .. 3 |-> set_counter(EMPTY, a[1], a[2]).state[12 + i]]
StartCounters == {ZeroCounter} \cup {CounterAt(a) : a \in MCCounterArgs}
CoreInputs == {KeyedState(k, c) : k \in MCKeys,
                                  c \in StartCounters \cup {Inc(c) : c \in StartCounters}}
ComputeCore(input) == AddWords(DoubleRounds(input, CHACHA_ROUNDS \div 2), input)
CoreTable == [s \in CoreInputs |-> ComputeCore(s)]
MCcore(input) == IF input \in DOMAIN CoreTable THEN CoreTable[input] ELSE ComputeCore(input)

=============================================================================
