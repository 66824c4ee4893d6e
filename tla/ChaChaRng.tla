------------------------------ MODULE ChaChaRng ------------------------------
(***************************************************************************)
(* The ChaChaRng generator of sgx_rand/src/chacha.rs: its three fields     *)
(* buffer, state and index, and one action per operation that changes     *)
(* them (the constructors new_unseeded, from_seed and rand, and reseed,    *)
(* set_counter and next_u32).  init and update are operators, used inside *)
(* the operations that call them.  A u64 argument is a pair of words      *)
(* <<high u32, low u32>>; a seed is a sequence of words.                   *)
(*                                                                         *)
(* The generator is shown to implement the keystream of ChaChaStream.      *)
(***************************************************************************)
EXTENDS Integers, Sequences, ChaChaCore, Counter128

CONSTANTS
    Seeds,      \* seeds given to from_seed and reseed: sequences of words
    RandKeys,   \* the 8 words rand() draws from another generator
    CounterArgs, \* (counter_low, counter_high) arguments of set_counter; a
                \* u64 is a <<hi, lo>> pair of words
    MaxDraws,   \* bound on next_u32 calls since the last repositioning
    NoOut       \* no word drawn yet

VARIABLES buffer, state, index, \* the fields of struct ChaChaRng
          out,                  \* the value the last next_u32 since the last
                                \* repositioning returned
          drawn,                \* next_u32 calls since the last repositioning
          last                  \* the last call and its argument: [op, arg]

vars == << buffer, state, index, out, drawn, last >>

KEY_WORDS == 8
KeyIdx == 0 .. KEY_WORDS - 1
ZeroKey == [i \in KeyIdx |-> ZeroWord]
ZeroState == [i \in StateIdx |-> ZeroWord]

\* "expand 32-byte k": 0x61707865 0x3320646E 0x79622D32 0x6B206574.
Sigma == << U32(24944, 30821), U32(13088, 25710),
            U32(31074, 11570), U32(27424, 25972) >>

\* A generator value is a record of the three fields.
Gen(b, s, i) == [buffer |-> b, state |-> s, index |-> i]

EMPTY == Gen(ZeroState, ZeroState, STATE_WORDS)

\* init(&mut self, key): constants, key, zero counter, force a refill.
init(r, key) ==
    Gen(r.buffer,
        [i \in StateIdx |-> CASE i < 4  -> Sigma[i + 1]
                              [] i < 12 -> key[i - 4]
                              [] OTHER  -> ZeroWord],
        STATE_WORDS)

\* The counter step of update(): add one to state[12], and carry into the
\* next word only while the word just incremented wrapped to zero.
IncrementCounter(s) ==
    LET one == U32(0, 1)
        s12 == [s EXCEPT ![12] = WAdd(s[12], one)]
        s13 == [s12 EXCEPT ![13] = WAdd(s[13], one)]
        s14 == [s13 EXCEPT ![14] = WAdd(s[14], one)]
        s15 == [s14 EXCEPT ![15] = WAdd(s[15], one)]
    IN  CASE s12[12] # ZeroWord -> s12
          [] s13[13] # ZeroWord -> s13
          [] s14[14] # ZeroWord -> s14
          [] OTHER              -> s15

\* Mutant of update: the buffer index is not reset after the refill.
update_no_index_reset(r) == Gen(core(r.state), IncrementCounter(r.state), r.index)

\* update(): refill the buffer from the state, reset the index, then step
\* the 128-bit counter.
update(r) == Gen(core(r.state), IncrementCounter(r.state), 0)

\* Mutant of set_counter: the two u32 halves of counter_low exchanged.
set_counter_swapped_halves(r, low, high) ==
    Gen(r.buffer,
        [r.state EXCEPT ![12] = low[1], ![13] = low[2],
                        ![14] = high[2], ![15] = high[1]],
        STATE_WORDS)

\* Mutant of set_counter: the forced recomputation is forgotten.
set_counter_keeps_index(r, low, high) ==
    Gen(r.buffer,
        [r.state EXCEPT ![12] = low[2], ![13] = low[1],
                        ![14] = high[2], ![15] = high[1]],
        r.index)

\* set_counter(counter_low, counter_high): the u64s split into u32 words,
\* low word first, and a forced refill.
set_counter(r, low, high) ==
    Gen(r.buffer,
        [r.state EXCEPT ![12] = low[2], ![13] = low[1],
                        ![14] = high[2], ![15] = high[1]],
        STATE_WORDS)

\* reseed(seed): init with the zero key, then zip the seed into the key
\* words (at most KEY_WORDS of them).
CopyKey(r, seed) ==
    [r EXCEPT !.state =
        [i \in StateIdx |-> IF 4 <= i /\ i < 4 + KEY_WORDS /\ i - 4 < Len(seed)
                            THEN seed[i - 3] ELSE r.state[i]]]

\* Mutant of reseed: the seed is copied over the old state without init.
reseed_no_init(r, seed) == CopyKey(r, seed)

reseed(r, seed) == CopyKey(init(r, ZeroKey), seed)

new_unseeded == init(EMPTY, ZeroKey)

from_seed(seed) == reseed(EMPTY, seed)

\* rand(other): eight words drawn from the other generator, as a seed.
rand(words) == from_seed(words)

\* next_u32(): refill when the buffer is used up, then return the word at
\* index and move on.  The result is << value, generator after >>.
TakeWord(r) == << r.buffer[r.index % STATE_WORDS], [r EXCEPT !.index = @ + 1] >>

next_u32(r) == TakeWord(IF r.index = STATE_WORDS THEN update(r) ELSE r)

Self == Gen(buffer, state, index)

Call(op, arg) == [op |-> op, arg |-> arg]

\* Assigning a freshly constructed generator (or reseeding, or seeking)
\* repositions it.
Become(r, call) ==
    /\ buffer' = r.buffer
    /\ state' = r.state
    /\ index' = r.index
    /\ drawn' = 0
    /\ out' = NoOut
    /\ last' = call

\* The constructor calls and the generator each builds.
Constructors ==
    {Call("new_unseeded", << >>)} \cup {Call("from_seed", s) : s \in Seeds}
        \cup {Call("rand", k) : k \in RandKeys}
Construct(c) == CASE c.op = "new_unseeded" -> new_unseeded
                  [] c.op = "from_seed"    -> from_seed(c.arg)
                  [] c.op = "rand"         -> rand(c.arg)

Init ==
    /\ \E c \in Constructors : /\ buffer = Construct(c).buffer
                               /\ state = Construct(c).state
                               /\ index = Construct(c).index
                               /\ last = c
    /\ out = NoOut
    /\ drawn = 0

NewUnseeded == Become(new_unseeded, Call("new_unseeded", << >>))

FromSeed == \E s \in Seeds : Become(from_seed(s), Call("from_seed", s))

Rand == \E k \in RandKeys : Become(rand(k), Call("rand", k))

Reseed == \E s \in Seeds : Become(reseed(Self, s), Call("reseed", s))

SetCounter ==
    \E a \in CounterArgs : Become(set_counter(Self, a[1], a[2]), Call("set_counter", a))

\* The caller receives res[1]; the generator becomes res[2].
Returned(res) ==
    /\ out' = res[1]
    /\ buffer' = res[2].buffer
    /\ state' = res[2].state
    /\ index' = res[2].index

NextU32 ==
    /\ drawn < MaxDraws
    /\ Returned(next_u32(Self))
    /\ drawn' = drawn + 1
    /\ last' = Call("next_u32", << >>)

Next == NewUnseeded \/ FromSeed \/ Rand \/ Reseed \/ SetCounter \/ NextU32

Spec == Init /\ [][Next]_vars

-----------------------------------------------------------------------------
(* Properties *)

TypeOK ==
    /\ IsWords(buffer, StateIdx)
    /\ IsWords(state, StateIdx)
    /\ index \in 0 .. STATE_WORDS
    /\ out = NoOut \/ IsW32(out)
    /\ drawn \in 0 .. MaxDraws
    /\ last.op \in {"new_unseeded", "from_seed", "rand", "reseed", "set_counter", "next_u32"}

\* The RFC 7539 block of the all-zero key at block counter 0; its first two
\* words are the 2917185654 and 2419978656 that the new_unseeded doc
\* comment says an unseeded generator yields first.
ZeroKeyBlock ==
    << U32(44512, 47222), U32(36925, 61856), U32(58730, 23872), U32(10429, 34387),
       U32(47129, 53949), U32( 6893, 36256), U32(52463, 13992), U32(50957, 30603),
       U32(31833, 16858), U32(36168, 22353), U32(16352,  9335), U32(14154, 55480),
       U32(62648, 17258), U32( 7329,  6165), U32(27062, 34755), U32(34405, 61106) >>

KeyOf == [i \in KeyIdx |-> state[4 + i]]
CounterOf == [i \in 0 .. 3 |-> state[12 + i]]

\* Whenever a zero-key generator has just refilled from block 0 (so its
\* counter reads 1 and the buffer is in use), the buffer is the ChaCha20
\* block of the documented vector: the block function (quarter round,
\* double round, 20 rounds, final addition) is ChaCha20.
ZeroKeyBlockMatchesVector ==
    (KeyOf = ZeroKey /\ CounterOf = Inc(ZeroCounter) /\ index < STATE_WORDS)
        => \A i \in StateIdx : buffer[i] = ZeroKeyBlock[i + 1]

\* The key a seed gives, per the from_seed doc comment: the first eight
\* words, the rest zero.
SeedKey(seed) == [i \in KeyIdx |-> IF i < Len(seed) THEN seed[i + 1] ELSE ZeroWord]

\* The state of key k at block counter c, in the word layout the init doc
\* comment gives (constants, key, counter), and its keystream block.
KeyedState(k, c) ==
    [i \in StateIdx |-> CASE i < 4  -> Sigma[i + 1]
                          [] i < 12 -> k[i - 4]
                          [] OTHER  -> c[i - 12]]

Keystream(k, c) == core(KeyedState(k, c))

\* What the last call asked the keystream for: the 128-bit counter
\* set_counter's two u64 arguments name, the key a seed gives, or a draw.
ReqOf(c) ==
    CASE c.op = "next_u32"     -> [op |-> "draw", arg |-> << >>]
      [] c.op = "set_counter"  -> [op |-> "seek", arg |-> FromU64s(c.arg[1], c.arg[2])]
      [] c.op = "new_unseeded" -> [op |-> "rekey", arg |-> ZeroKey]
      [] OTHER                 -> [op |-> "rekey", arg |-> SeedKey(c.arg)]

\* The position the generator stands at: after a refill the counter is
\* already one block ahead of the buffer it is reading; at index 16 the
\* next word is word 0 of the counter's block.
Stream == INSTANCE ChaChaStream
            WITH key   <- KeyOf,
                 blk   <- IF index = STATE_WORDS THEN CounterOf ELSE Dec(CounterOf),
                 idx   <- index % STATE_WORDS,
                 out   <- out,
                 req   <- ReqOf(last),
                 Keys  <- {ZeroKey} \cup {SeedKey(s) : s \in Seeds \cup RandKeys},
                 Counters <- {FromU64s(a[1], a[2]) : a \in CounterArgs},
                 Block <- Keystream,
                 NoOut <- NoOut

\* Every sequence of constructor, reseed, set_counter and next_u32 calls
\* draws exactly the ChaCha keystream: each next_u32 returns the next word
\* of the block at the (key, 128-bit counter) position, set_counter moves to
\* word 0 of the block its two u64 arguments name (counter_low the low 64
\* bits), and every constructor and reseed restarts at block 0 of the key
\* its seed gives (its first eight words, the rest zero).
StreamRefinement == Stream!Spec

=============================================================================
