---------------------------- MODULE ChaChaStream ----------------------------
(***************************************************************************)
(* What a ChaCha generator promises: a position (key, 128-bit block        *)
(* counter, word index) in the keystream.  Drawing a word returns word idx *)
(* of the keystream block of (key, blk) and moves one word on; seeking     *)
(* jumps to word 0 of the block asked for; rekeying starts at block 0 of  *)
(* the key given.  req records what the caller asked for.                  *)
(* The counter is a 128-bit number: four u32 words, least significant      *)
(* first, that wraps from 2^128 - 1 to 0.                                  *)
(***************************************************************************)
EXTENDS Integers, ChaChaCore, Counter128

CONSTANTS
    Keys,        \* keys a generator may be given: key words 0 .. 7
    Counters,    \* block counters a caller may seek to
    Block(_, _), \* keystream block of a key at a block counter: 16 words
    NoOut        \* no word drawn since the last seek or rekey

VARIABLES key, blk, idx, out,
          req    \* the caller's last request: draw, seek to arg, rekey to arg

vars == << key, blk, idx, out, req >>

Init ==
    /\ key \in Keys
    /\ blk = ZeroCounter
    /\ idx = 0
    /\ out = NoOut
    /\ req = [op |-> "rekey", arg |-> key]

Draw ==
    /\ out' = Block(key, blk)[idx]
    /\ idx' = (idx + 1) % STATE_WORDS
    /\ blk' = IF idx = STATE_WORDS - 1 THEN Inc(blk) ELSE blk
    /\ req' = [op |-> "draw", arg |-> << >>]
    /\ UNCHANGED key

\* Jump to word 0 of block c, the block the caller asked for.
Seek(c) ==
    /\ blk' = c
    /\ idx' = 0
    /\ out' = NoOut
    /\ req' = [op |-> "seek", arg |-> c]
    /\ UNCHANGED key

\* Start at block 0 of key k, the key the caller gave.
Rekey(k) ==
    /\ key' = k
    /\ blk' = ZeroCounter
    /\ idx' = 0
    /\ out' = NoOut
    /\ req' = [op |-> "rekey", arg |-> k]

Next == Draw \/ \E c \in Counters : Seek(c) \/ \E k \in Keys : Rekey(k)

Spec == Init /\ [][Next]_vars

=============================================================================
