----------------------------- MODULE MC_Unwind -----------------------------
(***************************************************************************)
(* Four functions and seven frames for checking Unwind.                     *)
(*                                                                         *)
(* catcher: a catch_unwind call at [0,4) with a catch pad; [4,8) has none. *)
(* dropper: [0,4) owes nothing; [4,8) holds a value with a drop pad.       *)
(* broken:  its action index points past the action table (Terminate).    *)
(* truncated: its header declares two call-site records, the blob holds    *)
(*   only the first ([0,4), a drop pad); a call at 5 is read past the end  *)
(*   of the blob (Err).  Only Rust frames run on it.                       *)
(*                                                                         *)
(* A call at offset 3 returns to offset 4, the first byte of the next      *)
(* call-site range; the signal frame of dropper is interrupted at 4 itself. *)
(***************************************************************************)
EXTENDS Unwind

CONSTANTS P1, P2

MCPayloads == {P1, P2}

MCFns ==
    [catcher |-> [start |-> 100,
                  lsda  |-> [fnlen |-> 32, nactions |-> 1, nsites |-> 2,
                             sites |-> << [start |-> 0, len |-> 4, lpad |-> 20, action |-> 1],
                                          [start |-> 4, len |-> 4, lpad |-> 0,  action |-> 0] >>]],
     dropper |-> [start |-> 200,
                  lsda  |-> [fnlen |-> 32, nactions |-> 0, nsites |-> 2,
                             sites |-> << [start |-> 0, len |-> 4, lpad |-> 0,  action |-> 0],
                                          [start |-> 4, len |-> 4, lpad |-> 24, action |-> 0] >>]],
     broken  |-> [start |-> 300,
                  lsda  |-> [fnlen |-> 32, nactions |-> 1, nsites |-> 1,
                             sites |-> << [start |-> 0, len |-> 8, lpad |-> 28, action |-> 3] >>]],
     truncated |-> [start |-> 400,
                  lsda  |-> [fnlen |-> 32, nactions |-> 0, nsites |-> 2,
                             sites |-> << [start |-> 0, len |-> 4, lpad |-> 20, action |-> 0] >>]]]

MCFrames ==
    { [pers |-> "rust",    fn |-> "catcher", call |-> 3, before |-> FALSE],
      [pers |-> "rust",    fn |-> "dropper", call |-> 3, before |-> FALSE],
      [pers |-> "rust",    fn |-> "dropper", call |-> 5, before |-> FALSE],
      [pers |-> "rust",    fn |-> "dropper", call |-> 4, before |-> TRUE],
      [pers |-> "rust",    fn |-> "broken",  call |-> 1, before |-> FALSE],
      [pers |-> "rust",    fn |-> "truncated", call |-> 5, before |-> FALSE],
      [pers |-> "foreign", fn |-> "catcher", call |-> 3, before |-> FALSE] }

=============================================================================
