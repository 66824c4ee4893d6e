---------------------------- MODULE UnwindOutcome ----------------------------
(***************************************************************************)
(* What an unwind promises, with the walk over the frames left out: a     *)
(* raised exception is resolved in one step by the innermost frame whose  *)
(* call-site stops the search, as the design (sections 4 to 7) describes. *)
(*                                                                         *)
(*  - A catch in a Rust frame hands a Rust payload to the catch site and  *)
(*    lowers the panic count; a foreign object there aborts the process   *)
(*    (foreign_exception).                                                *)
(*  - A catch(...) in a foreign frame deletes the object: a foreign one   *)
(*    resumes the thread, a Rust one aborts (drop_panic).                 *)
(*  - No stopping frame aborts with END_OF_STACK; malformed or           *)
(*    undecodable metadata in a Rust frame with FATAL_PHASE1_ERROR.       *)
(*  - While a panic is counted, a drop in a cleanup pad owed below the    *)
(*    catching frame may panic again, which aborts (double_panic).        *)
(* Every other ending (a phase-2 error, a pad run for an exception nobody *)
(* catches, a payload handed twice) is outside this specification.        *)
(***************************************************************************)
EXTENDS Integers, Sequences, SequencesExt

CONSTANTS
    Frames,         \* frames a stack may hold: records with a field pers
    Act(_),         \* kind of the call-site action a frame is stopped at
    MaxDepth,       \* longest stack at a raise
    Payloads,       \* payloads a Rust panic may carry
    ForeignPayload, \* the payload of a foreign exception
    NoPayload,      \* "no payload received"
    MaxExceptions,  \* exception objects allocated over a behaviour
    RustClass,      \* class tag of a Rust exception
    ForeignClass,   \* class tag of the other runtime's exceptions
    NoClass         \* class of an object never allocated

VARIABLES
    mode,    \* "run", "unwinding" or "abort"
    cur,     \* the exception object being unwound
    stk,     \* the frames it unwinds, innermost first
    cls,     \* class of each object
    load,    \* payload of each object
    obj,     \* allocation state of each object
    got,     \* payload a Rust catch site received, per object
    count,   \* the thread's panic count
    reason   \* why the process aborted

vars == << mode, cur, stk, cls, load, obj, got, count, reason >>

Ptrs == 1 .. MaxExceptions
Memory == {0} \cup Ptrs
Stacks == UNION { [1 .. n -> Frames] : n \in 1 .. MaxDepth }

\* A frame ends the search: it catches, or it is a Rust frame whose
\* metadata makes the personality give up (Terminate) or cannot be decoded
\* (Err).  (A foreign personality passes over what it cannot read.)
Stops(f) == Act(f) = "Catch" \/ (f.pers = "rust" /\ Act(f) \in {"Terminate", "Err"})

\* The innermost stopping frame of s, 0 if none.
Catcher(s) == SelectInSeq(s, Stops)

\* The frames below the catcher own a cleanup pad.
OwesCleanup(s) == \E i \in 1 .. Catcher(s) - 1 : Act(s[i]) = "Cleanup"

Init ==
    /\ mode = "run"
    /\ cur = 0
    /\ stk = << >>
    /\ cls = [p \in Memory |-> NoClass]
    /\ load = [p \in Memory |-> NoPayload]
    /\ obj = [p \in Memory |-> "none"]
    /\ got = [p \in Memory |-> NoPayload]
    /\ count = 0
    /\ reason = "none"

Raise(p, c, payload, s) ==
    /\ mode = "run"
    /\ obj[p] = "none"
    /\ mode' = "unwinding"
    /\ cur' = p
    /\ stk' = s
    /\ cls' = [cls EXCEPT ![p] = c]
    /\ load' = [load EXCEPT ![p] = payload]
    /\ obj' = [obj EXCEPT ![p] = "live"]
    /\ count' = IF c = RustClass THEN count + 1 ELSE count
    /\ UNCHANGED << got, reason >>

\* How a catch of an object of class c by a frame of runtime pers ends.
CatchVerdict(pers, c) ==
    CASE pers = "rust" /\ c = RustClass -> "caught"
      [] pers = "rust"                  -> "foreign_exception"
      [] c = RustClass                  -> "drop_panic"
      [] OTHER                          -> "caught"

Catch ==
    LET h == Catcher(stk) IN
    /\ mode = "unwinding"
    /\ h > 0 /\ Act(stk[h]) = "Catch"
    /\ obj' = [obj EXCEPT ![cur] = "freed"]
    /\ LET v == CatchVerdict(stk[h].pers, cls[cur])
           delivered == stk[h].pers = "rust" /\ cls[cur] = RustClass
       IN  IF v = "caught"
           THEN /\ mode' = "run" /\ cur' = 0 /\ stk' = << >>
                /\ got' = IF delivered THEN [got EXCEPT ![cur] = load[cur]] ELSE got
                /\ count' = IF delivered THEN count - 1 ELSE count
                /\ UNCHANGED reason
           ELSE /\ mode' = "abort" /\ reason' = v
                /\ UNCHANGED << cur, stk, got, count >>
    /\ UNCHANGED << cls, load >>

GiveUp ==
    LET h == Catcher(stk) IN
    /\ mode = "unwinding"
    /\ h = 0 \/ Act(stk[h]) \in {"Terminate", "Err"}
    /\ mode' = "abort"
    /\ reason' = IF h = 0 THEN "END_OF_STACK" ELSE "FATAL_PHASE1_ERROR"
    /\ UNCHANGED << cur, stk, cls, load, obj, got, count >>

DropPanic ==
    /\ mode = "unwinding"
    /\ count >= 1
    /\ OwesCleanup(stk)
    /\ mode' = "abort"
    /\ reason' = "double_panic"
    /\ UNCHANGED << cur, stk, cls, load, obj, got, count >>

Next ==
    \/ \E p \in Ptrs, payload \in Payloads, s \in Stacks : Raise(p, RustClass, payload, s)
    \/ \E p \in Ptrs, s \in Stacks : Raise(p, ForeignClass, ForeignPayload, s)
    \/ Catch
    \/ GiveUp
    \/ DropPanic

Spec == Init /\ [][Next]_vars

=============================================================================
