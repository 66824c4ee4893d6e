------------------------------ MODULE Unwind ------------------------------
(***************************************************************************)
(* Two-phase panic propagation of panic_unwind/src/gcc.rs on one thread.  *)
(*                                                                         *)
(* panic() boxes an Exception (class tag + payload) and hands it to the    *)
(* native unwinder.  Phase 1 (search) walks the frames innermost first and *)
(* asks each frame's personality routine whether it catches; phase 2       *)
(* (cleanup) walks them again, and the personality installs the context   *)
(* of every landing pad up to the handler frame.  Cleanup pads run their   *)
(* drops and call _Unwind_Resume; the catch pad calls cleanup(), which     *)
(* reclaims the box and hands the payload to the catch site.               *)
(*                                                                         *)
(* Modelled from the code: panic, exception_cleanup, cleanup,              *)
(* rust_exception_class, rust_eh_personality_impl and find_eh_action.      *)
(* Modelled from the design (section 6 and 7): the native unwinder's two   *)
(* phase loops, _Unwind_Resume and _Unwind_DeleteException, the panic      *)
(* count of the panicking glue and its double-panic abort, and frames of   *)
(* a foreign runtime (a C++ catch(...)) that share the unwinder.           *)
(***************************************************************************)
EXTENDS Integers, Sequences, FiniteSets, SequencesExt, EHDecoder

CONSTANTS
    Fns,            \* function name -> [start |-> address, lsda |-> LSDA]
    Frames,         \* frames a stack may hold: [pers, fn, call, before]
    MaxDepth,       \* longest stack at a raise
    Payloads,       \* payloads a Rust panic may carry
    ForeignPayload, \* the payload of a foreign exception
    NoPayload,      \* "no payload received"
    MaxExceptions,  \* exception objects allocated over a behaviour
    CallLen         \* length in bytes of a call instruction

ASSUME MaxDepth \in Nat \ {0}
ASSUME MaxExceptions \in Nat \ {0}
ASSUME CallLen \in Nat \ {0}
ASSUME \A f \in Frames : f.pers \in {"rust", "foreign"} /\ f.fn \in DOMAIN Fns

VARIABLES
    pc,          \* "run", "search" (phase 1), "cleanup" (phase 2), "pad", "abort"
    stack,       \* frames of the unwinding thread, innermost first
    pos,         \* index of the frame the unwinder is visiting
    handler,     \* handler frame found by phase 1 (private_2), 0 if none
    exc,         \* exception object pointer held by the unwinder
    heap,        \* allocation state of each exception object
    class,       \* exception_class field of each exception object
    cause,       \* payload of each exception object
    gr,          \* the exception pointer and selector registers
    ip,          \* instruction pointer installed in the context
    panicCount,  \* the thread's panic count
    ran,         \* frames whose landing pads were entered in this unwind
    got,         \* payload a Rust catch site received, per exception object
    faults,      \* pointers dereferenced or freed while not live
    why          \* why the process aborted

vars == << pc, stack, pos, handler, exc, heap, class, cause, gr, ip,
           panicCount, ran, got, faults, why >>

NULL == 0
Ptrs == 1 .. MaxExceptions
Memory == {NULL} \cup Ptrs
Stacks == UNION { [1 .. n -> Frames] : n \in 1 .. MaxDepth }

\* rust_exception_class: the 8-byte tag 0x4d4f_5a00_5255_5354, "MOZ\0RUST".
\* Class tags are only compared for equality, so they are kept as strings.
rust_exception_class == "MOZ\\0RUST"
\* Class of the other runtime's exceptions (0x474e_5543_432b_2b00).
ForeignExceptionClass == "GNUCC++\\0"
NoClass == "none"

\* UNWIND_DATA_REG on x86_64: the DWARF numbers of RAX (exception pointer)
\* and RDX (selector); gr maps each to its value.
UNWIND_DATA_REG == << 0, 1 >>
DataRegs == {UNWIND_DATA_REG[1], UNWIND_DATA_REG[2]}

\* What a landing pad reads as the exception pointer.
ExceptionReg == gr[UNWIND_DATA_REG[1]]
-----------------------------------------------------------------------------
(* Frame context, as the native unwinder reports it.                       *)

FnStart(f) == Fns[f.fn].start
LSDA(f) == Fns[f.fn].lsda

\* _Unwind_GetIPInfo: the return address of a call, or, in a signal frame
\* (ip_before_instr set), the address of the interrupted instruction.
IPInfo(f) == IF f.before THEN FnStart(f) + f.call
             ELSE FnStart(f) + f.call + CallLen

\* The action the compiler attached to the call-site the frame is stopped
\* at: what the frame is owed.  Used by the properties.
CallSiteAction(f) == FindEHAction(LSDA(f), FnStart(f) + f.call, FnStart(f))

\* A find_eh_action that looks up the raw return address, as it would
\* without the adjustment for ip_before_instr.
find_eh_action_unadjusted(f) == FindEHAction(LSDA(f), IPInfo(f), FnStart(f))

\* gcc.rs find_eh_action: step back into the call instruction unless the
\* unwinder says the ip already points at the instruction.
find_eh_action(f) ==
    LET ipi == IPInfo(f)
        eip == IF f.before THEN ipi ELSE ipi - 1
    IN  FindEHAction(LSDA(f), eip, FnStart(f))

-----------------------------------------------------------------------------
(* The personality routines.                                               *)

\* A personality that lets the search phase pass over a call-site it
\* cannot read, as it passes over one without a handler.
rust_eh_personality_impl_terminate_continues(version, actions, act) ==
    IF version # 1 \/ act.kind = "Err" THEN "FATAL_PHASE1_ERROR"
    ELSE IF "SEARCH_PHASE" \in actions
         THEN IF act.kind = "Catch" THEN "HANDLER_FOUND" ELSE "CONTINUE_UNWIND"
         ELSE CASE act.kind = "None"                -> "CONTINUE_UNWIND"
                [] act.kind \in {"Cleanup", "Catch"} -> "INSTALL_CONTEXT"
                [] act.kind = "Terminate"           -> "FATAL_PHASE2_ERROR"

\* rust_eh_personality_impl: the reason code for one frame.  actions is
\* the set of _UA_ flags the unwinder passes; a decode failure is
\* FATAL_PHASE1_ERROR in either phase.
rust_eh_personality_impl(version, actions, act) ==
    IF version # 1 \/ act.kind = "Err" THEN "FATAL_PHASE1_ERROR"
    ELSE IF "SEARCH_PHASE" \in actions
         THEN CASE act.kind \in {"None", "Cleanup"} -> "CONTINUE_UNWIND"
                [] act.kind = "Catch"               -> "HANDLER_FOUND"
                [] act.kind = "Terminate"           -> "FATAL_PHASE1_ERROR"
         ELSE CASE act.kind = "None"                -> "CONTINUE_UNWIND"
                [] act.kind \in {"Cleanup", "Catch"} -> "INSTALL_CONTEXT"
                [] act.kind = "Terminate"           -> "FATAL_PHASE2_ERROR"

\* The register writes of the INSTALL_CONTEXT arm with the two registers
\* exchanged.
InstallContextSwapped(lpad) ==
    gr' = (UNWIND_DATA_REG[1] :> 0) @@ (UNWIND_DATA_REG[2] :> exc) /\ ip' = lpad

\* The INSTALL_CONTEXT arm: exception pointer and a zero selector in the
\* UNWIND_DATA_REG registers, the landing pad as the new ip.
InstallContext(lpad) ==
    gr' = (UNWIND_DATA_REG[1] :> exc) @@ (UNWIND_DATA_REG[2] :> 0) /\ ip' = lpad

\* A frame of the other runtime classifies its call-sites the same way
\* and cannot report a malformed table.
ForeignPersonality(actions, act) ==
    IF "SEARCH_PHASE" \in actions
    THEN IF act.kind = "Catch" THEN "HANDLER_FOUND" ELSE "CONTINUE_UNWIND"
    ELSE IF act.kind = "None" THEN "CONTINUE_UNWIND" ELSE "INSTALL_CONTEXT"

\* The action the frame's own personality resolves, and its reason code.
ActionOf(f) == IF f.pers = "rust" THEN find_eh_action(f) ELSE CallSiteAction(f)
Personality(f, actions) ==
    IF f.pers = "rust" THEN rust_eh_personality_impl(1, actions, ActionOf(f))
    ELSE ForeignPersonality(actions, ActionOf(f))

\* Which landing pad the compiler put at the installed ip: the code of the
\* call-site record whose landing pad it is.
PadKind(f) ==
    LET L == LSDA(f)
        i == SelectInSeq(L.sites, LAMBDA cs : cs.lpad # 0 /\ FnStart(f) + cs.lpad = ip)
    IN  CASE i = 0                     -> "none"
          [] L.sites[i].action = 0     -> "cleanup"
          [] OTHER                     -> "catch"

-----------------------------------------------------------------------------
(* Exception objects.                                                      *)

Live(p) == p \in Ptrs /\ heap[p] = "live"
\* Record a use of p that is only sound while p is live.
Use(p) == faults' = IF Live(p) THEN faults ELSE faults \cup {p}
NextFree == Min({p \in Ptrs : heap[p] = "none"})

\* Start of an unwind of stack s; the unwinder keeps no other state.
BeginRaise(s) ==
    /\ stack' = s
    /\ pos' = 1
    /\ handler' = 0
    /\ ran' = << >>
    /\ pc' = "search"

\* The thread is back to ordinary execution.
EndUnwind ==
    /\ pc' = "run"
    /\ stack' = << >>
    /\ pos' = 0
    /\ handler' = 0
    /\ exc' = NULL
    /\ ran' = << >>

\* gcc.rs panic(): the panicking glue counts the panic, a boxed Exception
\* with the Rust class and the payload goes to _Unwind_RaiseException.
panic(payload, s) ==
    /\ pc = "run"
    /\ \E p \in Ptrs : heap[p] = "none"
    /\ LET p == NextFree IN
         /\ heap' = [heap EXCEPT ![p] = "live"]
         /\ class' = [class EXCEPT ![p] = rust_exception_class]
         /\ cause' = [cause EXCEPT ![p] = payload]
         /\ exc' = p
    /\ panicCount' = panicCount + 1
    /\ BeginRaise(s)
    /\ UNCHANGED << gr, ip, got, faults, why >>

\* Code of the other runtime throws through the thread's frames.
ForeignRaise(s) ==
    /\ pc = "run"
    /\ \E p \in Ptrs : heap[p] = "none"
    /\ LET p == NextFree IN
         /\ heap' = [heap EXCEPT ![p] = "live"]
         /\ class' = [class EXCEPT ![p] = ForeignExceptionClass]
         /\ cause' = [cause EXCEPT ![p] = ForeignPayload]
         /\ exc' = p
    /\ BeginRaise(s)
    /\ UNCHANGED << panicCount, gr, ip, got, faults, why >>

-----------------------------------------------------------------------------
(* The native unwinder's phase 1: one personality call per frame.          *)

\* A frame step that leaves the unwinder on the same frame.
uw_advance_context_stuck == pos' = pos

\* uw_advance_context: move to the caller's frame.
uw_advance_context == pos' = pos + 1

SearchFrame ==
    /\ pc = "search"
    /\ pos <= Len(stack)
    /\ LET code == Personality(stack[pos], {"SEARCH_PHASE"}) IN
         CASE code = "CONTINUE_UNWIND" ->
                uw_advance_context /\ UNCHANGED << pc, handler, why >>
           [] code = "HANDLER_FOUND" ->
                handler' = pos /\ pos' = 1 /\ pc' = "cleanup" /\ UNCHANGED why
           [] OTHER ->
                pc' = "abort" /\ why' = code /\ UNCHANGED << pos, handler >>
    /\ UNCHANGED << stack, exc, heap, class, cause, gr, ip, panicCount, ran,
                    got, faults >>

\* No frame claims the exception: _Unwind_RaiseException returns
\* END_OF_STACK, panic() returns it and the panicking glue aborts (a C++
\* raise calls std::terminate).
EndOfStack ==
    /\ pc = "search"
    /\ pos > Len(stack)
    /\ pc' = "abort"
    /\ why' = "END_OF_STACK"
    /\ UNCHANGED << stack, pos, handler, exc, heap, class, cause, gr, ip,
                    panicCount, ran, got, faults >>

(* Phase 2: the handler frame is called with HANDLER_FRAME set; a frame    *)
(* that asks to continue there, or any reason other than continue/install, *)
(* is a fatal phase-2 error.                                               *)
CleanupFrame ==
    /\ pc = "cleanup"
    /\ pos <= Len(stack)
    /\ LET f     == stack[pos]
           flags == {"CLEANUP_PHASE"} \cup (IF pos = handler THEN {"HANDLER_FRAME"} ELSE {})
           code  == Personality(f, flags)
       IN  CASE code = "CONTINUE_UNWIND" /\ pos # handler ->
                  uw_advance_context /\ UNCHANGED << pc, gr, ip, why >>
             [] code = "INSTALL_CONTEXT" ->
                  InstallContext(ActionOf(f).lpad) /\ pc' = "pad"
                  /\ UNCHANGED << pos, why >>
             [] OTHER ->
                  pc' = "abort" /\ why' = "FATAL_PHASE2_ERROR"
                  /\ UNCHANGED << pos, gr, ip >>
    /\ UNCHANGED << stack, handler, exc, heap, class, cause, panicCount, ran,
                    got, faults >>

-----------------------------------------------------------------------------
(* Landing pads.                                                           *)

\* A cleanup pad runs the frame's drops and calls _Unwind_Resume with the
\* pointer it received in the register; phase 2 goes on with the next frame
\* (past the last frame it is a fatal phase-2 error).
CleanupPad ==
    /\ pc = "pad"
    /\ PadKind(stack[pos]) = "cleanup"
    /\ ran' = Append(ran, pos)
    /\ Use(ExceptionReg)
    /\ exc' = ExceptionReg
    /\ IF pos < Len(stack)
       THEN pc' = "cleanup" /\ pos' = pos + 1 /\ UNCHANGED why
       ELSE pc' = "abort" /\ why' = "FATAL_PHASE2_ERROR" /\ UNCHANGED pos
    /\ UNCHANGED << stack, handler, heap, class, cause, gr, ip, panicCount,
                    got >>

\* A drop in a cleanup pad panics while the thread is already panicking:
\* the panicking glue aborts instead of raising again.
DoublePanic ==
    /\ pc = "pad"
    /\ PadKind(stack[pos]) = "cleanup"
    /\ panicCount >= 1
    /\ pc' = "abort"
    /\ why' = "double_panic"
    /\ UNCHANGED << stack, pos, handler, exc, heap, class, cause, gr, ip,
                    panicCount, ran, got, faults >>

\* A cleanup(ptr) that unboxes every object without comparing its class.
cleanup_unchecked(ptr) ==
    /\ Use(ptr)
    /\ heap' = [heap EXCEPT ![ptr] = "freed"]
    /\ got' = [got EXCEPT ![ptr] = cause[ptr]]
    /\ panicCount' = panicCount - 1
    /\ EndUnwind /\ UNCHANGED << why, class, cause, gr, ip >>

\* gcc.rs cleanup(ptr), called from a Rust catch pad.  A foreign object is
\* given back to _Unwind_DeleteException and the process aborts with the
\* foreign-exception fault; a Rust object is unboxed and its payload
\* returned to the catch site, which then lowers the panic count.
cleanup(ptr) ==
    /\ Use(ptr)
    /\ heap' = [heap EXCEPT ![ptr] = "freed"]
    /\ IF class[ptr] # rust_exception_class
       THEN /\ pc' = "abort" /\ why' = "foreign_exception"
            /\ UNCHANGED << stack, pos, handler, exc, ran, got, panicCount >>
       ELSE /\ got' = [got EXCEPT ![ptr] = cause[ptr]]
            /\ panicCount' = panicCount - 1
            /\ EndUnwind /\ UNCHANGED why
    /\ UNCHANGED << class, cause, gr, ip >>

RustCatchPad ==
    /\ pc = "pad"
    /\ stack[pos].pers = "rust"
    /\ PadKind(stack[pos]) = "catch"
    /\ cleanup(ExceptionReg)

\* An exception_cleanup that reclaims the box but returns normally.
exception_cleanup_returns(ptr) ==
    /\ Use(ptr)
    /\ heap' = [heap EXCEPT ![ptr] = "freed"]
    /\ EndUnwind
    /\ UNCHANGED << got, panicCount, why >>

\* gcc.rs exception_cleanup, the cleanup hook of a Rust exception object:
\* reclaims the box and aborts through __rust_drop_panic.
exception_cleanup(ptr) ==
    /\ Use(ptr)
    /\ heap' = [heap EXCEPT ![ptr] = "freed"]
    /\ pc' = "abort"
    /\ why' = "drop_panic"
    /\ UNCHANGED << stack, pos, handler, exc, ran, got, panicCount >>

\* A catch(...) of the other runtime ends its handler with
\* _Unwind_DeleteException, which calls the object's own cleanup hook.
ForeignCatchPad ==
    /\ pc = "pad"
    /\ stack[pos].pers = "foreign"
    /\ PadKind(stack[pos]) = "catch"
    /\ LET ptr == ExceptionReg IN
         IF class[ptr] = rust_exception_class
         THEN exception_cleanup(ptr)
         ELSE /\ Use(ptr)
              /\ heap' = [heap EXCEPT ![ptr] = "freed"]
              /\ EndUnwind /\ UNCHANGED << got, panicCount, why >>
    /\ UNCHANGED << class, cause, gr, ip >>

-----------------------------------------------------------------------------

Init ==
    /\ pc = "run"
    /\ stack = << >>
    /\ pos = 0
    /\ handler = 0
    /\ exc = NULL
    /\ heap = [p \in Memory |-> "none"]
    /\ class = [p \in Memory |-> NoClass]
    /\ cause = [p \in Memory |-> NoPayload]
    /\ gr = [r \in DataRegs |-> 0]
    /\ ip = 0
    /\ panicCount = 0
    /\ ran = << >>
    /\ got = [p \in Memory |-> NoPayload]
    /\ faults = {}
    /\ why = "none"

\* Steps of an unwind in progress: synchronous code of the unwinding thread.
UnwindStep ==
    \/ SearchFrame
    \/ EndOfStack
    \/ CleanupFrame
    \/ CleanupPad
    \/ DoublePanic
    \/ RustCatchPad
    \/ ForeignCatchPad

Next ==
    \/ \E payload \in Payloads, s \in Stacks : panic(payload, s)
    \/ \E s \in Stacks : ForeignRaise(s)
    \/ UnwindStep

\* Nothing inside an unwind blocks or waits: each step the thread is at is
\* eventually taken.
Spec == Init /\ [][Next]_vars /\ WF_vars(UnwindStep)

-----------------------------------------------------------------------------
(* Properties.                                                             *)

TypeOK ==
    /\ pc \in {"run", "search", "cleanup", "pad", "abort"}
    /\ stack \in Seq(Frames) /\ Len(stack) <= MaxDepth
    /\ pos \in 0 .. MaxDepth + 1
    /\ handler \in 0 .. MaxDepth
    /\ exc \in Memory
    /\ heap \in [Memory -> {"none", "live", "freed"}]
    /\ class \in [Memory -> {NoClass, rust_exception_class, ForeignExceptionClass}]
    /\ cause \in [Memory -> Payloads \cup {ForeignPayload, NoPayload}]
    /\ gr \in [DataRegs -> Memory]
    /\ panicCount \in 0 .. MaxExceptions
    /\ ran \in Seq(1 .. MaxDepth)
    /\ got \in [Memory -> Payloads \cup {ForeignPayload, NoPayload}]
    /\ faults \subseteq Memory

\* Frame of s, innermost first, whose call-site ends phase 1: a catch, or
\* metadata that makes the personality give up or that cannot be decoded.
FirstStop(s) == SelectInSeq(s, LAMBDA f : CallSiteAction(f).kind \in {"Catch", "Terminate", "Err"})

\* The frames, up to frame h, whose call-sites own a landing pad.
OwedPads(s, h) == SelectSeq([i \in 1 .. h |-> i], LAMBDA i : CallSiteAction(s[i]).kind # "None")

\* Landing pads agree with the call-sites the frames are stopped at
\* (find_eh_action's ip adjustment, the two-phase dispatch of
\* rust_eh_personality_impl): a pad is entered only when some frame's
\* call-site catches the exception before any frame gives up, and the pads
\* entered are those of the frames above it that owe a cleanup, innermost
\* first, each once, then the catch pad.
PadsFollowCallSites ==
    pc = "pad" =>
        LET h == FirstStop(stack) IN
        /\ h > 0
        /\ CallSiteAction(stack[h]).kind = "Catch"
        /\ IsPrefix(Append(ran, pos), OwedPads(stack, h))

\* The exception object is never used after it is freed, and the registers
\* the personality fills are what cleanup() and _Unwind_Resume read: no
\* pointer is dereferenced or freed while it is not a live object.
PointerSafety == faults = {}

\* Whenever the thread runs ordinary code again, every Rust panic raised so
\* far was handed with its own payload to a Rust catch site through
\* cleanup() and its box reclaimed: a panic is never swallowed by a foreign
\* catch(...) (exception_cleanup aborts) nor leaked.
ResolvedPanics ==
    pc = "run" =>
        \A p \in Ptrs : class[p] = rust_exception_class =>
            heap[p] = "freed" /\ got[p] = cause[p]

\* cleanup() never hands the payload of another runtime's exception to a
\* Rust catch site.
ForeignIsolation ==
    \A p \in Ptrs : class[p] = ForeignExceptionClass => got[p] = NoPayload

\* Kind of the call-site action a frame is stopped at.
CallSiteKind(f) == CallSiteAction(f).kind

Outcome == INSTANCE UnwindOutcome
    WITH mode <- IF pc \in {"search", "cleanup", "pad"} THEN "unwinding" ELSE pc,
         cur <- exc, stk <- stack, cls <- class, load <- cause, obj <- heap,
         got <- got, count <- panicCount, reason <- why,
         Act <- CallSiteKind, RustClass <- rust_exception_class,
         ForeignClass <- ForeignExceptionClass

\* Each unwind, seen from outside the frame walk, ends the way the design
\* says its call-sites decide (UnwindOutcome): the two phase walks of the
\* unwinder, rust_eh_personality_impl's dispatch, find_eh_action, the
\* landing pads, cleanup() and exception_cleanup together resolve it at the
\* innermost frame that stops the search, with the right payload, panic
\* count and abort reason, and a double-panic abort only while a panic is
\* counted and a cleanup pad is owed.
OutcomeRefinement == Outcome!Spec

\* Every unwind ends: the exception is caught and the thread runs again,
\* or the process aborts.
UnwindTerminates == pc \in {"search", "cleanup", "pad"} ~> pc \in {"run", "abort"}

=============================================================================
