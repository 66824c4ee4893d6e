# TLA+ models of the SGX SDK panic-unwinding engine and its neighbours

This directory holds TLA+ specifications of the code under `src/`, the TLC
configurations that check them, and `PROJECT.json`. `PROJECT.json` records the
components, the runs, the mutants, the map from each definition to the source
lines it models, and the hazards.

## 1. Inventory

The repository snapshot has five source files. The design (`spec.md`) is about
the first one. The others are neighbours that the design calls out of scope.

| Component | Source | State it keeps | Operations |
|---|---|---|---|
| Exception envelope | `rustlib/panic_unwind/src/gcc.rs` `panic`, `cleanup`, `exception_cleanup`, `rust_exception_class` | a boxed `Exception`: class tag, cleanup hook and payload; it has one owner at a time | `panic(data)` boxes the payload and calls `_Unwind_RaiseException`. `cleanup(ptr)` unboxes it at a catch pad, or deletes a foreign object and aborts. `exception_cleanup` frees the box when the unwinder deletes it, then aborts. |
| Personality dispatcher | `gcc.rs` `rust_eh_personality_impl`, `rust_eh_personality` | none; it writes the frame context (two registers and the ip) | called once per frame per phase. Maps (phase, EHAction) to a reason code and installs the landing-pad context. |
| Frame action resolver | `gcc.rs` `find_eh_action` | none | reads the LSDA, ip, `ip_before_instr` and region start of a frame. Steps back into the call instruction, then asks the decoder. |
| Metadata decoder | `dwarf::eh` (not in `src/`; design §4.2) | none | looks up the call-site record covering an ip and gives None / Cleanup / Catch / Terminate. |
| Native unwinder and panicking glue | external (libgcc, std `panicking`); design §4.4–§7 | the phase, the frame being visited, the handler frame, the panic count | phase 1 and phase 2 loops, `_Unwind_Resume`, `_Unwind_DeleteException`, catch_unwind's catch pad, the double-panic abort |
| ChaCha RNG | `sgx_rand/src/chacha.rs` | `buffer[16]`, `state[16]` (constants, key, 128-bit counter), `index` | `new_unseeded`, `init`, `set_counter`, `update` (block function plus counter carry), `next_u32`, `reseed`, `from_seed`, `rand` |
| OS helpers | `sgx_tstd/src/sys/os.rs` | none inside the enclave; environment and cwd live in the host | `env` parsing, `split_paths`/`join_paths`, and getenv/setenv/unsetenv/getcwd/chdir through OCALLs (model `OsOcall`) |
| crate root | `sgx_tstd/src/lib.rs` | none | declarations only |
| f64 tests | `sgx_tstd/src/f64/tests.rs` | none | floating-point unit tests; `test_total_cmp` is modelled (model `F64TotalCmp`) |

**How the parts interact.** `panic` hands the envelope pointer to the native
unwinder. Phase 1 visits the frames innermost first and calls each frame's
personality routine with `SEARCH_PHASE`. The routine calls `find_eh_action`,
which calls the decoder. `HANDLER_FOUND` ends phase 1. Phase 2 visits the same
frames again with `CLEANUP_PHASE`, and adds `HANDLER_FRAME` at the handler. For
a frame that owes a Cleanup or a Catch, the routine writes the exception pointer
into RAX and a zero selector into RDX, sets the ip to the landing pad and
returns `INSTALL_CONTEXT`. A cleanup pad runs drops and calls `_Unwind_Resume`
with the pointer it got in RAX. The catch pad (catch_unwind) calls `cleanup`,
which takes the payload and frees the box. A foreign runtime shares the
unwinder: its exceptions can cross Rust frames, and its `catch(...)` can catch
a Rust panic.

**What is hard.** Each step is simple. The hard part is how the steps agree:

* the personality must recompute in phase 2 exactly the decision phase 1 took;
* the ip adjustment at a range boundary;
* the only channel from personality to pad is a pair of registers;
* the two-owner hand-off of a boxed object across two runtimes;
* abort paths (END_OF_STACK, fatal reason codes, foreign faults, double panics)
  that unit tests hardly reach.

There is one thread per unwind and nothing is shared between threads, so the
model has no interleaving of threads.

In ChaCha the hard parts are numeric edges:

* the four-word counter carry;
* u64 to u32 splitting;
* wrapping arithmetic;
* the `index == 16` recompute trigger after `set_counter` and `reseed`.

In `os.rs` the hard part is off-by-one parsing: a name may begin with `=`.

**Correctness, per component.**

* Unwinding: landing pads run exactly for the frames owed one, up to the
  nearest catch, and never when nothing catches. The payload reaches the catch
  and the box is freed once. A foreign payload is never read. A Rust panic is
  never swallowed by foreign code. Every unwind ends.
* ChaCha: `next_u32` yields the keystream word at the position fixed by
  (key, counter, index). The counter is a true 128-bit counter. The block
  function is ChaCha20.
* os: `env` parsing splits at the first `=` after the first byte.
  `split_paths` of a successful `join_paths` gives the paths back.

## 2. Modules

### `EHDecoder` (library, spec-modelled)
The call-site lookup of design §4.2, as operators:

* `Covers` and `CallSiteIndex` do a linear scan of the ordered table.
* `Malformed` covers an out-of-range landing pad or action index.
* `SiteAction` and `FindEHAction` build the result.

An LSDA is given already decoded, as
`[fnlen, nactions, nsites, sites: <<[start, len, lpad, action]>>]`.
`nsites` is the record count the table header declares. When the header
declares more records than the blob holds and no record read covers the ip,
the scan reads past the blob. The result is then `DecodeFailure`, the
`Err(())` that gcc.rs 119–121 turns into `FATAL_PHASE1_ERROR` in either
phase.

### `Unwind` (gcc.rs and its environment)

Variables:

* `pc` ∈ run / search / cleanup / pad / abort. It is the place of the thread
  in the two-phase protocol.
* `stack`, `pos`, `handler` are the frames, the frame being visited and the
  phase-1 handler (libgcc's `private_2`).
* `exc` is the pointer the unwinder holds.
* `heap`, `class`, `cause` are each exception object's allocation state, class
  tag and payload.
* `gr`, `ip` are the two exception registers and the ip the personality
  installs. `gr` maps the DWARF numbers of `UNWIND_DATA_REG` (RAX, RDX) to
  values, and a landing pad reads the pointer from the first of them
  (`ExceptionReg`).
* `panicCount` is the panic count of the panicking glue.
* `ran`, `got`, `faults`, `why` are history: the pads entered, the payloads
  handed to Rust catch sites, invalid pointer uses, and the abort reason.

Actions:

* `panic` is gcc.rs `panic` plus the panic count.
* `ForeignRaise` is another runtime's throw.
* `SearchFrame` and `EndOfStack` are phase 1. `EndOfStack` aborts, as the
  caller of `panic` does with the returned code.
* `CleanupFrame` is phase 2. An `INSTALL_CONTEXT` performs
  `InstallContext`, which is the register and ip writes of gcc.rs 132–136.
* `CleanupPad` runs the drops and calls `_Unwind_Resume` with the register's
  pointer.
* `DoublePanic` is a drop that panics during the unwind.
* `RustCatchPad` calls `cleanup`.
* `ForeignCatchPad` is a `catch(...)` that ends with `_Unwind_DeleteException`
  and calls the object's own hook: `exception_cleanup` for a Rust object.

The personality is `rust_eh_personality_impl` with the reason codes of the
code. `find_eh_action` is the gcc.rs resolver, with
`ip_before_instr ? ip : ip - 1`.

Frames are records `[pers, fn, call, before]`. `IPInfo` turns one into what
`_Unwind_GetIPInfo` reports: the return address `call + CallLen`, or the
interrupted instruction in a signal frame. `CallSiteAction` is what the
compiler attached to the call instruction itself. It is the reference the
properties compare against. `PadKind` says which code the compiler put at an
installed ip.

`MC_Unwind` gives it three functions:

* `catcher` has a catch range [0,4) next to a range [4,8) without a pad;
* `dropper` has a no-pad range [0,4) next to a cleanup range [4,8);
* `broken` has an action index past its action table;
* `truncated` declares two call-site records but holds only the first.

It uses seven frames:

* calls at offset 3, whose return address 4 lies in the *next* range;
* a call at 5;
* a signal frame interrupted at 4;
* a malformed frame;
* a Rust frame whose call at 5 lies past `truncated`'s blob (a decode
  failure);
* a foreign `catch(...)` frame.

Only Rust frames run on `truncated`. A foreign personality reads its own
metadata, so its decode failures are not the code under study here.

### `ChaChaCore` (chacha.rs block function)
A `Wrapping<u32>` is a pair of 16-bit halves `<<hi, lo>>`, because TLC
integers are 32-bit signed. `WAdd`, `WXor` and `RotL` are `+=`, `^=` and
`rotate_left` on the halves, with the carry and the bits that cross between
them. `quarter_round` is the macro: `AddXorRotD` is its lines
"a += b; d ^= a; d <<<= n" and `AddXorRotB` its lines
"c += d; b ^= c; b <<<= n". `DoubleRoundOrder` lists the eight
`quarter_round!` invocations of `double_round!`. `core` runs
`CHACHA_ROUNDS / 2` double rounds and adds the input.

TLC recomputes a `LET` definition at every use but evaluates an operator
argument once. The intermediate words are therefore handed on as operator
arguments. `Strict` makes each round's result be computed before the next.

### `Counter128` (reference arithmetic)
A 128-bit counter as four words, with `Inc` and `Dec` mod 2^128. The abstract
stream counts blocks with it. `FromU64s(lo, hi)` is the counter whose low 64
bits are `lo` and high 64 bits `hi`, which is the value `set_counter`'s doc
comment says it sets. The generator's own carry chain is not this: it
is `IncrementCounter` in `ChaChaRng`.

### `ChaChaStream` (abstract keystream)
The promise of a generator: a position (key, block counter, word index).
`Draw` returns word `idx` of `Block(key, blk)` and moves one word on, to the
next block after word 15. `Seek(c)` goes to word 0 of block `c`. `Rekey(k)`
goes to block 0 of key `k`. `req` records what the caller asked for: a draw,
a seek to `c` or a rekey to `k`. Each step must do what its `req` names. `out`
is the last word drawn since the last seek or rekey.

### `ChaChaRng` (chacha.rs generator)
The variables `buffer`, `state` and `index` are the struct's fields. `out` is
the value the last `next_u32` returned, and `drawn` counts the calls since the
generator was last repositioned. `last` is a history variable: it holds the
last call and its argument (the seed, the key `rand` drew, or the two u64s of
`set_counter`).

The operators `init`, `update` (with its counter step `IncrementCounter`),
`set_counter`, `reseed`, `new_unseeded`, `from_seed`, `rand` and `next_u32`
translate the functions. Each takes and returns a generator record. A u64 is a
pair of words `<<hi, lo>>`. A seed is a sequence of words. There is one action
per operation that changes a generator:

* `NewUnseeded`, `FromSeed` and `Rand` assign a freshly constructed generator;
* `Reseed` and `SetCounter` act on the current one;
* `NextU32` is the whole of `next_u32`, the refill included.

The refinement mapping to `ChaChaStream` is as follows:

* key is words 4–11;
* the block counter is words 12–15, minus one while a refilled buffer is in
  use (`index < 16`);
* the word index is `index % 16`;
* the request is `ReqOf(last)`. A `next_u32` is a draw. `set_counter(lo, hi)`
  is a seek to `FromU64s(lo, hi)`. `new_unseeded` is a rekey to the zero key.
  Every other constructor and `reseed` is a rekey to `SeedKey(seed)`: its
  first eight words, the rest zero, as the `from_seed` doc says.

`MC_ChaChaRng` gives the seeds `<< >>` and nine distinct words. `rand` draws
the eight words the nine-word seed keeps. `set_counter` gets the arguments
(0, 0), (2^32 − 1, 0), (2^64 − 1, 0) and (2^64 − 1, 2^64 − 1). It allows at
most 17 draws after each repositioning.

The MC module replaces `core` by `MCcore`, which computes the same function
(the same `DoubleRounds` and `double_round`). It does this once at start-up,
for every (key, counter) the model can reach.

### `OsEnv` (os.rs byte helpers)
Bytes are model values: `EQ` is `b'='`, `SEP` is `PATH_SEPARATOR` (`b':'`),
and `Other` holds the rest. The operators translate the code:

* `memchr`;
* `environ` (the `libc::env()` OCALL's lines, or, when it fails, the empty
  list that `unwrap_or_default` gives);
* `parse` (an empty line is skipped, and the name ends at the first `=` from
  byte 1 on);
* `env` (parse every line and keep those that parse);
* `split_paths` (n separators give n + 1 pieces);
* `join_paths`, whose loop `JoinLoop` pushes the separator before every path
  but the first and fails on a path containing it.

The host environment comes through an OCALL from the untrusted host, so any
line is possible. The single variable `input` is what the helpers are
applied to. `EnvCall` gives it any host environment, with the OCALL
answering or failing, and `JoinThenSplit` gives it any list of paths.

### `OsOcall` (os.rs OCALL wrappers)
This module covers `getenv`, `setenv`, `unsetenv`, `getcwd` and `chdir`.

How each wrapper runs:

* `CStringNew` is `CString::new(..)?`: an interior NUL gives
  `Err(InvalidInput)`. `BothNew` applies it to `setenv`'s key and then its
  value.
* `Call` is the OCALL through `cvt_ocall`. The host runs, or the OCALL fails
  and the host never runs. It records the call and its result in `last`.

The host is glibc, modelled from its documented behaviour:

* `CStr` is what the C side reads of an argument: the bytes before the first
  NUL.
* `henv` is the environ list. `HostSetenv` replaces or appends an entry, and
  `HostUnsetenv` removes every entry with the name. Both return `EINVAL` for
  an empty name or one containing `=`.
* `HostGetenv` returns the rest of the first line that starts with the name
  followed by `=`.
* `cwd` changes only to a directory in `Dirs`.

`MC_OsOcall` uses the bytes `=`, NUL and `A`. Names and paths have up to two
bytes, so `A`, `A\0` (the same C string as `A`) and `A=` all occur. Values
have up to one byte, and the directories are `A` and `AA`.

### `UnwindOutcome` (abstract unwind)
What an unwind promises, with the frame walk left out. It follows design
sections 4 to 7, not code. A raise puts one object in flight over a stack. The
object is resolved in one step at the innermost frame whose call-site stops
the search: a catch, or a Rust frame with unreadable metadata.

* `Catch`: a Rust frame catching a Rust panic hands over the payload and
  lowers the panic count. A foreign object caught by a Rust frame aborts with
  `foreign_exception`. A Rust panic caught by a foreign `catch(...)` aborts
  with `drop_panic`. A foreign object caught by a foreign frame resumes the
  thread. The object is freed in each case.
* `GiveUp`: `END_OF_STACK` when no frame stops the search, and
  `FATAL_PHASE1_ERROR` at a malformed Rust frame.
* `DropPanic`: the `double_panic` abort. It is allowed only while a panic is
  counted and a cleanup pad is owed below the catching frame.

`Unwind` instantiates it as `Outcome`. The mapping sends `pc` in
search/cleanup/pad to `"unwinding"` and maps every other variable to its
namesake (`exc`, `stack`, `class`, `cause`, `heap`, `got`, `panicCount`,
`why`). `pos`, `handler`, the registers, `ip`, `ran` and `faults` are hidden,
so every phase-1 and phase-2 step and every resumed cleanup pad is a
stuttering step of the abstract spec.

### `F64TotalCmp` (f64 tests: `test_total_cmp`)
`test_total_cmp` asserts the order `f64::total_cmp` puts on the values it
builds: `-q_nan < -s_nan < -inf < -MAX < -2.5 < ... < -min_subnorm < -0 < +0
< ... < +inf < s_nan < q_nan`, with each value equal to itself. `total_cmp`
itself is core's, not in the repository. It flips every bit but the sign of
a negative pattern (`left ^= (((left >> 63) as u64) >> 1)`), then compares
the patterns as `i64`. The module models that bit trick on a float format of
f64's shape but 8 bits wide (constants `EXP_BITS`, `MANTISSA_BITS`), where
TLC can compare every pair of patterns.

* The test's operands are built as it builds them. `quiet_bit_mask`,
  `min_subnorm`, `max_subnorm`, `q_nan` and `s_nan` (with `NAN_PAYLOAD`
  standing for the `+ 42`) follow lines 634–652. Literals such as `2.5` are
  the patterns of those exact values.
* A state is the pair of operands `x`, `y`. `Init` takes every sign-clear
  pattern for each, and `NegSelf`/`NegOther` are the test's unary minus on
  either operand.
* The reference is defined from the values, not the bits: NaNs lie beyond
  the infinities ordered by payload, `-0` lies just below `+0`, and negatives
  lie below positives. An `ASSUME` checks that it orders `TestChain`, the 24
  operands of the test's chain of `Less` assertions (lines 679–701), as the
  test does.

### Left for later
The call-site lookup of `EHDecoder` has no run of its own. It is drawn
from the design, like any reference it could be checked against, and the
`unwind` run already drives it at the range boundaries that the ip adjustment
makes critical. A byte-level model of the LSDA decoder would be worth a run,
but its source (`dwarf::eh`) is not part of this repository.

## 3. Runs

| Run | What it checks |
|---|---|
| `unwind` (`MC_Unwind.cfg`) | Two successive exceptions, each Rust (payload P1 or P2) or foreign. Each unwinds any stack of 1–3 of the seven frames (399 stacks), about 18k states. It checks `TypeOK`, `PadsFollowCallSites`, `PointerSafety`, `ResolvedPanics`, `ForeignIsolation`, `UnwindTerminates` and `OutcomeRefinement`. |
| `os_helpers` (`MC_OsEnv.cfg`) | Every host environment of up to 2 lines of up to 3 bytes, and every list of up to 3 paths of up to 2 bytes, over {`=`, `:`, another byte}, with the env OCALL answering or failing (5662 states). It checks `EnvFollowsGlibcRule` and `JoinSplitRoundTrip`. |
| `os_ocalls` (`MC_OsOcall.cfg`) | Every sequence of wrapper calls on those names, values and paths, each OCALL answering or failing (6402 states). It checks `OcallsPassExactBytes` and `GetenvReadsStore`. |
| `getenv_nul` (`MC_OsOcallNul.cfg`, expect violation) | `getenv`'s comment, `GetenvNulIsNone`. TLC finds it violated at the first `getenv` of a name with a NUL. See Findings. |
| `env_doc` (`MC_OsEnvDoc.cfg`, expect violation) | The same model checked against `env()`'s doc comment, `EnvListsProcessVariables`. TLC finds it violated: when the OCALL fails, a host environment with variables gives an empty `env()`. See Findings. |
| `f64_total_cmp` (`MC_F64TotalCmp.cfg`) | All 65536 operand pairs of the 8-bit format. It checks `TotalCmpIsIeeeOrder`. |
| `chacha` (`MC_ChaChaRng.cfg`) | Every interleaving of the constructors, `reseed`, `set_counter` at the u32/u64 edges and up to 17 `next_u32` calls (290 states). It checks `TypeOK`, `ZeroKeyBlockMatchesVector` and `StreamRefinement`. |

The properties:

* **PadsFollowCallSites** says a landing pad is entered only if some frame's
  *call-site* catches before any frame gives up. The pads entered are the owed
  cleanups above that frame, innermost first and once each, then the catch.
  It compares the runtime (ip adjustment, two-phase dispatch, resume) with the
  compiler's intent. Dropping the `- 1` in `find_eh_action` breaks it: a call
  returning into the next range runs a drop it does not owe.
* **PointerSafety** says `cleanup`, `exception_cleanup` and `_Unwind_Resume`
  only dereference or free live objects. Swapping the two `UNWIND_DATA_REG`
  registers breaks it.
* **ResolvedPanics** says that whenever the thread runs ordinary code again,
  every Rust panic so far reached a Rust catch with its own payload, and its
  box is freed. An `exception_cleanup` that returns instead of aborting
  breaks it: a foreign `catch(...)` swallows the panic.
* **ForeignIsolation** says a foreign payload is never handed to Rust code.
  A `cleanup` without the class check breaks it.
* **UnwindTerminates** (`~>`) says every unwind ends, caught or aborted. An
  unwinder that does not advance breaks it.
* **OutcomeRefinement** is `Outcome!Spec`: each unwind ends the way
  `UnwindOutcome` says its call-sites decide. The payload, panic count and
  abort reason must all be right. No phase-2 error or any other ending
  appears. Three broken variants each fail it:
  * A personality whose search phase passes over a call-site it cannot read.
    The search then finds a catch further out, and phase 2 dies on the
    malformed frame with `FATAL_PHASE2_ERROR`.
  * A double-panic abort without the panic-count guard.
  * A `find_eh_action` that reads a decode failure as "no action". The
    search then passes the unreadable frame and the exception is caught
    further out, where the design says the process must abort.
    `PadsFollowCallSites` fails too.

* **ZeroKeyBlockMatchesVector** says that once a zero-key generator has
  refilled from block 0, its buffer is the RFC 7539 block of the zero key and
  nonce. The `new_unseeded` doc comment gives its first two words,
  2917185654 and 2419978656. One mistyped index in `double_round!` breaks it.
* **StreamRefinement** is `ChaChaStream!Spec` under the mapping above. Every
  `next_u32` returns the next keystream word of the current (key, counter)
  position. `set_counter` moves to word 0 of the block it names. Reseeding
  and constructing restart at block 0 of the seed's key: its first eight
  words, the rest zero. The counter carries across words and wraps at 2^128.
  Because the abstract seek and rekey follow the call's argument (through
  `last`), three broken variants each fail it:
  * a `set_counter` that does not force the recomputation: the rest of the
    old buffer comes back for the new counter;
  * a `set_counter` that exchanges the two u32 halves of `counter_low`: the
    argument 2^32 − 1 lands on block 2^64 − 2^32 instead;
  * a `reseed` that copies the seed without `init`: the old counter stays.

  A `reseed` that skips the copy is caught as well. `TypeOK` is broken by an
  `update` that does not reset the index.

* **TotalCmpIsIeeeOrder** says `total_cmp` of any two patterns gives the
  IEEE total order of their values. This covers the test's operands and every
  other pattern: subnormals, both zeros, every NaN payload of either sign. A
  `total_cmp` that shifts the sign out logically (`(left as u64) >> 63`)
  breaks it, because negatives then compare backwards.

* **EnvFollowsGlibcRule** compares `env()`, when the OCALL answers, with the
  rule its comment states.
  Name and value are split at a `=`. The name is not empty and has no `=`
  after its first byte. Every line with such a reading is returned, in order,
  and every other line is skipped. Searching for `=` from byte 0 breaks it:
  a name that starts with `=` comes out empty.
* **JoinSplitRoundTrip** says `join_paths` fails exactly when a path contains
  `:`, and `split_paths` gives back every non-empty list it joined. The empty
  list is the exception: it joins to the empty string, which splits into one
  empty path. The property states this exception. A loop that pushes the
  separator before the first path breaks it.

* **EnvListsProcessVariables** (run `env_doc`) states `env()`'s doc comment:
  the pairs of all the process's environment variables. It is expected to be
  violated.

* **OcallsPassExactBytes** is an action property: a `setenv`, `unsetenv` or
  `chdir` that returns Ok changed exactly the named variable or the directory,
  with exactly the bytes given, and nothing else. A `setenv` without
  `CString::new` breaks it: `setenv("A\0", v)` sets `A`.
* **GetenvReadsStore** says a `getenv` of a name without `=` that returns Ok
  returns what the host holds under exactly that name. A `getenv` without
  `CString::new` breaks it: `getenv("A\0")` returns `A`'s value. For names
  with `=`, glibc's line matching makes `getenv("A=")` return the tail of
  `A`'s value when that value starts with `=`. Nothing in the repository says
  what it should return, so this case is listed as a hazard without a
  property.
* **GetenvNulIsNone** (run `getenv_nul`) states the comment above `getenv`.
  It is expected to be violated.

**Findings.** `environ()` (os.rs 180–182) is
`libc::env().unwrap_or_default()`. When the OCALL fails, `env()` returns an
empty iterator, and the caller cannot tell this from an empty environment.
The doc comment of `env()` promises every variable of the process. The
`env_doc` run shows the gap in two states. The host holds the single line `==`
(the variable named `=` with an empty value), and the OCALL fails.

`getenv` (os.rs 217–225) converts the name with
`CString::new(k.as_bytes())?`, so a name with an interior NUL returns
`Err(InvalidInput)`. The comment above it says such variables cannot be set,
"so their value is always None as well". The `getenv_nul` run shows the
difference in one step.

**Bounds.** Three frames are enough for the design's F1/F2/F3 scenario (catch
below a cleanup below the raiser), and for every ordering of catch, cleanup and
foreign frames. Two exceptions are enough to reach a raise after an earlier
unwind left stale registers and a freed object behind. `CallLen = 1` makes a
call at offset 3 return exactly onto the next range. The `truncated` function puts a decode failure below, between
and above the catch and cleanup frames.

For `os.rs`, lines of 3 bytes hold every placement of two `=` (leading,
inner, trailing), and three paths of 2 bytes hold empty paths and separators
at either end.

For `total_cmp`, 4 exponent and 3 mantissa bits give every class of pattern
(zeros, 7 subnormals, normals, infinities, NaNs with 7 payloads, 3 of them
quiet) under both signs. `2.5`, `1.5` and `0.5` are exact in it. The sign flip
and the compare do not depend on the width.

For ChaCha, 17 draws after a repositioning cross one block boundary. So
every `set_counter` argument is followed by a refill that carries into
word 13, word 14, or all the way round. The nine-word seed checks the
truncation to eight words, and the empty seed checks the zero-fill.

**Fairness.** `WF_vars(UnwindStep)`. Unwinding is synchronous code on one
thread and no step inside it blocks or waits (design §5). Raising is not
fair: a thread need never panic.

The ChaCha specifications are safety only: a caller need never draw.

**Deadlock.** Unwind: `CHECK_DEADLOCK FALSE`. The process really stops after an
abort, and the thread stops raising once the bounded pool of exception
objects is used. ChaCha checks deadlock: a generator can always be rebuilt.

## 4. Not modelled, and why
* The byte-level LSDA parsing (LEB128, pointer encodings, relocation bases):
  the file is not among the sources. The decoder works on decoded tables.
* Forced unwinding, backtraces, and the personality's `_exception_class`
  argument (unused by the code).
* A foreign exception that meets a Rust drop which panics: the panic count is
  0, so a second, nested unwind would start. Modern toolchains forbid this
  with nounwind pads. It is left out.
* The remaining `os.rs` functions, each for its own reason:
  * `getpid` and `page_size` pass a value through, and `current_exe` reads a
    link.
  * `temp_dir` and `home_dir` go through `env::var_os`, which is not among
    the sources.
  * `errno`, `set_errno` and `error_string` format the host's `strerror_r`.
  The host is trusted to follow glibc in `OsOcall`. A host that lies about its
  results is outside what the wrappers can check.
* `lib.rs`: declarations only (modules, re-exports, feature gates, macros);
  it has no state or operation.
* The other `f64/tests.rs` tests: they check floating-point arithmetic and
  libm functions (`ln`, `powf`, `asinh`, `mul_add`, ...) against literals.
  TLC has no values for these functions, and a model of them would not come
  from this repository.
