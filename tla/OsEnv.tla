------------------------------- MODULE OsEnv -------------------------------
(***************************************************************************)
(* The byte-level helpers of sgx_tstd/src/sys/os.rs: env() with its parse  *)
(* of each host environment line, split_paths and join_paths.  Bytes are   *)
(* model values: EQ is b'=', SEP is PATH_SEPARATOR (b':'), and Other are   *)
(* the remaining bytes.  A byte string is a sequence of bytes.             *)
(*                                                                         *)
(* The environment comes from the untrusted host through an OCALL, so its  *)
(* lines can be any byte strings.  The state is the input the helpers are  *)
(* applied to: a host environment (for env) or a list of paths (for        *)
(* join_paths and split_paths).                                            *)
(***************************************************************************)
EXTENDS Integers, Sequences, SequencesExt

CONSTANTS EQ, SEP, Other, MaxLine, MaxLines, MaxPath, MaxPaths

Bytes == {EQ, SEP} \cup Other

VARIABLE input   \* [kind |-> "env", environ, ocall] or [kind |-> "paths", paths]

None == "None"
NoPos == -1

\* memchr(c, s): the 0-based index of the first c in s, if any.
memchr(c, s) ==
    LET i == SelectInSeq(s, LAMBDA b : b = c)
    IN  IF i = 0 THEN NoPos ELSE i - 1

\* input[a..b] for 0-based a and exclusive b, as Rust slices it.
Slice(s, a, b) == SubSeq(s, a + 1, b)

\* Mutant of parse: the '=' is searched from byte 0.
parse_from_start(line) ==
    IF line = << >> THEN None
    ELSE LET p == memchr(EQ, line)
         IN  IF p = NoPos THEN None
             ELSE << Slice(line, 0, p), Slice(line, p + 1, Len(line)) >>

\* env()'s parse(input): skip an empty line; the name ends at the first '='
\* from byte 1 on, so that a name may begin with '='; skip a line without one.
parse(line) ==
    IF line = << >> THEN None
    ELSE LET q == memchr(EQ, Tail(line))
             p == IF q = NoPos THEN NoPos ELSE q + 1
         IN  IF p = NoPos THEN None
             ELSE << Slice(line, 0, p), Slice(line, p + 1, Len(line)) >>

\* environ(): the lines the libc::env() OCALL returns when it answers "Ok",
\* and unwrap_or_default's empty list when it fails.
environ(lines, ocall) == IF ocall = "Ok" THEN lines ELSE << >>

\* env(): the parsed pairs of environ()'s lines, in order, malformed lines
\* skipped.
env(lines, ocall) ==
    LET ok == SelectSeq(environ(lines, ocall), LAMBDA l : parse(l) # None)
    IN  [i \in 1 .. Len(ok) |-> parse(ok[i])]

\* split_paths: the pieces between separators (n separators give n + 1).
RECURSIVE split_paths(_)
split_paths(unparsed) ==
    LET j == SelectInSeq(unparsed, LAMBDA b : b = SEP)
    IN  IF j = 0 THEN << unparsed >>
        ELSE << SubSeq(unparsed, 1, j - 1) >>
                \o split_paths(SubSeq(unparsed, j + 1, Len(unparsed)))

JoinPathsError == [ok |-> FALSE, val |-> << >>]
Ok(v) == [ok |-> TRUE, val |-> v]

\* Mutant of the join loop: the separator is pushed before every path,
\* the first included.
RECURSIVE JoinLoopSepFirst(_, _, _)
JoinLoopSepFirst(paths, i, joined) ==
    IF i > Len(paths) THEN Ok(joined)
    ELSE IF Contains(paths[i], SEP) THEN JoinPathsError
    ELSE JoinLoopSepFirst(paths, i + 1, Append(joined, SEP) \o paths[i])

\* The loop of join_paths over the 1-based path i: push the separator
\* before every path but the first, fail on a path containing it, then
\* append the path.
RECURSIVE JoinLoop(_, _, _)
JoinLoop(paths, i, joined) ==
    IF i > Len(paths) THEN Ok(joined)
    ELSE IF Contains(paths[i], SEP) THEN JoinPathsError
    ELSE JoinLoop(paths, i + 1,
                  (IF i > 1 THEN Append(joined, SEP) ELSE joined) \o paths[i])

join_paths(paths) == JoinLoop(paths, 1, << >>)

Environs == BoundedSeq(BoundedSeq(Bytes, MaxLine), MaxLines)
PathLists == BoundedSeq(BoundedSeq(Bytes, MaxPath), MaxPaths)

Init == input = [kind |-> "env", environ |-> << >>, ocall |-> "Ok"]

\* The host holds an environment and the enclave calls env(); the OCALL
\* answers with the lines or fails.
EnvCall ==
    \E e \in Environs, r \in {"Ok", "Err"} :
        input' = [kind |-> "env", environ |-> e, ocall |-> r]

\* join_paths, and split_paths of what it joined, on a list of paths.
JoinThenSplit == \E ps \in PathLists : input' = [kind |-> "paths", paths |-> ps]

Next == EnvCall \/ JoinThenSplit

Spec == Init /\ [][Next]_input

-----------------------------------------------------------------------------
(* Properties *)

\* The ways to read a line as name '=' value under the rule stated in
\* parse's comment (from glibc): the name is not empty and holds no '='
\* after its first byte.
Readings(line) ==
    { << SubSeq(line, 1, p - 1), SubSeq(line, p + 1, Len(line)) >> :
        p \in { p \in 2 .. Len(line) :
                  line[p] = EQ /\ \A j \in 2 .. p - 1 : line[j] # EQ } }

\* The lines of e that have a reading.
WellFormed(e) == SelectSeq(e, LAMBDA l : Readings(l) # {})

\* When the OCALL answers, env() returns, in the host's order, the reading
\* of every line that has one, and nothing for the others: no pair is
\* lost, invented or mis-split.
EnvFollowsGlibcRule ==
    input.kind = "env" /\ input.ocall = "Ok" =>
        LET res == env(input.environ, "Ok")
            wf  == WellFormed(input.environ)
        IN  /\ Len(res) = Len(wf)
            /\ \A i \in 1 .. Len(wf) : {res[i]} = Readings(wf[i])

\* env()'s doc comment: it returns the pairs of "all the environment
\* variables of the current process", whether or not the OCALL that
\* fetches them succeeds.
EnvListsProcessVariables ==
    input.kind = "env" =>
        Len(env(input.environ, input.ocall)) = Len(WellFormed(input.environ))

\* join_paths fails exactly when some path contains the separator, and
\* split_paths gives back every non-empty list it joined.  (The empty list
\* joins to the empty string, which splits into one empty path.)
JoinSplitRoundTrip ==
    input.kind = "paths" =>
        LET ps == input.paths
            j  == join_paths(ps)
        IN  /\ j.ok <=> \A i \in 1 .. Len(ps) : ~Contains(ps[i], SEP)
            /\ (j.ok /\ ps # << >>) => split_paths(j.val) = ps

=============================================================================
