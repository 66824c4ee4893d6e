------------------------------ MODULE OsOcall ------------------------------
(***************************************************************************)
(* The OCALL wrappers of sgx_tstd/src/sys/os.rs that read or change the   *)
(* host's process state: getenv, setenv, unsetenv, getcwd and chdir.      *)
(*                                                                         *)
(* Each wrapper turns its byte-string arguments into CStrings, which fails *)
(* (InvalidInput) on an interior NUL, and passes them to the host through *)
(* an OCALL; cvt_ocall turns the host's answer, or a failed OCALL, into   *)
(* an io::Result.  The host is glibc: it reads every argument as a C      *)
(* string (up to its first NUL), keeps the environment as name=value     *)
(* lines, and its getenv returns the rest of the first line that starts   *)
(* with the name and '='.                                                  *)
(***************************************************************************)
EXTENDS Integers, Sequences, SequencesExt

CONSTANTS
    EQ,        \* the byte b'='
    NUL,       \* the byte 0
    Other,     \* the other bytes
    Dirs,      \* directories of the host, as byte strings
    MaxName,   \* longest name or path an enclave call passes
    MaxValue   \* longest value an enclave call passes

Bytes == {EQ, NUL} \cup Other
Names == BoundedSeq(Bytes, MaxName)
Values == BoundedSeq(Bytes, MaxValue)

VARIABLES
    henv,   \* the host's environment: << [name, value], ... >> in environ order
    cwd,    \* the host's working directory
    last    \* the last wrapper call: [op, k, v, res]

vars == << henv, cwd, last >>

\* Option<T> as a sequence of length at most one; io::Result as a record.
None == << >>
Some(x) == << x >>
Ok(x) == [ok |-> TRUE, val |-> x]
Err(e) == [ok |-> FALSE, val |-> e]
Unit == "()"

\* CString::new: an interior NUL is a NulError, which ? turns into an
\* io::Error of kind InvalidInput.
CStringNew(s) == IF Contains(s, NUL) THEN Err("InvalidInput") ELSE Ok(s)

\* What the C side reads of a buffer: the bytes before the first NUL.
CStr(s) == LET i == SelectInSeq(s, LAMBDA b : b = NUL)
           IN  IF i = 0 THEN s ELSE SubSeq(s, 1, i - 1)

-----------------------------------------------------------------------------
(* The host (glibc).                                                       *)

Line(e) == e.name \o << EQ >> \o e.value
BadName(n) == n = << >> \/ Contains(n, EQ)

\* setenv(name, value, 1): replace the first entry of that name or append.
HostSetenv(name, value) ==
    LET i == SelectInSeq(henv, LAMBDA e : e.name = name)
        e == [name |-> name, value |-> value]
    IN  IF BadName(name) THEN [res |-> Err("EINVAL"), env |-> henv]
        ELSE [res |-> Ok(Unit),
              env |-> IF i = 0 THEN Append(henv, e) ELSE ReplaceAt(henv, i, e)]

\* unsetenv(name): remove every entry of that name.
HostUnsetenv(name) ==
    IF BadName(name) THEN [res |-> Err("EINVAL"), env |-> henv]
    ELSE [res |-> Ok(Unit), env |-> SelectSeq(henv, LAMBDA e : e.name # name)]

\* getenv(name): the rest of the first line that is name '=' ... .
HostGetenv(name) ==
    LET n == Len(name)
        i == SelectInSeq(henv, LAMBDA e : LET l == Line(e) IN
                            Len(l) > n /\ SubSeq(l, 1, n) = name /\ l[n + 1] = EQ)
    IN  IF name = << >> \/ i = 0 THEN None
        ELSE Some(SubSeq(Line(henv[i]), n + 2, Len(Line(henv[i]))))

-----------------------------------------------------------------------------
(* The wrappers.  fail: the OCALL itself fails and the host never runs.    *)

\* One wrapper call: after the argument checks (args, an io::Result), the
\* host's answer res and its new environment and directory, or the
\* failure cvt_ocall reports.
Call(op, k, v, args, fail, res, env2, cwd2) ==
    /\ last' = [op |-> op, k |-> k, v |-> v,
                res |-> CASE ~args.ok -> args
                          [] fail     -> Err("OcallFailed")
                          [] OTHER    -> res]
    /\ henv' = IF args.ok /\ ~fail THEN env2 ELSE henv
    /\ cwd' = IF args.ok /\ ~fail THEN cwd2 ELSE cwd

\* Both checks, as the two ? of setenv (the first error wins).
BothNew(k, v) == IF CStringNew(k).ok THEN CStringNew(v) ELSE CStringNew(k)

\* A setenv that hands the raw bytes to the OCALL, without CString::new.
setenv_unchecked(k, v, fail) ==
    LET h == HostSetenv(CStr(k), CStr(v))
    IN  Call("setenv", k, v, Ok(v), fail, h.res, h.env, cwd)

setenv(k, v, fail) ==
    LET h == HostSetenv(CStr(k), CStr(v))
    IN  Call("setenv", k, v, BothNew(k, v), fail, h.res, h.env, cwd)

unsetenv(k, fail) ==
    LET h == HostUnsetenv(CStr(k))
    IN  Call("unsetenv", k, << >>, CStringNew(k), fail, h.res, h.env, cwd)

\* A getenv that hands the raw bytes to the OCALL, without CString::new.
getenv_unchecked(k, fail) ==
    Call("getenv", k, << >>, Ok(k), fail, Ok(HostGetenv(CStr(k))), henv, cwd)

getenv(k, fail) ==
    Call("getenv", k, << >>, CStringNew(k), fail, Ok(HostGetenv(CStr(k))), henv, cwd)

chdir(p, fail) ==
    Call("chdir", p, << >>, CStringNew(p), fail,
         IF CStr(p) \in Dirs THEN Ok(Unit) ELSE Err("ENOENT"),
         henv, IF CStr(p) \in Dirs THEN CStr(p) ELSE cwd)

getcwd(fail) == Call("getcwd", << >>, << >>, Ok(Unit), fail, Ok(cwd), henv, cwd)

-----------------------------------------------------------------------------

Init ==
    /\ henv = << >>
    /\ cwd \in Dirs
    /\ last = [op |-> "none", k |-> << >>, v |-> << >>, res |-> Ok(Unit)]

Next ==
    \E fail \in BOOLEAN :
        \/ \E k \in Names, v \in Values : setenv(k, v, fail)
        \/ \E k \in Names : unsetenv(k, fail) \/ getenv(k, fail) \/ chdir(k, fail)
        \/ getcwd(fail)

Spec == Init /\ [][Next]_vars

-----------------------------------------------------------------------------
(* Properties *)

\* The value the host holds for name n.
Lookup(e, n) == LET i == SelectInSeq(e, LAMBDA x : x.name = n)
                IN  IF i = 0 THEN None ELSE Some(e[i].value)

\* An environment that differs from e at most in name n.
SameBut(e2, e, n) == \A m \in Names \ {n} : Lookup(e2, m) = Lookup(e, m)

\* A setenv, unsetenv or chdir that returns Ok did exactly what it was
\* asked with exactly the bytes it was given: the named variable has the
\* value, or is gone, and no other changed; the directory is the path.  A
\* name or value with a NUL the host would cut short is never applied.
OcallsPassExactBytes ==
    [][ last'.res.ok =>
          CASE last'.op = "setenv"   -> /\ Lookup(henv', last'.k) = Some(last'.v)
                                        /\ SameBut(henv', henv, last'.k)
            [] last'.op = "unsetenv" -> /\ Lookup(henv', last'.k) = None
                                        /\ SameBut(henv', henv, last'.k)
            [] last'.op = "chdir"    -> cwd' = last'.k
            [] OTHER                 -> henv' = henv /\ cwd' = cwd ]_vars

\* A getenv of a name without '=' that returns Ok returns what the host
\* holds under exactly that name (None if nothing).
GetenvReadsStore ==
    last.op = "getenv" /\ last.res.ok /\ ~Contains(last.k, EQ)
        => last.res.val = Lookup(henv, last.k)

\* getenv's comment: a name with a nul byte cannot be set, "so their value
\* is always None as well".
GetenvNulIsNone ==
    last.op = "getenv" /\ Contains(last.k, NUL) => last.res = Ok(None)

=============================================================================
