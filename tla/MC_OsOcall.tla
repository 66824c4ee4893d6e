----------------------------- MODULE MC_OsOcall -----------------------------
(***************************************************************************)
(* One ordinary byte A besides '=' and NUL; names and paths of up to two  *)
(* bytes, so that "A" and "A\0" (the same C string) and "A=" all occur;   *)
(* the host has the directories "A" and "AA".                             *)
(***************************************************************************)
EXTENDS OsOcall

CONSTANTS A

MCOther == {A}
MCDirs == {<< A >>, << A, A >>}

=============================================================================
