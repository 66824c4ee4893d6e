------------------------------ MODULE MC_OsEnv ------------------------------
EXTENDS OsEnv

CONSTANTS A
MCOther == {A}

=============================================================================
