--------------------------- MODULE MCBrushLimit -----------------------------
\* Four messages of one user against a limit of one.
EXTENDS BrushLimit, TLC

Calls == Permutations(Call)
=============================================================================
