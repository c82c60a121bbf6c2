--------------------------- MODULE MCKaleidoscope ---------------------------
EXTENDS KaleidoscopeRuntime, TLC

RowsAreAlike == Permutations(Envs)
=============================================================================
