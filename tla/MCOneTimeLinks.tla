--------------------------- MODULE MCOneTimeLinks ---------------------------
EXTENDS OneTimeLinks, TLC

CallSymmetry == Permutations(Calls)
=============================================================================
