----------------------------- MODULE MCSessions -----------------------------
EXTENDS Sessions, TLC

CallSymmetry == Permutations(Calls)
=============================================================================
