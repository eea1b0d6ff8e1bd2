----------------------------- MODULE MCMfaLogin -----------------------------
EXTENDS MfaLogin, TLC

CallSymmetry == Permutations(Calls)
=============================================================================
