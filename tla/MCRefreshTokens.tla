--------------------------- MODULE MCRefreshTokens ---------------------------
EXTENDS RefreshTokens, TLC

CallSymmetry == Permutations(Calls) \cup Permutations(Users)
=============================================================================
