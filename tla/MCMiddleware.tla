---------------------------- MODULE MCMiddleware ----------------------------
EXTENDS Middleware, TLC

CallSymmetry == Permutations(Calls)
=============================================================================
