\* Two concurrent calls over two challenges of one user.
CONSTANTS
  Calls = {c1, c2}
  Users = {alice}
  MaxChallenges = 2
  MaxTime = 2
  ChallengeTimeout = 1
  Window = 1
SPECIFICATION Spec
SYMMETRY CallSymmetry
INVARIANTS SecondGuessNeedsRace ReplayNeedsOverlap
