\* Two concurrent calls; one user, with or without a second factor; two resets.
\* Lifetime = 3: a session can be fresh, in its last half, and expired.
CONSTANTS
  Calls = {c1, c2}
  Users = {alice}
  MaxGrants = 2
  MaxResets = 2
  MaxTime = 3
  Lifetime = 3
SPECIFICATION Spec
SYMMETRY CallSymmetry
INVARIANTS SurvivorsHaveCause LostSessionHasCause
PROPERTIES DeletedStaysDeleted ExtensionNeverShortens
\* With every user deleted and the clock at its bound nothing is left to do.
CHECK_DEADLOCK FALSE
