\* Two concurrent calls over three tokens of one user, with the adapter's
\* contract kept.  Timeout < MaxTime: tokens expire, and are purged.
CONSTANTS
  Calls = {c1, c2}
  Users = {alice}
  MaxTokens = 3
  MaxTime = 2
  Timeout = 1
  ConditionalMark = TRUE
SPECIFICATION Spec
SYMMETRY CallSymmetry
INVARIANTS OneHolderPerFamily AlarmHasCause HonestTokenStaysGood
PROPERTY EvidenceKept
