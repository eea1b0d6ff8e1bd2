\* Two concurrent calls over two links of one user, each send with one retry.
\* Timeout = 0: a link lasts to the end of the tick it was made in.
CONSTANTS
  Calls = {c1, c2}
  Users = {alice}
  MaxTokens = 2
  MaxTime = 1
  Timeout = 0
  MaxRetries = 1
SPECIFICATION Spec
SYMMETRY CallSymmetry
INVARIANTS TrustedByOwnLink MailboxHasTheLink
PROPERTY DeadLinksStayDead
