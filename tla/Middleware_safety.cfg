\* Two requests of one browser, two sessions or two tokens.  A second has two
\* ticks; a session lives three, so that it can be fresh, in its last half, and
\* expired; a token lives two seconds.
CONSTANTS
  Calls = {c1, c2}
  MaxItems = 2
  MaxTime = 6
  PerSecond = 2
  Lifetime = 3
  TokenTimeoutMs = 2
SPECIFICATION Spec
SYMMETRY CallSymmetry
INVARIANTS BlankMeansGone LoginStaysInJar CookieOutlivesSession DeadIsRefused
  TokenGoodForItsTime
\* With the user deleted and the clock at its bound nothing is left to do.
CHECK_DEADLOCK FALSE
