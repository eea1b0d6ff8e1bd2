\* Two concurrent calls, from a login and its rotation to the alarm.  No
\* symmetry: the run checks a liveness property.
CONSTANTS
  Calls = {c1, c2}
  Users = {alice}
  MaxTokens = 2
  MaxTime = 2
  Timeout = 1
  ConditionalMark = TRUE
SPECIFICATION FairSpec
PROPERTIES RefinesChain ReuseKillsFamily
