\* One request, one token that is meant to last two ticks, a second.
CONSTANTS
  Calls = {c1}
  MaxItems = 1
  MaxTime = 6
  PerSecond = 2
  Lifetime = 3
  TokenTimeoutMs = 2
SPECIFICATION Spec
INVARIANT TokenDiesOnTime
CHECK_DEADLOCK FALSE
