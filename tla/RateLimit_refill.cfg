\* One call after the other, on one key.
CONSTANTS
  Calls = {c1}
  Keys = {k1}
  MaxEntries = 1
  MaxTokens = 1
  TicksPerToken = 2
  MaxRequests = 1
  WindowSize = 2
  MaxTime = 2
SPECIFICATION Spec
INVARIANT RefillIsGradual
