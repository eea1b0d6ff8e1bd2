\* Two calls over two keys that fight for one entry.
CONSTANTS
  Calls = {c1, c2}
  Keys = {k1, k2}
  MaxEntries = 1
  MaxTokens = 3
  TicksPerToken = 1
  MaxRequests = 2
  WindowSize = 2
  MaxTime = 3
SPECIFICATION FairSpec
INVARIANTS StoreIsConsistent NoCallOvertakes WindowNeverExceeded PaceBreaksOnlyAfterDenial
PROPERTIES EveryCallIsServed
