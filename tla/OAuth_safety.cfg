\* Two browsers, three flows, and two redirects that may come from either.
CONSTANTS
  Calls = {c1, c2}
  Browsers = {b1, b2}
  MaxFlows = 3
SPECIFICATION Spec
INVARIANTS OwnCodeOnly GoodCodeSignsIn
PROPERTY EndsWithTheBodies
\* With every redirect handled and every flow begun nothing is left to do.
CHECK_DEADLOCK FALSE
