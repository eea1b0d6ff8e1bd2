\* All inputs of three containers with up to two slots each, four altogether,
\* under either policy.
CONSTANTS
  Container = {o1, o2, o3}
  Root = o1
  Other = o2
  MaxSlots = 4
  Inputs <- MCInputs
  MaxDepth = 1
  MaxNodes = 3
SPECIFICATION WalkSpec
INVARIANTS WalkTypeOK ResultIsTree NothingLost RefusedForCause
PROPERTY Terminates
\* A walk that is over does nothing more.
CHECK_DEADLOCK FALSE
