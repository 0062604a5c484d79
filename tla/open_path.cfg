CONSTANTS
  Cameras = {c1, c2}
  Others = {w}
  Addresses = {a1, a2}
  Names = {2, 3, 10}
  NoDevice = NoDevice
  NoAddress = NoAddress
  MaxNodes = 2
  MaxChanges = 4
  MaxFaults = 1
SPECIFICATION Spec
INVARIANT TypeOK
INVARIANT OpensWhoIsThere
INVARIANT NotFoundIsTrue
INVARIANT SameNodeEachTime
CHECK_DEADLOCK FALSE
