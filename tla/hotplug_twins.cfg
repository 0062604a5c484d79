CONSTANTS
  c1 = c1
  c2 = c2
  s1 = s1
  none = none
  Cameras = {c1, c2}
  Addresses = {a1, a2}
  Nodes = {v0}
  Serials = {s1, none}
  EmptySerial = none
  Serial <- MCNoSerial
  NoCamera = NoCamera
  Absent = Absent
  ByAddress = FALSE
  ReuseAddress = TRUE
  Faults = {}
  PollChunks = 2
  MaxChanges = 0
  MaxFaults = 0
SPECIFICATION Spec
INVARIANT OneAddedPerDeviceAtStartup
CHECK_DEADLOCK FALSE
