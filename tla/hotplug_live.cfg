CONSTANTS
  c1 = c1
  c2 = c2
  s1 = s1
  none = none
  Cameras = {c1, c2}
  Addresses = {a1, a2, a3}
  Nodes = {v0}
  Serials = {s1, none}
  EmptySerial = none
  Serial <- MCSerial
  NoCamera = NoCamera
  Absent = Absent
  ByAddress = TRUE
  ReuseAddress = FALSE
  Faults = {"dir", "node"}
  PollChunks = 2
  MaxChanges = 2
  MaxFaults = 1
SPECIFICATION FairSpec
PROPERTY Converges
PROPERTY DropReturns
CHECK_DEADLOCK FALSE
