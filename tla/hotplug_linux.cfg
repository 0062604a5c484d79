CONSTANTS
  c1 = c1
  c2 = c2
  s1 = s1
  none = none
  Cameras = {c1, c2}
  Addresses = {a1, a2}
  Nodes = {v0, v1}
  Serials = {s1, none}
  EmptySerial = none
  Serial <- MCSerial
  NoCamera = NoCamera
  Absent = Absent
  ByAddress = TRUE
  ReuseAddress = TRUE
  Faults = {"dir", "node", "serial"}
  PollChunks = 2
  MaxChanges = 3
  MaxFaults = 1
SPECIFICATION Spec
INVARIANT TypeOK
PROPERTY ImplementsPresence
PROPERTY EventsAreReal
PROPERTY PairsNameWhoWasThere
PROPERTY NothingAfterDrop
CHECK_DEADLOCK FALSE
