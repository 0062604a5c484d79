CONSTANTS
  Subscribers = {r1, r2}
  Cameras = {c1}
  MaxChanges = 1
  MaxSamples = 1
  MaxEvents <- MCMaxEvents
SPECIFICATION Spec
INVARIANT EventsBroadcast
CHECK_DEADLOCK FALSE
