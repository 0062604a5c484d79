CONSTANTS
  Subscribers = {r1, r2}
  Cameras = {c1}
  MaxChanges = 2
  MaxSamples = 1
  MaxEvents <- MCMaxEvents
SPECIFICATION FairSpec
INVARIANT TypeOK
INVARIANT WatcherLivesUntilDrop
INVARIANT OnceAndInOrder
PROPERTY EndMeansEnd
PROPERTY DropsReturn
PROPERTY NobodyIsLeftWaiting
CHECK_DEADLOCK FALSE
