CONSTANTS
  NumReads = 2
  Values = {v1, v2}
  Default = none
  SlowTicks = 2
  FastTicks = 1
SPECIFICATION FairSpec
INVARIANT TypeOK
INVARIANT SnapshotIsRecent
INVARIANT StopIsFinal
INVARIANT CadenceTakenUp
PROPERTY ThreadEnds
PROPERTY SamplesKeepComing
CHECK_DEADLOCK FALSE
