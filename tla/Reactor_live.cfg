SPECIFICATION FairSpec
CONSTANTS
  j1 = j1
  j2 = j2
  j3 = j3
  d1 = d1
  d2 = d2
  d3 = d3
  d4 = d4
  f1 = f1
  f2 = f2
  f3 = f3
  None = None
  Frames <- TwoFrames
  Jobs <- TwoJobs
  Data <- ThreeData
  SQSize = 1
  MaxAwaits = 2
  MaxSpawns = 2
  MaxTime = 1
PROPERTIES
  RunReturns
  EveryAwaitEnds
