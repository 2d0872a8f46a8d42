SPECIFICATION FairSpec
CONSTANTS
  N = 4
  a = a
  b = b
  NoObj = NoObj
  Values <- TwoValues
  FailOnFull = TRUE
  MaxPuts = 6
INVARIANTS
  SlotExclusion
PROPERTIES
  FalseMeansQueueFull
  ImplementsFIFO
  EveryPutDelivered
