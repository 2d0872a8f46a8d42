SPECIFICATION FairSpec
CONSTANTS
  N = 2
  p1 = p1
  p2 = p2
  p3 = p3
  a = a
  b = b
  NoObj = NoObj
  Producers <- TwoProducers
  Values <- TwoValues
  FailOnFull = FALSE
  MaxTickets = 5
PROPERTIES
  ImplementsFIFO
  EveryPutDelivered
