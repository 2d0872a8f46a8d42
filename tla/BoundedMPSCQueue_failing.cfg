SPECIFICATION Spec
CONSTANTS
  N = 2
  p1 = p1
  p2 = p2
  p3 = p3
  a = a
  b = b
  NoObj = NoObj
  Producers <- ThreeProducers
  Values <- TwoValues
  FailOnFull = TRUE
  MaxTickets = 6
SYMMETRY Symmetry
INVARIANTS
  CellExclusion
  DeliveredInTicketOrder
  AcceptedStaysQueued
