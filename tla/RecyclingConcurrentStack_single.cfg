SPECIFICATION Spec
CONSTANTS
  n1 = n1
  n2 = n2
  n3 = n3
  n4 = n4
  a = a
  b = b
  c = c
  Null = Null
  NoObj = NoObj
  Nodes <- FourNodes
  Pushers <- OnePusher
  Poppers <- OnePopper
  InitialCapacity = 2
  MaxPushes = 5
SYMMETRY Symmetry
INVARIANTS
  NodeInOnePlace
  EveryValuePoppedOnce
PROPERTIES
  ImplementsStack
