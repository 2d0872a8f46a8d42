SPECIFICATION Spec
CONSTANTS
  n1 = n1
  n2 = n2
  n3 = n3
  n4 = n4
  a = a
  b = b
  c = c
  Null = Null
  NoObj = NoObj
  Nodes <- ThreeNodes
  Pushers <- TwoPushers
  Poppers <- OnePopper
  InitialCapacity = 2
  MaxPushes = 4
SYMMETRY Symmetry
INVARIANT
  EveryValuePoppedOnce
