SPECIFICATION Spec
CONSTANTS
  w1 = w1
  w2 = w2
  w3 = w3
  x = x
  y = y
  None = None
  Wrappers <- TwoWrappers
  Values <- OneValue
  BlockSize = 2
  DefaultSize = 1
  MaxBlocks = 3
  WordSize = 256
SYMMETRY Symmetry
INVARIANTS
  NeverThrows
  HeldOnce
  UsedSizeCovers
