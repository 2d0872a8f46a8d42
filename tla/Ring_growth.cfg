SPECIFICATION Spec
CONSTANTS
  a = a
  b = b
  Blank = Blank
  Junk = Junk
  Values <- TwoValues
  Uses <- QueueUse
PROPERTY DequeSemantics
