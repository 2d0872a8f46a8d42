SPECIFICATION AllSpec
CONSTANTS
  a = a
  b = b
  Blank = Blank
  Junk = Junk
  Values <- TwoValues
  Uses <- SoundUses
  MemBase = 2
  MemCapacity = 6
  MemInputs <- Words
  MemLimit = 8
  CacheKeys = {k1, k2}
  CacheTimes = 3
  CacheAdds = 3
  SemTasks = {t1, t2, t3}
  SemInitial = {0, 1}
  SemMaxPermits = 6
  ProcPipe = 2
  ProcScripts <- Scripts
  ProcInputs <- ProcSizes
  JsonLeaves <- Leaves
  JsonKeys <- Keys
  JsonTexts <- Texts
  JsonDepth = 2
  JsonSize = 2
  HttpWorkers = {w1}
  HttpConns = {c1, c2}
  HttpBuf = 2
  HttpMaxLine = 2
  CliWords <- Tokens
  CliRing = 16
  CliResponses <- Responses
INVARIANTS
  ViewsAgree
  CacheReturnsFresh
  SemNoLostWakeup
  ProcOutputComplete
  JsonReadAsWritten
  HttpOwnConnectionOnly
  CliAsSent
PROPERTIES
  DequeSemantics
  MemWordsArePositional
  ProcCallReturns
CHECK_DEADLOCK FALSE
