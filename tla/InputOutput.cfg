SPECIFICATION AllSpec
CONSTANTS
  zero = zero
  newline = newline
  letter = letter
  Bytes <- AllBytes
  Zero <- zero
  Delimiter <- newline
  ChunkSizes <- ChunkOfTwo
  MaxSize = 3
  WordSize = 16
  NetBuffer = 4
  NetHighWater = 3
  NetBytes = 9
  FdSockets = {s1, s2}
  FdFiles = {f1}
  FdListeners = {l1, l2}
  FdTasks = {t1}
  FdLimit = 3
  FileBatch = 3
  FileRing = 2
  FileLength = 6
  FileCalls = 2
  DnsQueries <- Queries
  DnsOwners <- Owners
  DnsTypes = {1, 2, 6, 11, 13, 15, 16, 28}
  DnsRecords = 2
  ResName = "d"
  ResRoots <- Roots
  ResReplies <- Replies
  ResDepth = 3
  TaskJobs = {"p", "c"}
  TaskDepth = 3
  TaskAwaits = 3
INVARIANTS
  NetIsStream
  FdOwnedOnce
  FileBuffersTransparent
  
  ResResultJustified
  TaskCancelExact
PROPERTIES
  ReadersFaithful
CHECK_DEADLOCK FALSE
