\* Sockets open and close at three addresses while one or two batches are
\* collected.
CONSTANTS
  p1 = p1
  p2 = p2
  Pids <- MCPids
  NoPid = no_pid
  NAddrs = 3
  HeaderSize = 1
  EntrySize = 2
  MaxRetries = 1
  Headroom = 1
  MinRecords = 1
  Counts = {0, 1}
  MaxEvents = 4
  MaxBatches = 2
SPECIFICATION ReaderFairSpec
INVARIANTS ListIsASnapshot LastingSocketsReported TruncatedOnlyByGrowth
PROPERTIES JoinIsRight RunEnds
CHECK_DEADLOCK FALSE
