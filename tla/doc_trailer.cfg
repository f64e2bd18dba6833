\* The trailer as the kernel writes it, with the number of sockets.
CONSTANTS
  Lists <- MCLists
  KldInputs <- MCKldInputs
  TrailerCounts <- Sockets
SPECIFICATION RecordsSpec
INVARIANT ParsedExact
CHECK_DEADLOCK FALSE
