\* Every list of up to two sockets, and one list cut at every word; up to two
\* records of the kernel module with every small kern.file.
CONSTANTS
  Lists <- MCLists
  KldInputs <- MCKldInputs
  TrailerCounts <- NoSockets
SPECIFICATION RecordsSpec
INVARIANTS ParsedExact CutReported EachMeasuredOnce CountsAgree
CHECK_DEADLOCK FALSE
