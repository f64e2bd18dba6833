\* Three requests of any kind over five ticks of the clock, with the limit of the
\* program, two, and with zero, under which alone the loop refuses for it.
CONSTANTS
  r1 = r1
  r2 = r2
  r3 = r3
  Requests <- MCRequests
  NoRequest = no_request
  Limits = {0, 2}
  MinInterval = 2
  MaxTime = 4
SPECIFICATION ExporterFairSpec
INVARIANTS RateSpaced TotalBalanced
PROPERTIES RefusalsEarned ActiveIsAGate Answered
CHECK_DEADLOCK FALSE
