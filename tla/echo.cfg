\* One connection to the first of two ports, two-byte writes into sockets of
\* one byte, with every failure.
CONSTANTS
  NConns = 1
  NPorts = 2
  Payload = 2
  Cap = 1
  MaxBytes = 4
  Timed = TRUE
  Failures = TRUE
SPECIFICATION FairSpec
INVARIANTS CountedAsSent NothingLost JoinedAtTheEnd
PROPERTIES StopWhenTold EchoesEnd
