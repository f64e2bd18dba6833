\* Strings of up to three of 29 directives, addresses of four bits in two
\* bytes, and texts of up to eight characters for an address of three groups.
CONSTANTS
  ByteBits = 2
  NumBytes = 2
  TSF_MAX_PORTS = 2
  Root = root
  TSF_PARSE_MAXDIRECTIVES = 3
  MaxPort = 3
  Inputs <- SmallInputs
  Before <- ShutFilter
  Sockets <- SmallSockets
  Groups = 3
  MaxDigits = 2
  Base = 2
  Colon = colon
  Other = other
  MaxText = 8
SPECIFICATION MCSpec
INVARIANTS FilterMeansAll V6TextExact
