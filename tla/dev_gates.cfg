\* Two threads, each with files of its own: opens, reads and closes under limits that move.
CONSTANTS
  t1 = t1
  t2 = t2
  t3 = t3
  f1 = f1
  f2 = f2
  f3 = f3
  root = root
  alice = alice
  no_thread = no_thread
  no_file = no_file
  no_pcb = no_pcb
  ByteBits = 2
  NumBytes = 2
  TSF_MAX_PORTS = 2
  Root = root
  Threads = {t1, t2}
  Files = {f1, f2, f3}
  Creds = {alice}
  Filters <- OneFilter
  Kinds <- OneKind
  NoThread = no_thread
  NoFile = no_file
  NoPcb = no_pcb
  BufSizes = {1}
  CheckInterval = 1
  TunableValues <- GateTunables
  Sharing = FALSE
  MaxGen = 1
  MaxOpens = 3
  MaxReads = 2
  MaxTime = 1
SPECIFICATION Spec
INVARIANTS StatsBalanced OneWalkPerReset
PROPERTIES FdGateSpec ReaderGateSpec
SYMMETRY Symmetry
