\* Two fair threads share a file: reads are refused, throttled or walk beside one another
\* while sockets come and go, and the file is closed under them.
CONSTANTS
  t1 = t1
  t2 = t2
  t3 = t3
  f1 = f1
  f2 = f2
  f3 = f3
  root = root
  alice = alice
  no_thread = no_thread
  no_file = no_file
  no_pcb = no_pcb
  ByteBits = 2
  NumBytes = 2
  TSF_MAX_PORTS = 2
  Root = root
  Threads = {t1, t2}
  Files = {f1}
  Creds = {root}
  Filters <- OneFilter
  Kinds <- OneKind
  NoThread = no_thread
  NoFile = no_file
  NoPcb = no_pcb
  BufSizes = {1}
  CheckInterval = 1
  TunableValues <- ShareTunables
  Sharing = TRUE
  MaxGen = 2
  MaxOpens = 1
  MaxReads = 2
  MaxTime = 1
SPECIFICATION FairSpec
PROPERTIES CallsReturn ClosedFilesFreed
