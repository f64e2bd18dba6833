\* One thread reads a file of its own twice, over sockets that come, go and change while time passes.
CONSTANTS
  t1 = t1
  t2 = t2
  t3 = t3
  f1 = f1
  f2 = f2
  f3 = f3
  root = root
  alice = alice
  no_thread = no_thread
  no_file = no_file
  no_pcb = no_pcb
  ByteBits = 2
  NumBytes = 2
  TSF_MAX_PORTS = 2
  Root = root
  Threads = {t1}
  Files = {f1}
  Creds = {alice}
  Filters <- MCFilters
  Kinds <- MCKinds
  NoThread = no_thread
  NoFile = no_file
  NoPcb = no_pcb
  BufSizes = {2}
  CheckInterval = 2
  TunableValues <- TimeTunables
  Sharing = FALSE
  MaxGen = 3
  MaxOpens = 1
  MaxReads = 2
  MaxTime = 3
SPECIFICATION Spec
INVARIANTS SnapshotOrdered SnapshotComplete BatchBalanced LateVisitsBounded
PROPERTIES ReadsSpaced
