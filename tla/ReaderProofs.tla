---------------------------- MODULE ReaderProofs ----------------------------
(***************************************************************************)
(* What a collection of tcpstats-reader holds, for any number of           *)
(* addresses, processes, retries and batches, and whatever opens and       *)
(* closes while it is collected.                                           *)
(*                                                                         *)
(* CopyInv is about macOS: as long as the generation is that of the        *)
(* header the table is the one the copying began with, and the list copied *)
(* so far is a part of it.  WalkInv is about FreeBSD: the records are in   *)
(* the order of the addresses, no more than the buffer holds, and include  *)
(* every lasting socket that has been passed.  A socket's birth number is  *)
(* never drawn again, so equal births are the same socket (BirthInv).      *)
(***************************************************************************)
EXTENDS Reader, FiniteSetTheorems, TLAPS

Programs == [pc : {"start", "size", "header", "copy", "validate", "version", "read",
                   "pids", "emit", "sleep", "done", "failed"},
             sequence : 0 .. MaxBatches, attempt : 0 .. MaxRetries]
Calls == [room : Nat, header : Births, trailer : Births, next : 1 .. NAddrs + 1,
          full : BOOLEAN]
SocketRecords == [addr : Addrs, birth : Births, pid : Pids \cup {NoPid}]

TypesInv ==
  /\ table \in [Addrs -> Sockets] /\ before \in [Addrs -> Sockets]
  /\ gen \in Births
  /\ platform \in {"macos", "freebsd"}
  /\ config \in Counts
  /\ run \in Programs
  /\ call \in Calls
  /\ records \in Seq(SocketRecords)

\* Each platform has its own part of the program.
PlatformInv ==
  /\ run.pc \in {"size", "header", "copy", "validate"} => platform = "macos"
  /\ run.pc \in {"version", "read", "pids"} => platform = "freebsd"

BirthInv == \A a \in Addrs : table[a].birth <= gen /\ before[a].birth <= gen

\* No process is known before kern.file is read.
UnjoinedInv ==
  /\ run.pc = "version" => records = <<>>
  /\ run.pc \in {"read", "pids"} => \A i \in DOMAIN records : records[i].pid = NoPid

CopiedBefore(n) == {<<a, before[a].birth>> : a \in {b \in Present(before) : b < n}}

CopyInv ==
  /\ run.pc = "header" => call.next = 1
  /\ run.pc \in {"copy", "validate"} => call.header <= gen
  /\ run.pc = "copy" /\ call.header = gen =>
       table = before /\ Collected = CopiedBefore(call.next)
  /\ run.pc = "validate" /\ call.header = call.trailer => Collected = Existed
  /\ run.pc = "emit" /\ platform = "macos" => Collected = Existed

InOrder == \A i, j \in DOMAIN records : i < j => records[i].addr < records[j].addr

\* The lasting sockets below address n have been reported.
Reported(n) ==
  \A a \in Present(table) :
    a < n /\ table[a].birth = before[a].birth /\ Visible(table[a]) =>
      <<a, table[a].birth>> \in Collected

WalkInv ==
  run.pc \in {"read", "pids"} =>
    /\ InOrder /\ \A i \in DOMAIN records : records[i].addr < call.next
    /\ Len(records) <= call.room
    /\ call.room >= Cardinality(Present(before)) + Headroom
    /\ Reported(call.next)
    /\ run.pc = "pids" => call.next \notin Addrs \/ Len(records) = call.room

ReaderInv == TypesInv /\ PlatformInv /\ BirthInv /\ UnjoinedInv /\ CopyInv /\ WalkInv

---------------------------------------------------------------------------
(* The table and the list.                                                 *)

LEMMA PresentFinite ==
  ASSUME NEW T
  PROVE  IsFiniteSet(Present(T)) /\ Cardinality(Present(T)) \in Nat
<1>1. IsFiniteSet(Addrs)
  BY FS_Interval, ReaderAssumption DEF Addrs
<1>2. Present(T) \subseteq Addrs
  BY DEF Present
<1> QED
  BY <1>1, <1>2, FS_Subset, FS_CardinalityType

LEMMA NoSocketTyped == NoSocket \in Sockets
BY ReaderAssumption DEF NoSocket, Sockets, Births

LEMMA NoCallTyped == NoCall \in Calls
BY ReaderAssumption DEF NoCall, Calls, Births

LEMMA RecordTyped ==
  ASSUME NEW a \in Addrs, NEW b \in Births
  PROVE  /\ Record(a, b, NoPid) \in SocketRecords
         /\ Record(a, b, NoPid).addr = a /\ Record(a, b, NoPid).birth = b
         /\ Record(a, b, NoPid).pid = NoPid
BY DEF Record, SocketRecords

\* What is in a list one record longer.
LEMMA Appended ==
  ASSUME records \in Seq(SocketRecords), NEW r \in SocketRecords, records' = Append(records, r)
  PROVE  /\ records' \in Seq(SocketRecords) /\ Len(records') = Len(records) + 1
         /\ \A i \in DOMAIN records : i \in DOMAIN records' /\ records'[i] = records[i]
         /\ \A i \in DOMAIN records' : \/ i \in DOMAIN records
                                       \/ i = Len(records) + 1 /\ records'[i] = r
         /\ Collected' = Collected \cup {<<r.addr, r.birth>>}
<1>1. /\ records' \in Seq(SocketRecords) /\ Len(records') = Len(records) + 1
      /\ Len(records) \in Nat /\ DOMAIN records = 1 .. Len(records)
      /\ DOMAIN records' = 1 .. Len(records) + 1
      /\ \A i \in DOMAIN records : records'[i] = records[i]
      /\ records'[Len(records) + 1] = r
  OBVIOUS
<1>2. Len(records) + 1 \in DOMAIN records'
  BY <1>1
<1>3. /\ \A i \in DOMAIN records : i \in DOMAIN records' /\ records'[i] = records[i]
      /\ \A i \in DOMAIN records' : \/ i \in DOMAIN records
                                    \/ i = Len(records) + 1 /\ records'[i] = r
  BY <1>1
<1>4. Collected' = {<<records'[i].addr, records'[i].birth>> : i \in DOMAIN records'}
  BY DEF Collected
<1>5. Collected' = Collected \cup {<<r.addr, r.birth>>}
  BY <1>1, <1>2, <1>3, <1>4 DEF Collected
<1> QED
  BY <1>1, <1>3, <1>5

LEMMA ReaderInit == Init => ReaderInv
<1> SUFFICES ASSUME Init PROVE ReaderInv
  OBVIOUS
<1>1. \A a \in Addrs : table[a] \in Sockets /\ table[a].birth <= 1
  <2>1. NoSocket \in Sockets /\ NoSocket.birth = 0
    BY NoSocketTyped DEF NoSocket
  <2>2. 1 \in Births
    BY ReaderAssumption DEF Births
  <2> DEFINE s == [birth |-> 1, listen |-> FALSE, pids |-> Pids]
  <2>3. s \in Sockets /\ s.birth = 1
    BY <2>2 DEF Sockets
  <2>4. table \in [Addrs -> {NoSocket, s}]
    BY DEF Init
  <2> HIDE DEF s
  <2>5. \A a \in Addrs : table[a] = NoSocket \/ table[a] = s
    BY <2>4
  <2>6. \A a \in Addrs : table[a] \in Sockets /\ table[a].birth <= 1
    BY <2>1, <2>3, <2>5
  <2> QED
    BY <2>6
<1>2. TypesInv
  <2>1. table \in [Addrs -> Sockets] /\ before \in [Addrs -> Sockets]
    BY <1>1 DEF Init
  <2>2. gen \in Births /\ run \in Programs
    BY ReaderAssumption DEF Init, Births, Programs
  <2>3. records \in Seq(SocketRecords)
    BY DEF Init
  <2> QED
    BY <2>1, <2>2, <2>3, NoCallTyped DEF TypesInv, Init
<1>3. PlatformInv /\ UnjoinedInv /\ CopyInv /\ WalkInv
  BY DEF Init, PlatformInv, UnjoinedInv, CopyInv, WalkInv
<1>4. BirthInv
  BY <1>1 DEF Init, BirthInv
<1> QED
  BY <1>2, <1>3, <1>4 DEF ReaderInv

---------------------------------------------------------------------------
(* The kernel.                                                             *)

\* A socket opens or closes at address a.
LEMMA ReaderTable ==
  ASSUME ReaderInv, NEW a \in Addrs, OpenSocket(a) \/ CloseSocket(a)
  PROVE  ReaderInv'
<1>1. /\ UNCHANGED <<platform, config, run, call, records, before>>
      /\ gen' = gen + 1 /\ gen < MaxEvents /\ gen \in Nat /\ MaxEvents \in Nat
      /\ table \in [Addrs -> Sockets] /\ before \in [Addrs -> Sockets]
  BY ReaderAssumption DEF OpenSocket, CloseSocket, ReaderInv, TypesInv, Births
<1>2. gen' \in Births
  BY <1>1 DEF Births
<1>3. PICK s \in Sockets : /\ table' = [table EXCEPT ![a] = s]
                           /\ s.birth = gen + 1 \/ s.birth = 0
  <2>1. CASE OpenSocket(a)
    <3>1. PICK pid \in Pids, listen \in BOOLEAN :
            table' = [table EXCEPT ![a] = [birth |-> gen + 1, listen |-> listen, pids |-> {pid}]]
      BY <2>1 DEF OpenSocket
    <3>2. [birth |-> gen + 1, listen |-> listen, pids |-> {pid}] \in Sockets
      BY <1>1, <1>2 DEF Sockets
    <3> QED
      BY <3>1, <3>2
  <2>2. CASE CloseSocket(a)
    BY <2>2, NoSocketTyped DEF CloseSocket, NoSocket
  <2> QED
    BY <2>1, <2>2
<1>4. table' \in [Addrs -> Sockets] /\ table'[a] = s
      /\ \A b \in Addrs \ {a} : table'[b] = table[b]
  BY <1>1, <1>3
<1>5. TypesInv'
  BY <1>1, <1>2, <1>4 DEF ReaderInv, TypesInv
<1>6. PlatformInv' /\ UnjoinedInv'
  BY <1>1 DEF ReaderInv, PlatformInv, UnjoinedInv
<1>7. \A b \in Addrs : /\ table[b].birth \in Nat /\ before[b].birth \in Nat
                       /\ table[b].birth <= gen /\ before[b].birth <= gen
  BY <1>1 DEF ReaderInv, BirthInv, Sockets, Births
<1>8. BirthInv'
  <2>1. \A b \in Addrs : table'[b].birth <= gen'
    BY <1>1, <1>3, <1>4, <1>7
  <2>2. \A b \in Addrs : before'[b].birth <= gen'
    BY <1>1, <1>7
  <2> QED
    BY <2>1, <2>2 DEF BirthInv
<1>9. CopyInv'
  <2>1. run.pc \in {"copy", "validate"} => call.header <= gen /\ call.header \in Nat
    BY DEF ReaderInv, CopyInv, TypesInv, Calls, Births
  <2>2. run.pc \in {"copy", "validate"} => call.header <= gen' /\ call.header # gen'
    BY <1>1, <2>1
  <2>3. Collected' = Collected /\ Existed' = Existed
    BY <1>1 DEF Collected, Existed, Present
  <2> QED
    BY <1>1, <2>2, <2>3 DEF ReaderInv, CopyInv
<1>10. WalkInv'
  <2>1. ASSUME run.pc \in {"read", "pids"}, NEW b \in Present(table'), b < call.next,
               table'[b].birth = before[b].birth, Visible(table'[b])
        PROVE  <<b, table'[b].birth>> \in Collected
    <3>1. b \in Addrs /\ table'[b].birth # 0
      BY <2>1 DEF Present
    <3>2. b # a
      BY <1>1, <1>3, <1>4, <1>7, <2>1, <3>1
    <3>3. table'[b] = table[b] /\ b \in Present(table)
      BY <1>4, <3>1, <3>2 DEF Present
    <3> QED
      BY <2>1, <3>3 DEF ReaderInv, WalkInv, Reported
  <2>2. Collected' = Collected /\ InOrder' = InOrder /\ (\A x : Visible(x)' <=> Visible(x))
    BY <1>1 DEF Collected, InOrder, Visible
  <2>3. Present(before)' = Present(before) /\ Present(table)' = Present(table')
    BY <1>1 DEF Present
  <2>4. run.pc \in {"read", "pids"} => Reported(call.next)'
    BY <1>1, <2>1, <2>2, <2>3 DEF Reported, Visible
  <2> QED
    BY <1>1, <2>2, <2>3, <2>4 DEF ReaderInv, WalkInv
<1> QED
  BY <1>5, <1>6, <1>8, <1>9, <1>10 DEF ReaderInv

---------------------------------------------------------------------------
(* The program.                                                            *)

\* The program moves from its label to another, outside both collections.
LEMMA RunTyped ==
  ASSUME ReaderInv,
         NEW l \in {"start", "size", "header", "copy", "validate", "version", "read",
                    "pids", "emit", "sleep", "done", "failed"}
  PROVE  /\ [run EXCEPT !.pc = l] \in Programs /\ [run EXCEPT !.pc = l].pc = l
         /\ table \in [Addrs -> Sockets] /\ before \in [Addrs -> Sockets]
         /\ gen \in Births /\ gen \in Nat
         /\ call \in Calls /\ records \in Seq(SocketRecords)
BY ReaderAssumption DEF ReaderInv, TypesInv, Programs, Births

\* Labels at which nothing is known of the list.
LEMMA ReaderAway ==
  ASSUME ReaderInv, UNCHANGED <<envVars, platform, config>>, TypesInv',
         \/ run'.pc \in {"start", "sleep", "done", "failed"}
         \/ run'.pc = "size" /\ platform = "macos"
         \/ run'.pc = "header" /\ platform = "macos" /\ call'.next = 1
         \/ run'.pc = "version" /\ platform = "freebsd" /\ records' = <<>>,
         before' = before \/ before' = table
  PROVE  ReaderInv'
<1>1. PlatformInv' /\ UnjoinedInv' /\ CopyInv' /\ WalkInv'
  BY DEF PlatformInv, UnjoinedInv, CopyInv, WalkInv
<1>2. BirthInv'
  BY DEF ReaderInv, BirthInv, envVars
<1> QED
  BY <1>1, <1>2 DEF ReaderInv

LEMMA ReaderLoop ==
  ASSUME ReaderInv, Start \/ Emit \/ Wake
  PROVE  ReaderInv'
<1>1. CASE Start
  <2>1. run' \in Programs /\ run'.pc = IF platform = "macos" THEN "size" ELSE "version"
    BY <1>1, ReaderAssumption DEF Start, ReaderInv, TypesInv, Programs
  <2>2. TypesInv'
    BY <1>1, <2>1 DEF Start, ReaderInv, TypesInv, envVars
  <2> QED
    BY <1>1, <2>1, <2>2, ReaderAway DEF Start, ReaderInv, TypesInv
<1>2. CASE Emit \/ Wake
  <2>1. PICK l \in {"start", "sleep", "done", "failed"} :
          /\ UNCHANGED <<envVars, platform, config, call, records, before>>
          /\ run' = [run EXCEPT !.pc = l]
    BY <1>2 DEF Emit, Wake, Go, Fail
  <2>2. run' \in Programs /\ run'.pc = l
    BY <2>1, RunTyped
  <2>3. TypesInv'
    BY <2>1, <2>2 DEF ReaderInv, TypesInv, envVars
  <2> QED
    BY <2>1, <2>2, <2>3, ReaderAway
<1> QED
  BY <1>1, <1>2

LEMMA ReaderSize ==
  ASSUME ReaderInv, AskSize
  PROVE  ReaderInv'
<1>1. /\ run.pc = "size" /\ UNCHANGED <<envVars, platform, config, records, before>>
      /\ call' = [NoCall EXCEPT !.room = call'.room] /\ call'.next = 1
      /\ call'.room = ListSize(Cardinality(Present(table)))
                        + ListSize(Cardinality(Present(table))) \div 4
      /\ \E l \in {"header", "failed"} : run' = [run EXCEPT !.pc = l]
  BY DEF AskSize, Go, Fail, NoCall
<1>2. ListSize(Cardinality(Present(table))) \in Nat
  <2>1. Cardinality(Present(table)) \in Nat /\ HeaderSize \in Nat /\ EntrySize \in Nat
    BY PresentFinite, ReaderAssumption
  <2>2. Cardinality(Present(table)) * EntrySize \in Nat
    BY <2>1
  <2> QED
    BY <2>1, <2>2 DEF ListSize
<1>3. call'.room \in Nat
  BY <1>1, <1>2
<1>4. call' \in Calls
  BY <1>1, <1>3, NoCallTyped DEF Calls
<1>5. PICK l \in {"header", "failed"} : run' = [run EXCEPT !.pc = l]
  BY <1>1
<1>6. run' \in Programs /\ run'.pc = l
  BY <1>5, RunTyped
<1>7. TypesInv'
  BY <1>1, <1>4, <1>6 DEF ReaderInv, TypesInv, envVars
<1>8. platform = "macos"
  BY <1>1 DEF ReaderInv, PlatformInv
<1> QED
  BY <1>1, <1>6, <1>7, <1>8, ReaderAway

\* A step of the macOS copy, which leaves the table alone.
LEMMA ReaderCopies ==
  ASSUME ReaderInv, TypesInv', platform = "macos", UNCHANGED <<envVars, platform, config>>,
         run'.pc \in {"copy", "validate", "emit"}, CopyInv', before' = before \/ before' = table
  PROVE  ReaderInv'
<1>1. PlatformInv' /\ UnjoinedInv' /\ WalkInv'
  BY DEF PlatformInv, UnjoinedInv, WalkInv
<1>2. BirthInv'
  BY DEF ReaderInv, BirthInv, envVars
<1> QED
  BY <1>1, <1>2 DEF ReaderInv

LEMMA ReaderHeader ==
  ASSUME ReaderInv, CopyHeader
  PROVE  ReaderInv'
<1>1. /\ run.pc = "header" /\ UNCHANGED <<envVars, platform, config>>
      /\ call' = [call EXCEPT !.header = gen] /\ records' = <<>> /\ before' = table
      /\ run' = [run EXCEPT !.pc = "copy"]
  BY DEF CopyHeader, Go
<1>2. /\ run' \in Programs /\ run'.pc = "copy" /\ call \in Calls /\ gen \in Births /\ gen \in Nat
      /\ table \in [Addrs -> Sockets]
  BY <1>1, RunTyped
<1>3. call' \in Calls /\ call'.header = gen /\ call'.next = call.next
  BY <1>1, <1>2 DEF Calls
<1>4. platform = "macos"
  BY <1>1 DEF ReaderInv, PlatformInv
<1>5. TypesInv'
  BY <1>1, <1>2, <1>3 DEF ReaderInv, TypesInv, envVars
<1>6. CopyInv'
  <2>1. call.next = 1
    BY <1>1 DEF ReaderInv, CopyInv
  <2>2. Collected' = {} /\ CopiedBefore(1)' = {}
    BY <1>1 DEF Collected, CopiedBefore, Present, Addrs
  <2>3. call'.header <= gen'
    BY <1>1, <1>2, <1>3 DEF envVars
  <2>4. table' = before'
    BY <1>1 DEF envVars
  <2> QED
    BY <1>2, <1>3, <2>1, <2>2, <2>3, <2>4 DEF CopyInv
<1> QED
  BY <1>1, <1>2, <1>4, <1>5, <1>6, ReaderCopies

\* The walk's place after an address: what was copied before it and what is at it.
LEMMA CopiedNext ==
  ASSUME NEW a \in Addrs
  PROVE  CopiedBefore(a + 1) = CopiedBefore(a) \cup
           IF a \in Present(before) THEN {<<a, before[a].birth>>} ELSE {}
<1>1. {b \in Present(before) : b < a + 1} =
        {b \in Present(before) : b < a} \cup IF a \in Present(before) THEN {a} ELSE {}
  BY DEF Present, Addrs
<1> QED
  BY <1>1 DEF CopiedBefore

LEMMA ReaderSocket ==
  ASSUME ReaderInv, CopySocket
  PROVE  ReaderInv'
<1> DEFINE a == call.next
           r == Record(a, table[a].birth, NoPid)
<1>1. /\ run.pc = "copy" /\ a \in Addrs /\ UNCHANGED <<envVars, platform, config, before>>
      /\ call' = [call EXCEPT !.next = a + 1]
      /\ \/ a \notin Present(table) /\ UNCHANGED <<run, records>>
         \/ a \in Present(table) /\ run' = [run EXCEPT !.pc = "failed"] /\ UNCHANGED records
         \/ a \in Present(table) /\ records' = Append(records, r) /\ UNCHANGED run
  BY DEF CopySocket, Fail
<1>2. /\ call \in Calls /\ records \in Seq(SocketRecords) /\ table \in [Addrs -> Sockets]
      /\ run \in Programs /\ [run EXCEPT !.pc = "failed"] \in Programs
      /\ [run EXCEPT !.pc = "failed"].pc = "failed"
  BY RunTyped DEF ReaderInv, TypesInv
<1>3. a + 1 \in 1 .. NAddrs + 1 /\ table[a].birth \in Births
  BY <1>1, <1>2, ReaderAssumption DEF Addrs, Sockets
<1>4. call' \in Calls /\ call'.next = a + 1 /\ call'.header = call.header
  BY <1>1, <1>2, <1>3 DEF Calls
<1>5. platform = "macos"
  BY <1>1 DEF ReaderInv, PlatformInv
<1>6. r \in SocketRecords /\ r.addr = a /\ r.birth = table[a].birth
  BY <1>1, <1>3, RecordTyped
<1> HIDE DEF r
<1>7. records' \in Seq(SocketRecords)
  BY <1>1, <1>2, <1>6, Appended
<1>8. TypesInv'
  BY <1>1, <1>2, <1>4, <1>7 DEF ReaderInv, TypesInv, envVars
<1>9. CASE run' = [run EXCEPT !.pc = "failed"]
  BY <1>1, <1>2, <1>8, <1>9, ReaderAway
<1>10. CASE UNCHANGED run
  <2>1. /\ call.header <= gen
        /\ call.header = gen => table = before /\ Collected = CopiedBefore(a)
    BY <1>1 DEF ReaderInv, CopyInv
  <2>2. Collected' = Collected \cup IF a \in Present(table) THEN {<<a, table[a].birth>>} ELSE {}
    <3>1. CASE a \notin Present(table)
      BY <1>1, <3>1 DEF Collected
    <3>2. CASE a \in Present(table)
      <4>1. records' = Append(records, r)
        BY <1>1, <1>2, <1>10, <3>2
      <4> QED
        BY <1>2, <1>6, <3>2, <4>1, Appended
    <3> QED
      BY <3>1, <3>2
  <2>3. CopiedBefore(call.next)' = CopiedBefore(a + 1)
    BY <1>1, <1>4 DEF CopiedBefore, Present
  <2>4. call.header = gen => Collected' = CopiedBefore(a + 1)
    BY <1>1, <2>1, <2>2, CopiedNext
  <2>5. CopyInv'
    BY <1>1, <1>4, <1>10, <2>1, <2>3, <2>4 DEF CopyInv, envVars
  <2> QED
    BY <1>1, <1>5, <1>8, <1>10, <2>5, ReaderCopies
<1> QED
  BY <1>1, <1>9, <1>10

LEMMA ReaderTrailer ==
  ASSUME ReaderInv, CopyTrailer
  PROVE  ReaderInv'
<1>1. /\ run.pc = "copy" /\ call.next \notin Addrs
      /\ UNCHANGED <<envVars, platform, config, records, before>>
      /\ call' = [call EXCEPT !.trailer = gen] /\ run' = [run EXCEPT !.pc = "validate"]
  BY DEF CopyTrailer, Go
<1>2. /\ run' \in Programs /\ run'.pc = "validate" /\ call \in Calls /\ gen \in Births
  BY <1>1, RunTyped
<1>3. call' \in Calls /\ call'.trailer = gen /\ call'.header = call.header
  BY <1>1, <1>2 DEF Calls
<1>4. TypesInv'
  BY <1>1, <1>2, <1>3 DEF ReaderInv, TypesInv, envVars
<1>5. CopiedBefore(call.next) = Existed
  <2>1. call.next > NAddrs
    BY <1>1, <1>2, ReaderAssumption DEF Calls, Addrs
  <2>2. {b \in Present(before) : b < call.next} = Present(before)
    BY <1>2, <2>1, ReaderAssumption DEF Present, Addrs, Calls
  <2> QED
    BY <2>2 DEF CopiedBefore, Existed
<1>6. Collected' = Collected /\ Existed' = Existed
  BY <1>1 DEF Collected, Existed, Present
<1>7. CopyInv'
  BY <1>1, <1>2, <1>3, <1>5, <1>6 DEF ReaderInv, CopyInv, envVars
<1>8. platform = "macos"
  BY <1>1 DEF ReaderInv, PlatformInv
<1> QED
  BY <1>1, <1>2, <1>4, <1>7, <1>8, ReaderCopies

LEMMA ReaderValidate ==
  ASSUME ReaderInv, Validate
  PROVE  ReaderInv'
<1>1. /\ run.pc = "validate"
      /\ UNCHANGED <<envVars, platform, config, call, records, before>>
      /\ \/ call.header = call.trailer /\ run' = [run EXCEPT !.pc = "emit"]
         \/ run' = [run EXCEPT !.pc = "failed"]
         \/ run.attempt # MaxRetries /\ run' = [run EXCEPT !.pc = "size", !.attempt = @ + 1]
  BY DEF Validate, Go, Fail
<1>2. run' \in Programs /\ run'.pc \in {"emit", "failed", "size"}
  <2>1. run \in Programs
    BY DEF ReaderInv, TypesInv
  <2>2. CASE run' = [run EXCEPT !.pc = "emit"] \/ run' = [run EXCEPT !.pc = "failed"]
    BY <2>2, RunTyped
  <2>3. CASE run.attempt # MaxRetries /\ run' = [run EXCEPT !.pc = "size", !.attempt = @ + 1]
    <3>1. run.attempt + 1 \in 0 .. MaxRetries
      BY <2>1, <2>3, ReaderAssumption DEF Programs
    <3> QED
      BY <2>1, <2>3, <3>1 DEF Programs
  <2> QED
    BY <1>1, <2>2, <2>3
<1>3. TypesInv'
  BY <1>1, <1>2 DEF ReaderInv, TypesInv, envVars
<1>4. platform = "macos"
  BY <1>1 DEF ReaderInv, PlatformInv
<1>5. CASE run'.pc = "emit"
  <2>1. call.header = call.trailer
    BY <1>1, <1>5, RunTyped DEF ReaderInv, TypesInv, Programs
  <2>2. Collected' = Collected /\ Existed' = Existed
    BY <1>1 DEF Collected, Existed, Present
  <2>3. CopyInv'
    BY <1>1, <1>5, <2>1, <2>2 DEF ReaderInv, CopyInv
  <2> QED
    BY <1>1, <1>3, <1>4, <1>5, <2>3, ReaderCopies
<1>6. CASE run'.pc \in {"failed", "size"}
  BY <1>1, <1>3, <1>4, <1>6, ReaderAway
<1> QED
  BY <1>2, <1>5, <1>6

\* A step of the FreeBSD collection, which leaves the table alone.
LEMMA ReaderWalks ==
  ASSUME ReaderInv, TypesInv', platform = "freebsd", UNCHANGED <<envVars, platform, config>>,
         run'.pc \in {"read", "pids", "emit"}, UnjoinedInv', WalkInv',
         before' = before \/ before' = table
  PROVE  ReaderInv'
<1>1. PlatformInv' /\ CopyInv'
  BY DEF PlatformInv, CopyInv
<1>2. BirthInv'
  BY DEF ReaderInv, BirthInv, envVars
<1> QED
  BY <1>1, <1>2 DEF ReaderInv

LEMMA ReaderDevice ==
  ASSUME ReaderInv, OpenDevice
  PROVE  ReaderInv'
<1> DEFINE hint == Cardinality(Present(table))
<1>1. /\ run.pc = "version" /\ UNCHANGED <<envVars, platform, config, records>>
      /\ before' = table
      /\ \E l \in {"read", "failed"} : run' = [run EXCEPT !.pc = l]
  BY DEF OpenDevice, Go, Fail
<1>2. PICK full \in BOOLEAN :
        call' = [NoCall EXCEPT !.full = full,
                               !.room = Larger(hint + hint \div 5 + Headroom, MinRecords)]
  BY DEF OpenDevice
<1>3. /\ Larger(hint + hint \div 5 + Headroom, MinRecords) \in Nat
      /\ Larger(hint + hint \div 5 + Headroom, MinRecords) >= hint + Headroom
  <2>1. hint \in Nat /\ Headroom \in Nat /\ MinRecords \in Nat
    BY PresentFinite, ReaderAssumption
  <2> HIDE DEF hint
  <2>2. hint \div 5 \in Nat
    BY <2>1
  <2> QED
    BY <2>1, <2>2 DEF Larger
<1>4. /\ call' \in Calls /\ call'.next = 1 /\ call'.room \in Nat
      /\ call'.room >= hint + Headroom
  BY <1>2, <1>3, NoCallTyped DEF Calls, NoCall
<1>5. PICK l \in {"read", "failed"} : run' = [run EXCEPT !.pc = l]
  BY <1>1
<1>6. run' \in Programs /\ run'.pc = l /\ table \in [Addrs -> Sockets]
  BY <1>5, RunTyped
<1>7. TypesInv'
  BY <1>1, <1>4, <1>6 DEF ReaderInv, TypesInv, envVars
<1>8. platform = "freebsd" /\ records = <<>>
  BY <1>1 DEF ReaderInv, PlatformInv, UnjoinedInv
<1>9. UnjoinedInv'
  BY <1>1, <1>6, <1>8 DEF UnjoinedInv
<1>10. WalkInv'
  <2>1. \A a \in Present(table)' : ~ (a < call'.next)
    BY <1>4 DEF Present, Addrs
  <2>2. Present(before)' = Present(table)
    BY <1>1 DEF Present
  <2>3. Len(records') = 0 /\ DOMAIN records' = {}
    BY <1>1, <1>8
  <2>4. InOrder' /\ \A i \in DOMAIN records' : records'[i].addr < call'.next
    BY <2>3 DEF InOrder
  <2>5. Reported(call.next)'
    BY <2>1 DEF Reported
  <2>6. Len(records') <= call'.room /\ call'.room >= Cardinality(Present(before))' + Headroom
    BY <1>4, <2>2, <2>3
  <2>7. run'.pc # "pids"
    <3>1. run \in Programs /\ run'.pc = l
      BY <1>6 DEF ReaderInv, TypesInv
    <3> QED
      BY <3>1
  <2> QED
    BY <2>4, <2>5, <2>6, <2>7 DEF WalkInv
<1>11. CASE l = "read"
  BY <1>1, <1>6, <1>7, <1>8, <1>9, <1>10, <1>11, ReaderWalks
<1>12. CASE l = "failed"
  BY <1>1, <1>6, <1>7, <1>12, ReaderAway
<1> QED
  BY <1>11, <1>12

LEMMA ReaderVisit ==
  ASSUME ReaderInv, ReadSocket
  PROVE  ReaderInv'
<1> DEFINE a == call.next
           r == Record(a, table[a].birth, NoPid)
<1>1. /\ run.pc = "read" /\ a \in Addrs /\ Len(records) < call.room
      /\ UNCHANGED <<envVars, platform, config, run, before>>
      /\ call' = [call EXCEPT !.next = a + 1]
      /\ records' = IF Visible(table[a]) THEN Append(records, r) ELSE records
  BY DEF ReadSocket
<1>2. /\ call \in Calls /\ records \in Seq(SocketRecords) /\ table \in [Addrs -> Sockets]
      /\ run \in Programs /\ Len(records) \in Nat /\ DOMAIN records = 1 .. Len(records)
      /\ call.room \in Nat
  BY DEF ReaderInv, TypesInv, Calls
<1>3. a + 1 \in 1 .. NAddrs + 1 /\ table[a].birth \in Births /\ a \in Nat
  <2>1. a \in 1 .. NAddrs /\ NAddrs \in Nat
    BY <1>1, ReaderAssumption DEF Addrs
  <2>2. table[a] \in Sockets
    BY <1>1, <1>2
  <2>3. a + 1 \in 1 .. NAddrs + 1 /\ a \in Nat
    BY <2>1
  <2> QED
    BY <2>2, <2>3 DEF Sockets
<1>4. call' \in Calls /\ call'.next = a + 1 /\ call'.room = call.room /\ call'.full = call.full
  BY <1>1, <1>2, <1>3 DEF Calls
<1>5. platform = "freebsd"
  BY <1>1 DEF ReaderInv, PlatformInv
<1>6. r \in SocketRecords /\ r.addr = a /\ r.birth = table[a].birth /\ r.pid = NoPid
  BY <1>1, <1>3, RecordTyped
<1> HIDE DEF r
<1>7. /\ InOrder /\ \A i \in DOMAIN records : records[i].addr < a
      /\ Len(records) <= call.room
      /\ call.room >= Cardinality(Present(before)) + Headroom
      /\ Reported(a)
      /\ \A i \in DOMAIN records : records[i].pid = NoPid
  BY <1>1 DEF ReaderInv, WalkInv, UnjoinedInv
<1>8. \A i \in DOMAIN records : records[i].addr \in Nat
  <2>1. \A i \in DOMAIN records : records[i] \in SocketRecords
    BY <1>2
  <2>2. \A s \in SocketRecords : s.addr \in Nat
    BY DEF SocketRecords, Addrs
  <2> QED
    BY <2>1, <2>2
<1>9. Present(table)' = Present(table) /\ Present(before)' = Present(before)
      /\ \A s : Visible(s)' <=> Visible(s)
  BY <1>1, <1>4 DEF Present, Visible, envVars
<1>10. CASE ~ Visible(table[a])
  <2>1. UNCHANGED records
    BY <1>1, <1>10
  <2>2. TypesInv' /\ UnjoinedInv'
    BY <1>1, <1>2, <1>4, <1>7, <2>1 DEF ReaderInv, TypesInv, UnjoinedInv, envVars
  <2>3. WalkInv'
    <3>1. InOrder' /\ \A i \in DOMAIN records' : records'[i].addr < call'.next
      BY <1>3, <1>4, <1>7, <1>8, <2>1 DEF InOrder
    <3>2. \A b \in Present(table) :
            b < a + 1 /\ table[b].birth = before[b].birth /\ Visible(table[b]) =>
              <<b, table[b].birth>> \in Collected
      <4> SUFFICES ASSUME NEW b \in Present(table), b < a + 1, Visible(table[b]),
                          table[b].birth = before[b].birth
                   PROVE  <<b, table[b].birth>> \in Collected
        OBVIOUS
      <4>1. b # a /\ b \in Nat
        BY <1>10 DEF Present, Addrs
      <4>2. b < a
        BY <1>3, <4>1
      <4> QED
        BY <1>7, <4>2 DEF Reported
    <3>3. Collected' = Collected
      BY <2>1 DEF Collected
    <3>4. Len(records') <= call'.room /\ run'.pc = "read"
      <4>1. Len(records) <= call.room /\ Len(records') = Len(records)
        BY <1>7, <2>1
      <4> QED
        BY <1>1, <1>4, <4>1
    <3>5. Reported(call.next)'
      BY <1>1, <1>4, <1>9, <3>2, <3>3 DEF Reported, envVars
    <3>6. call'.room >= Cardinality(Present(before))' + Headroom
      BY <1>4, <1>7, <1>9
    <3> QED
      BY <3>1, <3>4, <3>5, <3>6 DEF WalkInv
  <2> QED
    BY <1>1, <1>5, <2>2, <2>3, ReaderWalks
<1>11. CASE Visible(table[a])
  <2>1. /\ records' \in Seq(SocketRecords) /\ Len(records') = Len(records) + 1
        /\ \A i \in DOMAIN records : i \in DOMAIN records' /\ records'[i] = records[i]
        /\ \A i \in DOMAIN records' : \/ i \in DOMAIN records
                                      \/ i = Len(records) + 1 /\ records'[i] = r
        /\ Collected' = Collected \cup {<<a, table[a].birth>>}
    BY <1>1, <1>2, <1>6, <1>11, Appended
  <2>2. TypesInv'
    BY <1>1, <1>2, <1>4, <2>1 DEF ReaderInv, TypesInv, envVars
  <2>3. UnjoinedInv'
    BY <1>1, <1>6, <1>7, <2>1 DEF UnjoinedInv
  <2>4. WalkInv'
    <3>1. \A i \in DOMAIN records' : records'[i].addr < call'.next
      <4> SUFFICES ASSUME NEW i \in DOMAIN records' PROVE records'[i].addr < a + 1
        BY <1>4
      <4>1. CASE i \in DOMAIN records
        BY <1>3, <1>7, <1>8, <2>1, <4>1
      <4>2. CASE records'[i] = r
        BY <1>3, <1>6, <4>2
      <4> QED
        BY <2>1, <4>1, <4>2
    <3>2. InOrder'
      <4> SUFFICES ASSUME NEW i \in DOMAIN records', NEW j \in DOMAIN records', i < j
                   PROVE  records'[i].addr < records'[j].addr
        BY DEF InOrder
      <4>1. CASE j \in DOMAIN records
        <5>1. i \in DOMAIN records
          BY <1>2, <2>1, <4>1
        <5> QED
          BY <1>7, <2>1, <4>1, <5>1 DEF InOrder
      <4>2. CASE j = Len(records) + 1 /\ records'[j] = r
        <5>1. i \in DOMAIN records
          BY <1>2, <2>1, <4>2
        <5> QED
          BY <1>6, <1>7, <2>1, <4>2, <5>1
      <4> QED
        BY <2>1, <4>1, <4>2
    <3>3. \A b \in Present(table) :
            b < a + 1 /\ table[b].birth = before[b].birth /\ Visible(table[b]) =>
              <<b, table[b].birth>> \in Collected'
      <4> SUFFICES ASSUME NEW b \in Present(table), b < a + 1, Visible(table[b]),
                          table[b].birth = before[b].birth, b # a
                   PROVE  <<b, table[b].birth>> \in Collected
        BY <2>1
      <4>1. b < a
        BY <1>3 DEF Present, Addrs
      <4> QED
        BY <1>7, <4>1 DEF Reported
    <3>4. Len(records') <= call'.room /\ run'.pc = "read"
      BY <1>1, <1>2, <1>4, <2>1
    <3>5. Reported(call.next)'
      BY <1>1, <1>4, <1>9, <3>3 DEF Reported, envVars
    <3>6. call'.room >= Cardinality(Present(before))' + Headroom
      BY <1>4, <1>7, <1>9
    <3> QED
      BY <3>1, <3>2, <3>4, <3>5, <3>6 DEF WalkInv
  <2> QED
    BY <1>1, <1>5, <2>2, <2>3, <2>4, ReaderWalks
<1> QED
  BY <1>10, <1>11

LEMMA ReaderReturns ==
  ASSUME ReaderInv, ReadReturns
  PROVE  ReaderInv'
<1>1. /\ run.pc = "read" /\ UNCHANGED <<envVars, platform, config, call, records, before>>
      /\ \/ /\ call.next \notin Addrs \/ Len(records) = call.room
            /\ run' = [run EXCEPT !.pc = "pids"]
         \/ run' = [run EXCEPT !.pc = "failed"]
  BY DEF ReadReturns, Go, Fail
<1>2. platform = "freebsd"
  BY <1>1 DEF ReaderInv, PlatformInv
<1>3. CASE run' = [run EXCEPT !.pc = "failed"]
  <2>1. run' \in Programs /\ run'.pc = "failed"
    BY <1>3, RunTyped
  <2>2. TypesInv'
    BY <1>1, <2>1 DEF ReaderInv, TypesInv, envVars
  <2> QED
    BY <1>1, <2>1, <2>2, ReaderAway
<1>4. CASE /\ call.next \notin Addrs \/ Len(records) = call.room
           /\ run' = [run EXCEPT !.pc = "pids"]
  <2>1. run' \in Programs /\ run'.pc = "pids"
    BY <1>4, RunTyped
  <2>2. TypesInv'
    BY <1>1, <2>1 DEF ReaderInv, TypesInv, envVars
  <2>3. \A i \in DOMAIN records : records[i].pid = NoPid
    BY <1>1 DEF ReaderInv, UnjoinedInv
  <2>4. UnjoinedInv'
    BY <1>1, <2>1, <2>3 DEF UnjoinedInv
  <2>5. /\ InOrder /\ Reported(call.next) /\ \A i \in DOMAIN records : records[i].addr < call.next
        /\ Len(records) <= call.room
        /\ call.room >= Cardinality(Present(before)) + Headroom
    BY <1>1 DEF ReaderInv, WalkInv
  <2>6. InOrder' /\ \A i \in DOMAIN records' : records'[i].addr < call'.next
    BY <1>1, <2>5 DEF InOrder
  <2>7. Reported(call.next)'
    BY <1>1, <2>5 DEF Reported, Collected, Visible, Present, envVars
  <2>8. Present(before)' = Present(before)
    BY <1>1 DEF Present
  <2>9. WalkInv'
    BY <1>1, <1>4, <2>5, <2>6, <2>7, <2>8 DEF WalkInv
  <2> QED
    BY <1>1, <1>2, <2>1, <2>2, <2>4, <2>9, ReaderWalks
<1> QED
  BY <1>1, <1>3, <1>4

\* A list whose records are given the processes that kern.file names.
LEMMA ReaderEnrich ==
  ASSUME ReaderInv, Enrich
  PROVE  ReaderInv'
<1> DEFINE Joined(first, i) ==
      IF records[i].addr \in Present(table)
      THEN [records[i] EXCEPT !.pid = first[records[i].addr]] ELSE records[i]
<1>1. /\ run.pc = "pids" /\ UNCHANGED <<envVars, platform, config, call, before>>
      /\ run' = [run EXCEPT !.pc = "emit"]
      /\ \/ \E first \in [Addrs -> Pids] :
                records' = [i \in DOMAIN records |-> Joined(first, i)]
         \/ UNCHANGED records
  BY DEF Enrich, Go
<1>2. records \in Seq(SocketRecords) /\ run' \in Programs /\ run'.pc = "emit"
  BY <1>1, RunTyped
<1>3. records' \in Seq(SocketRecords)
  <2>1. CASE UNCHANGED records
    BY <1>2, <2>1
  <2>2. ASSUME NEW first \in [Addrs -> Pids],
               records' = [i \in DOMAIN records |-> Joined(first, i)]
        PROVE  records' \in Seq(SocketRecords)
    <3>1. \A s \in SocketRecords :
            s.addr \in Addrs /\ [s EXCEPT !.pid = first[s.addr]] \in SocketRecords
      BY DEF SocketRecords
    <3>2. DOMAIN records = 1 .. Len(records) /\ Len(records) \in Nat
          /\ \A i \in DOMAIN records : records[i] \in SocketRecords
      BY <1>2
    <3>3. \A i \in DOMAIN records : Joined(first, i) \in SocketRecords
      BY <3>1, <3>2
    <3> HIDE DEF Joined
    <3>4. records' \in [1 .. Len(records) -> SocketRecords]
      BY <2>2, <3>2, <3>3
    <3> QED
      BY <3>2, <3>4
  <2> QED
    BY <1>1, <2>1, <2>2
<1>4. TypesInv'
  BY <1>1, <1>2, <1>3 DEF ReaderInv, TypesInv, envVars
<1>5. platform = "freebsd"
  BY <1>1 DEF ReaderInv, PlatformInv
<1>6. UnjoinedInv' /\ WalkInv'
  BY <1>2 DEF UnjoinedInv, WalkInv
<1> QED
  BY <1>1, <1>2, <1>4, <1>5, <1>6, ReaderWalks

LEMMA ReaderStutters ==
  ASSUME ReaderInv, UNCHANGED readerVars
  PROVE  ReaderInv'
<1>1. UNCHANGED <<table, gen, platform, config, run, call, records, before>>
  BY DEF readerVars, envVars
<1>2. TypesInv' /\ PlatformInv' /\ BirthInv' /\ UnjoinedInv'
  BY <1>1 DEF ReaderInv, TypesInv, PlatformInv, BirthInv, UnjoinedInv
<1>3. /\ Collected' = Collected /\ Existed' = Existed /\ Present(before)' = Present(before)
      /\ Present(table)' = Present(table)
  BY <1>1 DEF Collected, Existed, Present
<1>4. CopiedBefore(call.next)' = CopiedBefore(call.next)
  BY <1>1, <1>3 DEF CopiedBefore
<1>5. CopyInv'
  BY <1>1, <1>3, <1>4 DEF ReaderInv, CopyInv
<1>6. InOrder => InOrder'
  BY <1>1 DEF InOrder
<1>7. Reported(call.next) => Reported(call.next)'
  BY <1>1, <1>3 DEF Reported, Visible
<1>8. WalkInv'
  BY <1>1, <1>3, <1>6, <1>7 DEF ReaderInv, WalkInv
<1> QED
  BY <1>2, <1>5, <1>8 DEF ReaderInv

LEMMA ReaderInvariant == ReaderSpec => []ReaderInv
<1>1. Init => ReaderInv
  BY ReaderInit
<1>2. ReaderInv /\ [Next]_readerVars => ReaderInv'
  <2> SUFFICES ASSUME ReaderInv, [Next]_readerVars PROVE ReaderInv'
    OBVIOUS
  <2>1. CASE Start \/ Emit \/ Wake
    BY <2>1, ReaderLoop
  <2>2. CASE AskSize
    BY <2>2, ReaderSize
  <2>3. CASE CopyHeader
    BY <2>3, ReaderHeader
  <2>4. CASE CopySocket
    BY <2>4, ReaderSocket
  <2>5. CASE CopyTrailer
    BY <2>5, ReaderTrailer
  <2>6. CASE Validate
    BY <2>6, ReaderValidate
  <2>7. CASE OpenDevice
    BY <2>7, ReaderDevice
  <2>8. CASE ReadSocket
    BY <2>8, ReaderVisit
  <2>9. CASE ReadReturns
    BY <2>9, ReaderReturns
  <2>10. CASE Enrich
    BY <2>10, ReaderEnrich
  <2>11. ASSUME NEW a \in Addrs, OpenSocket(a) \/ CloseSocket(a) PROVE ReaderInv'
    BY <2>11, ReaderTable
  <2>12. CASE UNCHANGED readerVars
    BY <2>12, ReaderStutters
  <2> QED
    BY <2>1, <2>2, <2>3, <2>4, <2>5, <2>6, <2>7, <2>8, <2>9, <2>10, <2>11, <2>12
       DEF Next, Program
<1> QED
  BY <1>1, <1>2, PTL DEF ReaderSpec

---------------------------------------------------------------------------
(* What a collection holds.                                                *)

\* Every variable keeps its type.
THEOREM ReaderTypeCorrect == ReaderSpec => []ReaderTypeOK
<1>1. ReaderInv => ReaderTypeOK
  <2> SUFFICES ASSUME ReaderInv PROVE ReaderTypeOK
    OBVIOUS
  <2>1. \A i \in DOMAIN records :
          records[i] \in [addr : Addrs, birth : Births, pid : Pids \cup {NoPid}]
    <3>1. records \in Seq(SocketRecords)
      BY DEF ReaderInv, TypesInv
    <3>2. \A i \in DOMAIN records : records[i] \in SocketRecords
      BY <3>1
    <3> QED
      BY <3>2 DEF SocketRecords
  <2>2. /\ call.next \in 1 .. NAddrs + 1 /\ call.full \in BOOLEAN
        /\ {call.header, call.trailer} \subseteq Births /\ call.room \in Nat
    BY DEF ReaderInv, TypesInv, Calls
  <2> QED
    BY <2>1, <2>2 DEF ReaderInv, TypesInv, ReaderTypeOK, Programs
<1> QED
  BY <1>1, ReaderInvariant, PTL

\* On macOS the list that read_pcblist_validated accepts is the table of one
\* instant, although the kernel copies it socket by socket while sockets open
\* and close.
THEOREM AcceptedListIsASnapshot == ReaderSpec => []ListIsASnapshot
<1>1. ReaderInv => ListIsASnapshot
  BY DEF ReaderInv, CopyInv, ListIsASnapshot
<1> QED
  BY <1>1, ReaderInvariant, PTL

\* On FreeBSD a socket that is there from the version call to the end of the
\* walk is among the records, unless the device hides it or the buffer ran full.
THEOREM LastingSocketsAreThere == ReaderSpec => []LastingSocketsReported
<1>1. ReaderInv => LastingSocketsReported
  <2> SUFFICES ASSUME ReaderInv, run.pc = "pids", call.next \notin Addrs,
                      NEW a \in Present(table), table[a].birth = before[a].birth,
                      Visible(table[a])
               PROVE  <<a, table[a].birth>> \in Collected
    BY DEF LastingSocketsReported
  <2>1. Reported(call.next)
    BY DEF ReaderInv, WalkInv
  <2>2. call.next \in 1 .. NAddrs + 1 /\ NAddrs \in Nat
    BY ReaderAssumption DEF ReaderInv, TypesInv, Calls
  <2>3. a < call.next
    BY <2>2 DEF Addrs, Present
  <2> QED
    BY <2>1, <2>3 DEF Reported
<1> QED
  BY <1>1, ReaderInvariant, PTL

\* A list in the order of the addresses has as many sockets as records.
LEMMA CollectedSize ==
  ASSUME records \in Seq(SocketRecords), InOrder
  PROVE  /\ \A i, j \in DOMAIN records : i # j => records[i].addr # records[j].addr
         /\ IsFiniteSet(Collected) /\ Cardinality(Collected) = Len(records)
<1>1. /\ Len(records) \in Nat /\ DOMAIN records = 1 .. Len(records)
      /\ \A i \in DOMAIN records : records[i] \in SocketRecords
  OBVIOUS
<1>2. \A i \in DOMAIN records : records[i].addr \in Nat
  BY <1>1 DEF SocketRecords, Addrs
<1>3. ASSUME NEW i \in DOMAIN records, NEW j \in DOMAIN records, i # j
      PROVE  records[i].addr # records[j].addr
  <2>1. CASE i < j
    BY <1>2, <2>1 DEF InOrder
  <2>2. CASE j < i
    BY <1>2, <2>2 DEF InOrder
  <2> QED
    BY <1>1, <1>3, <2>1, <2>2
<1> DEFINE f == [i \in 1 .. Len(records) |-> <<records[i].addr, records[i].birth>>]
<1>4. f \in Injection(1 .. Len(records), Collected)
  <2>1. f \in [1 .. Len(records) -> Collected]
    BY <1>1 DEF Collected
  <2>2. IsInjective(f)
    BY <1>1, <1>3 DEF IsInjective
  <2> QED
    BY <2>1, <2>2 DEF Injection
<1>5. f \in Surjection(1 .. Len(records), Collected)
  BY <1>1 DEF Surjection, Collected
<1>6. IsFiniteSet(1 .. Len(records)) /\ Cardinality(1 .. Len(records)) = Len(records)
  BY <1>1, FS_Interval
<1>7. IsFiniteSet(Collected) /\ Cardinality(Collected) = Cardinality(1 .. Len(records))
  <2>1. ExistsBijection(1 .. Len(records), Collected)
    BY <1>4, <1>5 DEF ExistsBijection, Bijection
  <2> QED
    BY <1>6, <2>1, FS_Bijection
<1> QED
  BY <1>3, <1>6, <1>7

\* The table the walk began with has as many sockets as addresses with one.
LEMMA ExistedSize ==
  IsFiniteSet(Existed) /\ Cardinality(Existed) <= Cardinality(Present(before))
<1> DEFINE g == [a \in Present(before) |-> <<a, before[a].birth>>]
<1>1. g \in Surjection(Present(before), Existed)
  BY DEF Surjection, Existed
<1> QED
  BY <1>1, PresentFinite, FS_Surjection

\* On FreeBSD no socket is reported twice, and the buffer runs full only after
\* as many new sockets as there was headroom have been reported.
THEOREM TruncationIsGrowth == ReaderSpec => []TruncatedOnlyByGrowth
<1>1. ReaderInv => TruncatedOnlyByGrowth
  <2> SUFFICES ASSUME ReaderInv, run.pc = "pids"
               PROVE  /\ \A i, j \in DOMAIN records : i # j => records[i].addr # records[j].addr
                      /\ call.next \in Addrs => Cardinality(Collected \ Existed) >= Headroom
    BY DEF TruncatedOnlyByGrowth
  <2>1. /\ InOrder
        /\ call.next \notin Addrs \/ Len(records) = call.room
        /\ call.room >= Cardinality(Present(before)) + Headroom
        /\ records \in Seq(SocketRecords) /\ call.room \in Nat
    BY DEF ReaderInv, WalkInv, TypesInv, Calls
  <2>2. /\ \A i, j \in DOMAIN records : i # j => records[i].addr # records[j].addr
        /\ IsFiniteSet(Collected) /\ Cardinality(Collected) = Len(records)
    BY <2>1, CollectedSize
  <2>3. ASSUME call.next \in Addrs PROVE Cardinality(Collected \ Existed) >= Headroom
    <3>1. Cardinality(Collected) >= Cardinality(Present(before)) + Headroom
      BY <2>1, <2>2, <2>3
    <3>2. /\ Cardinality(Collected \ Existed)
               = Cardinality(Collected) - Cardinality(Collected \cap Existed)
          /\ Cardinality(Collected \cap Existed) <= Cardinality(Existed)
      BY <2>2, ExistedSize, FS_Difference, FS_Intersection
    <3>3. /\ Cardinality(Collected) \in Nat /\ Cardinality(Existed) \in Nat
          /\ Cardinality(Collected \cap Existed) \in Nat
          /\ Cardinality(Present(before)) \in Nat /\ Headroom \in Nat
          /\ Cardinality(Existed) <= Cardinality(Present(before))
      BY <2>2, ExistedSize, PresentFinite, FS_Intersection, FS_CardinalityType, ReaderAssumption
    <3> QED
      BY <3>1, <3>2, <3>3
  <2> QED
    BY <2>2, <2>3
<1> QED
  BY <1>1, ReaderInvariant, PTL

\* Joining the records with kern.file (enrich_with_pid_mapping) gives a record
\* no process that does not hold the socket now at its address.
THEOREM JoinNamesAHolder == ReaderSpec => JoinIsRight
<1> DEFINE Right == \A i \in DOMAIN records' :
      LET r == records'[i] IN
      r.pid # NoPid => /\ r.addr \in Present(table)
                       /\ <<r.addr, r.birth>> \in Exists => r.pid \in table[r.addr].pids
<1>1. ReaderInv /\ Enrich => Right
  <2> SUFFICES ASSUME ReaderInv, Enrich, NEW i \in DOMAIN records', records'[i].pid # NoPid
               PROVE  /\ records'[i].addr \in Present(table)
                      /\ records'[i].pid \in table[records'[i].addr].pids
    OBVIOUS
  <2>1. /\ \A j \in DOMAIN records : records[j].pid = NoPid
        /\ records \in Seq(SocketRecords)
    BY DEF Enrich, ReaderInv, UnjoinedInv, TypesInv
  <2>2. PICK first \in [Addrs -> Pids] :
          /\ \A a \in Present(table) : first[a] \in table[a].pids
          /\ records' = [j \in DOMAIN records |->
                LET r == records[j] IN
                IF r.addr \in Present(table) THEN [r EXCEPT !.pid = first[r.addr]] ELSE r]
    BY <2>1 DEF Enrich
  <2>3. i \in DOMAIN records /\ records[i] \in SocketRecords
    BY <2>1, <2>2
  <2>4. CASE records[i].addr \in Present(table)
    <3>1. records'[i] = [records[i] EXCEPT !.pid = first[records[i].addr]]
      BY <2>2, <2>3, <2>4
    <3>2. records'[i].addr = records[i].addr /\ records'[i].pid = first[records[i].addr]
      BY <2>3, <3>1 DEF SocketRecords
    <3> QED
      BY <2>2, <2>4, <3>2
  <2>5. CASE records[i].addr \notin Present(table)
    BY <2>1, <2>2, <2>3, <2>5
  <2> QED
    BY <2>4, <2>5
<1>2. ReaderInv /\ [Next]_readerVars => [run.pc = "pids" /\ run'.pc = "emit" => Right]_readerVars
  <2> SUFFICES ASSUME ReaderInv, Next, run.pc = "pids", run'.pc = "emit"
               PROVE  Enrich
    BY <1>1
  <2>1. ~ (Start \/ Emit \/ Wake \/ AskSize \/ CopyHeader \/ CopySocket \/ CopyTrailer)
    BY DEF Start, Emit, Wake, AskSize, CopyHeader, CopySocket, CopyTrailer
  <2>2. ~ (Validate \/ OpenDevice \/ ReadSocket \/ ReadReturns)
    BY DEF Validate, OpenDevice, ReadSocket, ReadReturns
  <2>3. ASSUME NEW a \in Addrs PROVE ~ (OpenSocket(a) \/ CloseSocket(a))
    BY DEF OpenSocket, CloseSocket
  <2> QED
    BY <2>1, <2>2, <2>3 DEF Next, Program
<1>3. ReaderInv /\ [Next]_readerVars => [run.pc = "pids" /\ run'.pc = "emit" =>
        \A i \in DOMAIN records' :
          LET r == records'[i] IN
          r.pid # NoPid => /\ r.addr \in Present(table)
                           /\ <<r.addr, r.birth>> \in Exists => r.pid \in table[r.addr].pids
      ]_readerVars
  BY <1>2
<1> QED
  BY <1>3, ReaderInvariant, PTL DEF ReaderSpec, JoinIsRight
=============================================================================
