------------------------------- MODULE Reader -------------------------------
(***************************************************************************)
(* tcpstats-reader: the loop of src/main.rs and one collection on either   *)
(* platform, while sockets come and go.                                    *)
(*                                                                         *)
(* macOS (platform/macos.rs, sysctl.rs): the size of the pcblist is asked  *)
(* for, a quarter added, the list read; the kernel (external) copies a     *)
(* header, the sockets one after the other and a trailer, and a list whose *)
(* header and trailer differ in generation is read again, up to MAX_RETRIES*)
(* times.                                                                  *)
(*                                                                         *)
(* FreeBSD (platform/freebsd.rs): the device is opened, its version and a  *)
(* hint of the number of sockets asked for, and one read walks the table   *)
(* (the walk is TcpstatsDev's; here it visits the sockets in order, each   *)
(* as it is then); kern.file, read afterwards, tells which process holds   *)
(* the socket at a kernel address.                                         *)
(***************************************************************************)
EXTENDS Naturals, Sequences, FiniteSets

CONSTANTS
  NAddrs,        \* kernel addresses of sockets: 1 .. NAddrs, in walk order
  Pids,          \* processes
  NoPid,         \* a record whose process is not known
  HeaderSize,    \* bytes of the header and of the trailer
  EntrySize,     \* bytes of one socket in the pcblist
  MaxRetries,    \* MAX_RETRIES
  Headroom,      \* records the device buffer has room for beyond hint + hint/5
  MinRecords,    \* records the smallest device buffer holds
  Counts,        \* values of --count; zero is for ever
  MaxEvents,     \* bound: sockets opened and closed
  MaxBatches     \* bound: collections of a program that runs for ever

Addrs == 1 .. NAddrs

ASSUME ReaderAssumption ==
  /\ NAddrs \in Nat /\ NoPid \notin Pids /\ Pids # {}
  /\ HeaderSize \in Nat \ {0} /\ EntrySize \in Nat \ {0}
  /\ MaxRetries \in Nat /\ Headroom \in Nat /\ MinRecords \in Nat
  /\ Counts \subseteq Nat /\ MaxEvents \in Nat \ {0} /\ MaxBatches \in Nat

VARIABLES
  table,     \* table[a]: the socket at address a: its birth number (0: none),
             \* whether it listens, the processes that hold it
  gen,       \* generation of the table: sockets opened and closed so far
  platform,  \* "macos" or "freebsd"
  config,    \* --count
  run,       \* the program: where it is, sequence, attempt
  call,      \* the sysctl or read under way: room, header and trailer
             \* generation, the next address to visit
  records,   \* what has been copied or collected: address, birth, process
  before     \* history: the table when the copying began

envVars == <<table, gen>>
readerVars == <<envVars, platform, config, run, call, records, before>>

Births  == 0 .. MaxEvents
Sockets == [birth : Births, listen : BOOLEAN, pids : SUBSET Pids]
NoSocket == [birth |-> 0, listen |-> FALSE, pids |-> {}]
NoCall  == [room |-> 0, header |-> 0, trailer |-> 0, next |-> 1, full |-> FALSE]
Present(t) == {a \in Addrs : t[a].birth # 0}
Ended == run.pc \in {"done", "failed"}
Record(a, birth, pid) == [addr |-> a, birth |-> birth, pid |-> pid]

ReaderTypeOK ==
  /\ table \in [Addrs -> Sockets] /\ before \in [Addrs -> Sockets]
  /\ gen \in Births
  /\ platform \in {"macos", "freebsd"}
  /\ config \in Counts
  /\ run \in [pc : {"start", "size", "header", "copy", "validate", "version", "read",
                    "pids", "emit", "sleep", "done", "failed"},
              sequence : 0 .. MaxBatches, attempt : 0 .. MaxRetries]
  /\ call.next \in 1 .. NAddrs + 1 /\ call.full \in BOOLEAN
  /\ {call.header, call.trailer} \subseteq Births /\ call.room \in Nat
  /\ \A i \in DOMAIN records :
       records[i] \in [addr : Addrs, birth : Births, pid : Pids \cup {NoPid}]

Init ==
  /\ table \in [Addrs -> {NoSocket, [birth |-> 1, listen |-> FALSE, pids |-> Pids]}]
  /\ gen = 1
  /\ platform \in {"macos", "freebsd"}
  /\ config \in Counts
  /\ run = [pc |-> "start", sequence |-> 0, attempt |-> 0]
  /\ call = NoCall
  /\ records = <<>>
  /\ before = table

---------------------------------------------------------------------------
(* The kernel: sockets open and close at any time. *)

OpenSocket(a) ==
  /\ gen < MaxEvents /\ ~Ended
  /\ table[a].birth = 0
  /\ \E pid \in Pids, listen \in BOOLEAN :
       table' = [table EXCEPT ![a] =
                   [birth |-> gen + 1, listen |-> listen, pids |-> {pid}]]
  /\ gen' = gen + 1
  /\ UNCHANGED <<platform, config, run, call, records, before>>

CloseSocket(a) ==
  /\ gen < MaxEvents /\ ~Ended
  /\ table[a].birth # 0
  /\ table' = [table EXCEPT ![a] = NoSocket]
  /\ gen' = gen + 1
  /\ UNCHANGED <<platform, config, run, call, records, before>>

---------------------------------------------------------------------------
(* The loop of main. *)

Fail == run' = [run EXCEPT !.pc = "failed"]
Go(pc) == run' = [run EXCEPT !.pc = pc]

\* Mutant: the sequence is not counted.
StartUncounted ==
  /\ run.pc = "start" /\ run.sequence < MaxBatches
  /\ run' = [run EXCEPT !.pc = IF platform = "macos" THEN "size" ELSE "version", !.attempt = 0]
  /\ records' = <<>>
  /\ UNCHANGED <<envVars, platform, config, call, before>>

Start ==
  /\ run.pc = "start" /\ run.sequence < MaxBatches
  /\ run' = [pc |-> IF platform = "macos" THEN "size" ELSE "version",
             sequence |-> run.sequence + 1, attempt |-> 0]
  /\ records' = <<>>
  /\ UNCHANGED <<envVars, platform, config, call, before>>

\* The batch is built, written and flushed; the program ends when the count
\* is reached.  A write that fails ends it, with the batch lost or not.
Emit ==
  /\ run.pc = "emit"
  /\ \/ Go(IF config > 0 /\ run.sequence >= config THEN "done" ELSE "sleep")
     \/ Fail
  /\ UNCHANGED <<envVars, platform, config, call, records, before>>

Wake ==
  /\ run.pc = "sleep"
  /\ Go("start")
  /\ UNCHANGED <<envVars, platform, config, call, records, before>>

---------------------------------------------------------------------------
(* macOS: read_pcblist_validated and read_sysctl. *)

ListSize(n) == 2 * HeaderSize + n * EntrySize

\* The first sysctl call; any call may fail.
AskSize ==
  /\ run.pc = "size"
  /\ LET size == ListSize(Cardinality(Present(table))) IN
       call' = [NoCall EXCEPT !.room = size + size \div 4]
  /\ Go("header") \/ Fail
  /\ UNCHANGED <<envVars, platform, config, records, before>>

\* The second one begins (external): the header goes out.
CopyHeader ==
  /\ run.pc = "header"
  /\ call' = [call EXCEPT !.header = gen]
  /\ records' = <<>>
  /\ before' = table
  /\ Go("copy")
  /\ UNCHANGED <<envVars, platform, config>>

\* The socket at the next address goes out (external), if it still fits: a
\* list that does not is ENOMEM, which is not retried.
CopySocket ==
  LET a == call.next IN
  /\ run.pc = "copy" /\ a \in Addrs
  /\ call' = [call EXCEPT !.next = a + 1]
  /\ IF a \notin Present(table)
     THEN UNCHANGED <<run, records>>
     ELSE IF ListSize(Len(records) + 1) > call.room
     THEN Fail /\ UNCHANGED records
     ELSE /\ records' = Append(records, Record(a, table[a].birth, NoPid))
          /\ UNCHANGED run
  /\ UNCHANGED <<envVars, platform, config, before>>

CopyTrailer ==
  /\ run.pc = "copy" /\ call.next \notin Addrs
  /\ call' = [call EXCEPT !.trailer = gen]
  /\ Go("validate")
  /\ UNCHANGED <<envVars, platform, config, records, before>>

\* Mutant: the list is taken as it is.
ValidateNothing ==
  /\ run.pc = "validate"
  /\ Go("emit")
  /\ UNCHANGED <<envVars, platform, config, call, records, before>>

\* Equal generations are accepted; others are read again, size and all, until
\* the attempts are used up.
Validate ==
  /\ run.pc = "validate"
  /\ IF call.header = call.trailer
     THEN Go("emit")
     ELSE IF run.attempt = MaxRetries
     THEN Fail
     ELSE run' = [run EXCEPT !.pc = "size", !.attempt = @ + 1]
  /\ UNCHANGED <<envVars, platform, config, call, records, before>>

---------------------------------------------------------------------------
(* FreeBSD: collect_from_kld and enrich_with_pid_mapping. *)

Larger(a, b) == IF a > b THEN a ELSE b

\* Mutant: the buffer is as large as the hint.
OpenDeviceTight ==
  /\ run.pc = "version"
  /\ \E full \in BOOLEAN :
       call' = [NoCall EXCEPT !.full = full,
                  !.room = Larger(Cardinality(Present(table)), MinRecords)]
  /\ Go("read")
  /\ before' = table
  /\ UNCHANGED <<envVars, platform, config, records>>

\* The full device if it opens, else the plain one; then the version and the
\* hint, from which the buffer is sized.
OpenDevice ==
  /\ run.pc = "version"
  /\ \E full \in BOOLEAN :
       LET hint == Cardinality(Present(table)) IN
       call' = [NoCall EXCEPT !.full = full,
                  !.room = Larger(hint + hint \div 5 + Headroom, MinRecords)]
  /\ Go("read") \/ Fail
  /\ before' = table
  /\ UNCHANGED <<envVars, platform, config, records>>

\* The device visits the next socket; the plain one leaves listeners out.
Visible(s) == s.birth # 0 /\ (call.full \/ ~s.listen)

\* Mutant: each record is written over the one before.
ReadSocketInPlace ==
  LET a == call.next IN
  /\ run.pc = "read" /\ a \in Addrs /\ Len(records) < call.room
  /\ call' = [call EXCEPT !.next = a + 1]
  /\ records' = IF Visible(table[a]) THEN <<Record(a, table[a].birth, NoPid)>> ELSE records
  /\ UNCHANGED <<envVars, platform, config, run, before>>

ReadSocket ==
  LET a == call.next IN
  /\ run.pc = "read" /\ a \in Addrs /\ Len(records) < call.room
  /\ call' = [call EXCEPT !.next = a + 1]
  /\ records' = IF Visible(table[a])
                THEN Append(records, Record(a, table[a].birth, NoPid)) ELSE records
  /\ UNCHANGED <<envVars, platform, config, run, before>>

\* The walk ends, at the end of the table or of the buffer; or the read fails
\* (EBUSY, EINTR).  There is no second read.
ReadReturns ==
  /\ run.pc = "read"
  /\ \/ (call.next \notin Addrs \/ Len(records) = call.room) /\ Go("pids")
     \/ Fail
  /\ UNCHANGED <<envVars, platform, config, call, records, before>>

\* Mutant: the lists are joined by place and not by address.
EnrichByPlace ==
  /\ run.pc = "pids"
  /\ \E first \in [Addrs -> Pids] :
       /\ \A a \in Present(table) : first[a] \in table[a].pids
       /\ records' = [i \in DOMAIN records |->
             IF i \in Present(table) THEN [records[i] EXCEPT !.pid = first[i]] ELSE records[i]]
  /\ Go("emit")
  /\ UNCHANGED <<envVars, platform, config, call, before>>

\* kern.file: for each address with a socket, the first process of the list
\* that holds it.  When it cannot be read the records stay as they are.
Enrich ==
  /\ run.pc = "pids"
  /\ \/ \E first \in [Addrs -> Pids] :
          /\ \A a \in Present(table) : first[a] \in table[a].pids
          /\ records' = [i \in DOMAIN records |->
                LET r == records[i] IN
                IF r.addr \in Present(table) THEN [r EXCEPT !.pid = first[r.addr]] ELSE r]
     \/ UNCHANGED records
  /\ Go("emit")
  /\ UNCHANGED <<envVars, platform, config, call, before>>

Program ==
  \/ Start \/ Emit \/ Wake
  \/ AskSize \/ CopyHeader \/ CopySocket \/ CopyTrailer \/ Validate
  \/ OpenDevice \/ ReadSocket \/ ReadReturns \/ Enrich
Next == Program \/ \E a \in Addrs : OpenSocket(a) \/ CloseSocket(a)

ReaderSpec == Init /\ [][Next]_readerVars
\* The program runs; nothing has to fail and no socket has to open or close.
ReaderFairSpec == ReaderSpec /\ WF_readerVars(Program)

---------------------------------------------------------------------------
Collected == {<<records[i].addr, records[i].birth>> : i \in DOMAIN records}
Existed   == {<<a, before[a].birth>> : a \in Present(before)}
Exists    == {<<a, table[a].birth>> : a \in Present(table)}

\* On macOS a list that is accepted is the table of one instant, although it
\* is copied socket by socket while sockets open and close, and room for it
\* was made before (sysctl.rs:94-151).
ListIsASnapshot ==
  platform = "macos" /\ run.pc = "emit" => Collected = Existed

\* On FreeBSD the device's records are not of one instant.  But a socket that
\* is there from the version call to the end of the walk is reported, unless
\* the device hides it or the buffer ran full (freebsd.rs:71-81).
LastingSocketsReported ==
  platform = "freebsd" /\ run.pc = "pids" /\ call.next \notin Addrs =>
    \A a \in Present(table) :
      table[a].birth = before[a].birth /\ Visible(table[a]) =>
        <<a, table[a].birth>> \in Collected

\* The buffer runs full, and the rest of the table is left out without an
\* error, only after as many new sockets as there was headroom have been
\* reported, and none is reported twice (freebsd.rs:71-81).
TruncatedOnlyByGrowth ==
  platform = "freebsd" /\ run.pc = "pids" =>
    /\ \A i, j \in DOMAIN records : i # j => records[i].addr # records[j].addr
    /\ call.next \in Addrs => Cardinality(Collected \ Existed) >= Headroom

\* Joining the records with kern.file afterwards never gives a socket that is
\* still open a process that does not hold it: only the record of a socket
\* closed meanwhile can name the process of the address's next socket
\* (freebsd.rs:282-299).
JoinIsRight ==
  [][run.pc = "pids" /\ run'.pc = "emit" =>
       \A i \in DOMAIN records' :
         LET r == records'[i] IN
         r.pid # NoPid => /\ r.addr \in Present(table)
                          /\ <<r.addr, r.birth>> \in Exists => r.pid \in table[r.addr].pids
    ]_readerVars

\* A program with a count ends, also when the table never stays the same
\* during a copy: the attempts are bounded and nothing is read twice.
RunEnds == config > 0 => <>Ended
============================================================================
