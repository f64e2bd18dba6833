---------------------------- MODULE TcpstatsDev ----------------------------
(***************************************************************************)
(* The character device of the kernel module: open, read, ioctl, close and *)
(* their per-fd state, the two admission counters, and the walk of the TCP *)
(* inpcb table that a read makes while sockets come and go.                *)
(*                                                                         *)
(* Every shared access that another thread can observe is a step of its    *)
(* own: the check of sc_done, the fetch-and-add, the comparison, the       *)
(* throttle test, the store of sc_last_read, each socket visited, the      *)
(* store of sc_done, each counter flushed, and the final decrement.        *)
(* A socket's visit is one step: the loop holds the inpcb's read lock.     *)
(***************************************************************************)
EXTENDS TcpstatsMatch, FiniteSets

CONSTANTS
  Threads, Files,  \* threads in system calls; struct files (one softc each)
  Creds,           \* credentials of openers
  Filters,         \* the filters SET_FILTER installs
  Kinds,           \* what the filters tell apart of a socket
  NoThread, NoFile, NoPcb,
  BufSizes,        \* buffer sizes of read(), in whole records
  CheckInterval,   \* TSF_CHECK_INTERVAL
  TunableValues,   \* for each tunable, the values its sysctl is given
  Sharing,         \* may a thread use a file another thread opened?
  MaxGen,          \* bound on ipi_gencnt: sockets ever created or freed
  MaxOpens,        \* bound on opens_total
  MaxReads,        \* bound on reads_total
  MaxTime          \* bound on the clock

TunableNames == {"max_open_fds", "max_concurrent_readers",
                 "max_read_duration_ms", "min_read_interval_ms"}

ASSUME DevAssumption ==
  /\ IsFiniteSet(Threads) /\ IsFiniteSet(Files)
  /\ NoThread \notin Threads /\ NoFile \notin Files /\ NoPcb \notin Kinds
  /\ DefaultFilter \in Filters /\ Filters \subseteq FilterRecords
  /\ BufSizes \subseteq Nat
  /\ CheckInterval \in Nat \ {0}
  /\ TunableValues \in [TunableNames -> SUBSET Nat]
  /\ \A k \in TunableNames :
       \E m \in TunableValues[k] : \A n \in TunableValues[k] : n <= m
  /\ Sharing \in BOOLEAN
  /\ MaxGen \in Nat /\ MaxOpens \in Nat /\ MaxReads \in Nat /\ MaxTime \in Nat

VARIABLES
  tunable,         \* the four sysctl tunables
  clock,           \* getsbinuptime(); never 0
  pcb, gencnt,     \* pcb[g]: the live socket of generation g; V_tcbinfo.ipi_gencnt
  active_fds, opens_total,
  file,            \* file[f]: where the struct file is in its life
  sc,              \* sc[f]: struct tcpstats_softc
  active_readers, reads_total,
  stats,           \* tcpstats_stats
  pc, loc          \* pc[t], loc[t]: where thread t is, and its locals

envVars  == <<tunable, clock, pcb, gencnt>>
openVars == <<active_fds, opens_total, file>>
readVars == <<active_readers, reads_total, stats>>
vars     == <<envVars, openVars, sc, readVars, pc, loc>>

\* The fields of tcpstats_stats, in the order TSF_STAT_FLUSH writes them; a
\* skip counter is named after its reason.
StatOrder == <<"emitted", "visited", "gencnt", "cred", "ipver", "state", "port",
               "addr", "uiomove_errors", "timed_out", "interrupted">>
Reasons    == {"gencnt", "ipver", "state", "cred", "port", "addr"}
Aborts     == {"uiomove_errors", "timed_out", "interrupted"}
StatFields == {"emitted", "visited"} \cup Reasons \cup Aborts
ZeroStats  == [k \in StatFields |-> 0]

Generations == 1 .. MaxGen
Live == {g \in Generations : pcb[g] # NoPcb}

Settings == {s \in [TunableNames -> UNION {TunableValues[k] : k \in TunableNames}] :
               \A k \in TunableNames : s[k] \in TunableValues[k]}

\* A softc as malloc(M_ZERO) and the open function leave it; old is what the
\* opener's fetch-and-add returned.  The last two fields are history: who
\* opened the file, and the table walks since the last RESET.
NewSoftc(cred, t, old) ==
  [cred |-> cred, done |-> FALSE, filter |-> DefaultFilter, last_read |-> 0, old |-> old,
   opener |-> t, walks |-> 0]
NoSoftc == NewSoftc(Root, NoThread, 0)

\* The locals of a thread in a system call on fd: of tcpstats_read() with a
\* buffer of resid records, batch being the stats_batch less what is flushed;
\* of TCPSTATS_SET_FILTER, with the fields of filter it has still to store.
\* The last three are history: the generations emitted, in order; the sockets
\* in the table since the snapshot whose verdict nothing has disturbed; the
\* sockets examined after the deadline.
Locals(f, resid) ==
  [fd |-> f, old |-> 0, resid |-> resid, now |-> 0, deadline |-> 0,
   gencnt |-> 0, pos |-> 0, end |-> "none", batch |-> ZeroStats,
   filter |-> DefaultFilter, todo |-> {},
   out |-> <<>>, stable |-> {}, late |-> 0]
AtRest == Locals(NoFile, 0)

Init ==
  /\ tunable \in Settings
  /\ clock = 1
  /\ gencnt \in 0 .. MaxGen      \* the module is loaded into a running system
  /\ pcb \in [Generations -> Kinds \cup {NoPcb}]
  /\ \A g \in Generations : g > gencnt => pcb[g] = NoPcb
  /\ active_fds = 0 /\ opens_total = 0
  /\ file = [f \in Files |-> "free"]
  /\ sc = [f \in Files |-> NoSoftc]
  /\ active_readers = 0 /\ reads_total = 0
  /\ stats = ZeroStats
  /\ pc = [t \in Threads |-> "idle"]
  /\ loc = [t \in Threads |-> AtRest]

Goto(t, label) == pc' = [pc EXCEPT ![t] = label]

\* Thread t enters a system call with these locals, or leaves the one it is in.
Enter(t, label, locals) == Goto(t, label) /\ loc' = [loc EXCEPT ![t] = locals]
Return(t) == Enter(t, "idle", AtRest)

---------------------------------------------------------------------------
(* tcpstats_open() and tcpstats_profile_open(), which takes the same steps *)
(* with the profile's filter: here every file begins with the default one  *)
(* and SET_FILTER installs others.  The caller's struct file f exists      *)
(* before the driver is entered and its descriptor only after it returns:  *)
(* until then no other thread can name f.                                  *)

Opening == {f \in Files : file[f] \in {"claiming", "refused", "admitted"}}

OpenClaim(t, f, cred) ==
  /\ pc[t] = "idle" /\ file[f] = "free"
  /\ opens_total + Cardinality(Opening) < MaxOpens
  /\ active_fds' = active_fds + 1
  /\ file' = [file EXCEPT ![f] = "claiming"]
  /\ sc' = [sc EXCEPT ![f] = NewSoftc(cred, t, active_fds)]
  /\ Enter(t, "open", Locals(f, 0))
  /\ UNCHANGED <<envVars, opens_total, readVars>>

OpenDecide(t) ==
  LET f == loc[t].fd IN
  /\ pc[t] = "open" /\ file[f] = "claiming"
  /\ file' = [file EXCEPT ![f] =
                IF sc[f].old >= tunable["max_open_fds"] THEN "refused" ELSE "admitted"]
  /\ sc' = [sc EXCEPT ![f].old = 0]
  /\ UNCHANGED <<envVars, active_fds, opens_total, readVars, pc, loc>>

\* What EMFILE, a failing devfs_set_cdevpriv() and the destructor have in
\* common: there is no softc any more, and the counter is decremented.
ReleaseFile(f) ==
  /\ active_fds' = active_fds - 1
  /\ file' = [file EXCEPT ![f] = "free"]
  /\ sc' = [sc EXCEPT ![f] = NoSoftc]
  /\ UNCHANGED <<envVars, opens_total, readVars>>

\* Mutant: a failing open forgets its atomic_subtract_int.
OpenUndoLeaks(t) ==
  LET f == loc[t].fd IN
  /\ pc[t] = "open" /\ file[f] \in {"refused", "admitted"}
  /\ file' = [file EXCEPT ![f] = "free"]
  /\ sc' = [sc EXCEPT ![f] = NoSoftc]
  /\ Return(t)
  /\ UNCHANGED <<envVars, active_fds, opens_total, readVars>>

\* EMFILE, or devfs_set_cdevpriv() fails.
OpenUndo(t) ==
  /\ pc[t] = "open" /\ file[loc[t].fd] \in {"refused", "admitted"}
  /\ ReleaseFile(loc[t].fd)
  /\ Return(t)

OpenDone(t) ==
  /\ pc[t] = "open" /\ file[loc[t].fd] = "admitted"
  /\ file' = [file EXCEPT ![loc[t].fd] = "open"]
  /\ opens_total' = opens_total + 1
  /\ Return(t)
  /\ UNCHANGED <<envVars, active_fds, sc, readVars>>

\* The last descriptor of f goes away: close(2) or the end of the process.
Close(f) ==
  /\ file[f] = "open"
  /\ file' = [file EXCEPT ![f] = "closing"]
  /\ UNCHANGED <<envVars, active_fds, opens_total, sc, readVars, pc, loc>>

\* Mutant: the destructor waits for a read to have finished.
DtorAfterRead(f) ==
  /\ file[f] = "closing" /\ sc[f].done
  /\ \A t \in Threads : loc[t].fd # f
  /\ ReleaseFile(f)
  /\ UNCHANGED <<pc, loc>>

\* tcpstats_dtor(), which devfs runs when the last reference to the struct
\* file is dropped: a thread still in a call on f holds one.
Dtor(f) ==
  /\ file[f] = "closing"
  /\ \A t \in Threads : loc[t].fd # f
  /\ ReleaseFile(f)
  /\ UNCHANGED <<pc, loc>>

---------------------------------------------------------------------------
(* tcpstats_read(), up to the walk.                                        *)

\* The thread can name f.
MayUse(t, f) == file[f] = "open" /\ (Sharing \/ sc[f].opener = t)

ReadsInFlight == {t \in Threads : pc[t] \in
  {"read_checked", "read_claiming", "read_refused", "read_admitted", "read_throttled",
   "read_start"}}

sharedVars == <<envVars, openVars, sc, readVars>>

\* Entry, and the unlocked test of sc_done.
ReadCall(t, f, resid) ==
  /\ pc[t] = "idle" /\ MayUse(t, f)
  /\ reads_total + Cardinality(ReadsInFlight) < MaxReads
  /\ Enter(t, IF sc[f].done THEN "read_eof" ELSE "read_checked", Locals(f, resid))
  /\ UNCHANGED sharedVars

\* return (0): end of file.
ReadEof(t) ==
  /\ pc[t] = "read_eof"
  /\ Return(t)
  /\ UNCHANGED sharedVars

ReadClaim(t) ==
  /\ pc[t] = "read_checked"
  /\ active_readers' = active_readers + 1
  /\ loc' = [loc EXCEPT ![t].old = active_readers]
  /\ Goto(t, "read_claiming")
  /\ UNCHANGED <<envVars, openVars, sc, reads_total, stats>>

\* Mutant: a reader at the limit waits for a place.
ReadDecideWaits(t) ==
  /\ pc[t] = "read_claiming"
  /\ loc[t].old < tunable["max_concurrent_readers"]
  /\ Goto(t, "read_admitted")
  /\ loc' = [loc EXCEPT ![t].old = 0]
  /\ UNCHANGED sharedVars

ReadDecide(t) ==
  /\ pc[t] = "read_claiming"
  /\ Goto(t, IF loc[t].old >= tunable["max_concurrent_readers"]
             THEN "read_refused" ELSE "read_admitted")
  /\ loc' = [loc EXCEPT ![t].old = 0]
  /\ UNCHANGED sharedVars

\* Mutant: the interval is one tick short.
ReadThrottleShort(t) ==
  LET last     == sc[loc[t].fd].last_read
      interval == tunable["min_read_interval_ms"]
      early    == interval > 0 /\ last # 0 /\ clock - last < interval - 1
  IN  /\ pc[t] = "read_admitted"
      /\ loc' = [loc EXCEPT ![t].now = clock]
      /\ Goto(t, IF early THEN "read_throttled" ELSE "read_start")
      /\ UNCHANGED sharedVars

\* The per-fd throttle tests the time since sc_last_read; ReadStart stores it.
ReadThrottle(t) ==
  LET last     == sc[loc[t].fd].last_read
      interval == tunable["min_read_interval_ms"]
      early    == interval > 0 /\ last # 0 /\ clock - last < interval
  IN  /\ pc[t] = "read_admitted"
      /\ loc' = [loc EXCEPT ![t].now = clock]
      /\ Goto(t, IF early THEN "read_throttled" ELSE "read_start")
      /\ UNCHANGED sharedVars

\* sc_last_read, the deadline and reads_total.
ReadStart(t) ==
  LET f == loc[t].fd
      duration == tunable["max_read_duration_ms"]
  IN  /\ pc[t] = "read_start"
      /\ sc' = [sc EXCEPT ![f].last_read = loc[t].now, ![f].walks = @ + 1]
      /\ loc' = [loc EXCEPT
                   ![t].deadline = IF duration > 0 THEN loc[t].now + duration ELSE 0]
      /\ reads_total' = reads_total + 1
      /\ Goto(t, "read_snapshot")
      /\ UNCHANGED <<envVars, openVars, active_readers, stats>>

\* gencnt = V_tcbinfo.ipi_gencnt: the iterator has not yet taken the head of
\* the list, where new sockets are inserted.
ReadSnapshot(t) ==
  /\ pc[t] = "read_snapshot"
  /\ loc' = [loc EXCEPT ![t].gencnt = gencnt, ![t].pos = MaxGen + 1, ![t].stable = Live]
  /\ Goto(t, "reading")
  /\ UNCHANGED sharedVars

---------------------------------------------------------------------------
(* The walk.  inp_next() yields the live sockets from the newest to the    *)
(* oldest and keeps the one it yields read-locked, so one visit is one     *)
(* step.  A socket inserted after the iterator took the head of the list   *)
(* has a generation above the iterator's position and is never reached.    *)

Ahead(t)   == {g \in Live : g < loc[t].pos}
NextPcb(t) == Max(Ahead(t))

Late(t) == loc[t].deadline # 0 /\ clock > loc[t].deadline

\* Mutant: only the sockets emitted count towards the next checkpoint.
CheckpointEmitted(t) == (loc[t].batch["emitted"] + 1) % CheckInterval = 0

\* (nsockets & (TSF_CHECK_INTERVAL - 1)) == 0 for the socket being visited.
Checkpoint(t) == (loc[t].batch["visited"] + 1) % CheckInterval = 0

\* inp_next() yields a socket and the buffer has room for a record.
Visiting(t) == pc[t] = "reading" /\ Ahead(t) # {} /\ loc[t].resid > 0

\* The socket is examined: no checkpoint, or one that lets the walk go on.
Examining(t) == Visiting(t) /\ ~(Checkpoint(t) /\ Late(t))

VerdictOf(t, g) ==
  LET f == loc[t].fd IN Verdict(sc[f].filter, pcb[g], g, loc[t].gencnt, sc[f].cred)

\* sockets_visited and counter k.
Counted(t, k) == [loc[t].batch EXCEPT !["visited"] = @ + 1, ![k] = @ + 1]

Lateness(t) == loc[t].late + IF Late(t) THEN 1 ELSE 0

\* Mutant: a full buffer is taken for the end of the table.
LoopBreakAsEof(t) ==
  /\ pc[t] = "reading" /\ ~Visiting(t)
  /\ loc' = [loc EXCEPT ![t].end = "eof"]
  /\ Goto(t, "read_out")
  /\ UNCHANGED sharedVars

\* The iterator is exhausted; or uio_resid < sizeof(rec), which leaves the
\* socket uncounted.
LoopBreak(t) ==
  /\ pc[t] = "reading" /\ ~Visiting(t)
  /\ loc' = [loc EXCEPT ![t].end = IF Ahead(t) = {} THEN "eof" ELSE "full"]
  /\ Goto(t, "read_out")
  /\ UNCHANGED sharedVars

\* Mutant: a record is counted before uiomove() is known to succeed.
VisitAbortedEmits(t, why) ==
  /\ Visiting(t)
  /\ \/ why = "interrupted" /\ Checkpoint(t)
     \/ why = "timed_out" /\ Checkpoint(t) /\ Late(t)
     \/ why = "uiomove_errors" /\ Examining(t) /\ VerdictOf(t, NextPcb(t)) = "emit"
  /\ loc' = [loc EXCEPT ![t].batch = [Counted(t, why) EXCEPT !["emitted"] =
                                        IF why = "uiomove_errors" THEN @ + 1 ELSE @],
                        ![t].end = why]
  /\ Goto(t, "read_out")
  /\ UNCHANGED sharedVars

\* At a checkpoint, a pending signal (EINTR) or else the deadline ends the
\* loop; at a socket to be emitted, a failing uiomove() does (EFAULT).
VisitAborted(t, why) ==
  /\ Visiting(t)
  /\ \/ why = "interrupted" /\ Checkpoint(t)
     \/ why = "timed_out" /\ Checkpoint(t) /\ Late(t)
     \/ why = "uiomove_errors" /\ Examining(t) /\ VerdictOf(t, NextPcb(t)) = "emit"
  /\ loc' = [loc EXCEPT ![t].batch = Counted(t, why), ![t].end = why]
  /\ Goto(t, "read_out")
  /\ UNCHANGED sharedVars

VisitSkip(t) ==
  LET g == NextPcb(t) IN
  /\ Examining(t)
  /\ VerdictOf(t, g) # "emit"
  /\ loc' = [loc EXCEPT ![t].batch = Counted(t, VerdictOf(t, g)), ![t].pos = g,
                        ![t].late = Lateness(t)]
  /\ UNCHANGED <<sharedVars, pc>>

VisitEmit(t) ==
  LET g == NextPcb(t) IN
  /\ Examining(t)
  /\ VerdictOf(t, g) = "emit"
  /\ loc' = [loc EXCEPT ![t].batch = Counted(t, "emitted"), ![t].pos = g,
                        ![t].late = Lateness(t),
                        ![t].resid = @ - 1, ![t].out = Append(@, g)]
  /\ UNCHANGED <<sharedVars, pc>>

\* Mutant: only the end of the table sets sc_done.
ReadFinishAtEof(t) ==
  LET f == loc[t].fd
      eof == loc[t].end = "eof"
  IN  /\ pc[t] = "read_out"
      /\ sc' = [sc EXCEPT ![f].done = eof]
      /\ Enter(t, "flush", [Locals(f, 0) EXCEPT !.batch = loc[t].batch])
      /\ UNCHANGED <<envVars, openVars, readVars>>

\* out: sc_done = 1, whatever ended the loop.
ReadFinish(t) ==
  LET f == loc[t].fd IN
  /\ pc[t] = "read_out"
  /\ sc' = [sc EXCEPT ![f].done = TRUE]
  /\ Enter(t, "flush", [Locals(f, 0) EXCEPT !.batch = loc[t].batch])
  /\ UNCHANGED <<envVars, openVars, readVars>>

\* TSF_STAT_FLUSH: one atomic_add_64 for each field that is not zero.
Unflushed(t) == {i \in DOMAIN StatOrder : loc[t].batch[StatOrder[i]] # 0}

\* Mutant: the flush stores where it should add.
ReadFlushStores(t) ==
  LET k == StatOrder[Min(Unflushed(t))] IN
  /\ pc[t] = "flush" /\ Unflushed(t) # {}
  /\ stats' = [stats EXCEPT ![k] = loc[t].batch[k]]
  /\ loc' = [loc EXCEPT ![t].batch[k] = 0]
  /\ UNCHANGED <<envVars, openVars, sc, active_readers, reads_total, pc>>

ReadFlush(t) ==
  LET k == StatOrder[Min(Unflushed(t))] IN
  /\ pc[t] = "flush" /\ Unflushed(t) # {}
  /\ stats' = [stats EXCEPT ![k] = @ + loc[t].batch[k]]
  /\ loc' = [loc EXCEPT ![t].batch[k] = 0]
  /\ UNCHANGED <<envVars, openVars, sc, active_readers, reads_total, pc>>

\* Mutant: a refused reader returns without its atomic_subtract_int.
ReadLeaveLeaks(t) ==
  /\ \/ pc[t] \in {"read_refused", "read_throttled"}
     \/ pc[t] = "flush" /\ Unflushed(t) = {}
  /\ active_readers' = active_readers - IF pc[t] = "read_refused" THEN 0 ELSE 1
  /\ Return(t)
  /\ UNCHANGED <<envVars, openVars, sc, reads_total, stats>>

\* atomic_subtract_int(&tcpstats_active_readers, 1) and return: EBUSY because
\* of the reader limit or the throttle, or the end of a read.
ReadLeave(t) ==
  /\ \/ pc[t] \in {"read_refused", "read_throttled"}
     \/ pc[t] = "flush" /\ Unflushed(t) = {}
  /\ active_readers' = active_readers - 1
  /\ Return(t)
  /\ UNCHANGED <<envVars, openVars, sc, reads_total, stats>>

---------------------------------------------------------------------------
(* tcpstats_ioctl().                                                       *)

\* History: the verdicts of sockets S no longer stand for reads on F.
Disturbed(F, S) ==
  [t \in Threads |->
     IF loc[t].fd \in F THEN [loc[t] EXCEPT !.stable = @ \ S] ELSE loc[t]]

\* TCPSTATS_SET_FILTER copies the struct over sc_filter with no lock: a read
\* on the same file sees its fields change one at a time, in any order.
\* Fields that are the same in every filter are left out of the copy.
Differing == {k \in DOMAIN DefaultFilter : \E a, b \in Filters : a[k] # b[k]}

SetFilterCall(t, f, flt) ==
  /\ pc[t] = "idle" /\ MayUse(t, f)
  /\ Differing # {}
  /\ Enter(t, "set_filter", [Locals(f, 0) EXCEPT !.filter = flt, !.todo = Differing])
  /\ UNCHANGED sharedVars

SetFilterCopy(t, k) ==
  /\ pc[t] = "set_filter" /\ k \in loc[t].todo
  /\ sc' = [sc EXCEPT ![loc[t].fd].filter[k] = loc[t].filter[k]]
  /\ loc' = [Disturbed({loc[t].fd}, Generations) EXCEPT ![t].todo = @ \ {k}]
  /\ UNCHANGED <<envVars, openVars, readVars, pc>>

SetFilterReturn(t) ==
  /\ pc[t] = "set_filter" /\ loc[t].todo = {}
  /\ Return(t)
  /\ UNCHANGED sharedVars

\* TCPSTATS_RESET: sc_done = 0.
Reset(t, f) ==
  /\ pc[t] = "idle" /\ MayUse(t, f)
  /\ sc' = [sc EXCEPT ![f].done = FALSE, ![f].walks = 0]
  /\ UNCHANGED <<envVars, openVars, readVars, pc, loc>>

---------------------------------------------------------------------------
(* The network stack, the administrator and time.                          *)

\* in_pcballoc(): the new socket draws the next generation.
PcbAlloc(k) ==
  /\ gencnt < MaxGen
  /\ gencnt' = gencnt + 1
  /\ pcb' = [pcb EXCEPT ![gencnt + 1] = k]
  /\ UNCHANGED <<tunable, clock, openVars, sc, readVars, pc, loc>>

\* in_pcbfree(): the socket leaves the list, and the counter moves on.
PcbFree(g) ==
  /\ g \in Live /\ gencnt < MaxGen
  /\ gencnt' = gencnt + 1
  /\ pcb' = [pcb EXCEPT ![g] = NoPcb]
  /\ loc' = Disturbed(Files, {g})
  /\ UNCHANGED <<tunable, clock, openVars, sc, readVars, pc>>

\* A state transition, bind or connect on a live socket.
PcbChange(g, k) ==
  /\ g \in Live /\ pcb[g] # k
  /\ pcb' = [pcb EXCEPT ![g] = k]
  /\ loc' = Disturbed(Files, {g})
  /\ UNCHANGED <<tunable, clock, gencnt, openVars, sc, readVars, pc>>

\* A write to one of the read-write sysctls.
SetTunable(k, n) ==
  /\ tunable' = [tunable EXCEPT ![k] = n]
  /\ UNCHANGED <<clock, pcb, gencnt, openVars, sc, readVars, pc, loc>>

Tick ==
  /\ clock < MaxTime
  /\ clock' = clock + 1
  /\ UNCHANGED <<tunable, pcb, gencnt, openVars, sc, readVars, pc, loc>>

---------------------------------------------------------------------------
\* The steps a thread that is in a system call takes.
OpenStep(t) == OpenDecide(t) \/ OpenUndo(t) \/ OpenDone(t)

ReadStep(t) ==
  \/ ReadEof(t) \/ ReadClaim(t) \/ ReadDecide(t) \/ ReadThrottle(t)
  \/ ReadStart(t) \/ ReadSnapshot(t)
  \/ LoopBreak(t) \/ (\E why \in Aborts : VisitAborted(t, why)) \/ VisitSkip(t) \/ VisitEmit(t)
  \/ ReadFinish(t) \/ ReadFlush(t) \/ ReadLeave(t)

IoctlStep(t) == (\E k \in Differing : SetFilterCopy(t, k)) \/ SetFilterReturn(t)

ThreadStep(t) == OpenStep(t) \/ ReadStep(t) \/ IoctlStep(t)

\* A thread enters a system call.
Call(t) ==
  \E f \in Files :
    \/ \E c \in Creds : OpenClaim(t, f, c)
    \/ \E n \in BufSizes : ReadCall(t, f, n)
    \/ \E flt \in Filters : SetFilterCall(t, f, flt)
    \/ Reset(t, f)

Environment ==
  \/ \E k \in Kinds : PcbAlloc(k)
  \/ \E g \in Generations : PcbFree(g)
  \/ \E g \in Generations, k \in Kinds : PcbChange(g, k)
  \/ \E k \in TunableNames : \E n \in TunableValues[k] : SetTunable(k, n)
  \/ Tick

Next ==
  \/ \E t \in Threads : Call(t) \/ ThreadStep(t)
  \/ \E f \in Files : Close(f) \/ Dtor(f)
  \/ Environment

Spec == Init /\ [][Next]_vars

\* The kernel runs a thread that is in a system call, and devfs the
\* destructor; nobody has to call, to close, or to create sockets.
Fairness ==
  /\ \A t \in Threads : WF_vars(ThreadStep(t))
  /\ \A f \in Files : WF_vars(Dtor(f))

FairSpec == Spec /\ Fairness

---------------------------------------------------------------------------
(* Types.                                                                  *)

FileStates == {"free", "claiming", "refused", "admitted", "open", "closing"}

\* Where a thread counted in active_readers and admitted can be.
Walking  == {"reading", "read_out"}
Admitted == {"read_admitted", "read_throttled", "read_start", "read_snapshot", "flush"}
              \cup Walking
Labels   == {"idle", "open", "read_eof", "read_checked", "read_claiming", "read_refused",
             "set_filter"} \cup Admitted

Endings  == {"none", "eof", "full"} \cup Aborts

Softcs ==
  [cred : Creds \cup {Root}, done : BOOLEAN, filter : FilterRecords, last_read : Nat,
   old : Nat, opener : Threads \cup {NoThread}, walks : Nat]

CallLocals ==
  [fd : Files \cup {NoFile}, old : Nat, resid : Nat, now : Nat, deadline : Nat,
   gencnt : 0 .. MaxGen, pos : 0 .. MaxGen + 1, end : Endings, batch : [StatFields -> Nat],
   filter : FilterRecords, todo : SUBSET Differing,
   out : Seq(Generations), stable : SUBSET Generations, late : Nat]

EnvTypes  == /\ tunable \in Settings
             /\ clock \in Nat \ {0}
             /\ gencnt \in 0 .. MaxGen
             /\ pcb \in [Generations -> Kinds \cup {NoPcb}]
OpenTypes == active_fds \in Nat /\ opens_total \in Nat /\ file \in [Files -> FileStates]
ReadTypes == active_readers \in Nat /\ reads_total \in Nat /\ stats \in [StatFields -> Nat]

TypeOK ==
  /\ EnvTypes /\ OpenTypes /\ ReadTypes
  /\ sc \in [Files -> Softcs]
  /\ pc \in [Threads -> Labels] /\ loc \in [Threads -> CallLocals]

---------------------------------------------------------------------------
(* Properties.                                                             *)

\* The places of the two admission gates.
FdPlace(s) == IF s = "free" THEN "out" ELSE IF s \in {"claiming", "refused"} THEN s ELSE "in"
RdPlace(l) == IF l \in Admitted THEN "in"
              ELSE IF l = "read_claiming" THEN "claiming"
              ELSE IF l = "read_refused" THEN "refused" ELSE "out"

FdGate == INSTANCE AdmissionGate WITH
  Clients <- Files,  Limits <- TunableValues["max_open_fds"],
  count <- active_fds,  st <- [f \in Files |-> FdPlace(file[f])],
  old <- [f \in Files |-> sc[f].old],  limit <- tunable["max_open_fds"]

ReaderGate == INSTANCE AdmissionGate WITH
  Clients <- Threads,  Limits <- TunableValues["max_concurrent_readers"],
  count <- active_readers,  st <- [t \in Threads |-> RdPlace(pc[t])],
  old <- [t \in Threads |-> loc[t].old],  limit <- tunable["max_concurrent_readers"]

\* Opens, failed opens, closes and destructors implement the admission gate
\* over active_fds: every path out of open and the destructor give back
\* exactly the one place the open took.
FdGateSpec == FdGate!GateSpec

\* Reads, refused and throttled reads implement the gate over active_readers,
\* on every way out of the loop.
ReaderGateSpec == ReaderGate!GateSpec

Emitted(t) == {loc[t].out[i] : i \in DOMAIN loc[t].out}

\* While sockets are created and freed under the walk, a read emits each
\* socket at most once and none newer than its snapshot.
SnapshotOrdered ==
  \A t \in Threads :
    LET out == loc[t].out IN
    /\ \A i \in DOMAIN out : out[i] <= loc[t].gencnt
    /\ \A i, j \in DOMAIN out : i < j => out[i] > out[j]

\* A read whose walk reached the end of the table has emitted, of the sockets
\* that lived through the walk undisturbed under an undisturbed filter, all
\* that the filter and the opener's credential let through, and no other.
SnapshotComplete ==
  \A t \in Threads :
    (pc[t] = "read_out" /\ loc[t].end = "eof") =>
      \A g \in loc[t].stable : (VerdictOf(t, g) = "emit") <=> (g \in Emitted(t))

Skipped(b) == b["gencnt"] + b["cred"] + b["ipver"] + b["state"] + b["port"] + b["addr"]
Aborted(b) == b["uiomove_errors"] + b["timed_out"] + b["interrupted"]
Balanced(b) == b["visited"] = b["emitted"] + Skipped(b) + Aborted(b)

\* In every read, each socket visited is charged to exactly one counter, and
\* the records counted are the records delivered.
BatchBalanced ==
  \A t \in Threads :
    pc[t] \in Walking =>
      /\ Balanced(loc[t].batch)
      /\ loc[t].batch["emitted"] = Len(loc[t].out)
      /\ Aborted(loc[t].batch) = IF loc[t].end \in Aborts THEN 1 ELSE 0

\* No read loses or repeats a part of its batch when it flushes it field by
\* field beside other readers: when no read is in its loop or flushing, the
\* global counters balance.
StatsBalanced ==
  (\A t \in Threads : pc[t] \notin Walking \cup {"flush"}) => Balanced(stats)

\* Once the deadline has passed a walk looks at fewer than CheckInterval
\* further sockets.
LateVisitsBounded == \A t \in Threads : loc[t].late < CheckInterval

\* man/tcpstats.4, TCPSTATS_RESET: "Without this, a second read returns EOF":
\* between two resets at most one read walks the table for a file.
OneWalkPerReset == \A f \in Files : sc[f].walks <= 1

\* man/tcpstats.4, min_read_interval_ms: "Minimum interval between reads per
\* file descriptor": a read that starts does so that long after the last one.
ReadsSpaced ==
  [][\A t \in Threads :
       LET last == sc[loc[t].fd].last_read IN
       (pc[t] = "read_start" /\ pc'[t] = "read_snapshot" /\ last # 0)
         => loc[t].now - last >= tunable["min_read_interval_ms"]]_vars

\* Every system call returns: no admission, throttle, visit or flush step
\* waits for another thread, and a walk ends although sockets appear, change
\* and are freed under it.
CallsReturn == \A t \in Threads : (pc[t] # "idle") ~> (pc[t] = "idle")

\* A file closed under a read is destroyed and its place given back.
ClosedFilesFreed == \A f \in Files : (file[f] = "closing") ~> (file[f] = "free")
============================================================================
