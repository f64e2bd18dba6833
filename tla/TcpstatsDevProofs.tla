------------------------- MODULE TcpstatsDevProofs -------------------------
(***************************************************************************)
(* Type correctness of TcpstatsDev, for every value of its constants, and  *)
(* the two admission gates it implements.                                  *)
(*                                                                         *)
(* TypeOK is not inductive.  That active_fds and active_readers stay       *)
(* naturals when a place is given back needs the sets of files and threads *)
(* they count; that a step stores into a softc needs the thread to be in   *)
(* its call on a file; and that giving a place back leaves the values of   *)
(* earlier fetch-and-adds at zero is what the gates' refinement rests on.  *)
(* DevInv adds these facts.                                                *)
(*                                                                         *)
(* The device implements the admission gate twice: the life of a struct    *)
(* file over tcpstats_active_fds, and a read over tcpstats_active_readers. *)
(* Every step of a thread, of devfs or of the environment is one step of a *)
(* gate or leaves its four variables alone.                                *)
(*                                                                         *)
(* Then what reads of the socket table deliver, for every table, filter    *)
(* and schedule: the order of the records, the balance of the batch, the   *)
(* sockets examined after the deadline, and what a read has emitted when   *)
(* it reaches the end of the table.                                        *)
(*                                                                         *)
(* None of these is inductive.  WalkOK relates the records emitted to the  *)
(* iterator's position; LateOK relates the sockets examined late to the    *)
(* sockets visited since the last checkpoint.  HeldInv says that a file in *)
(* use by a read has been opened and not destroyed, so that no open or     *)
(* destructor rewrites its softc; CompleteOK says what has been emitted of *)
(* the part of the table that the iterator has passed.                     *)
(*                                                                         *)
(* Last the global counters, which are out of balance while batches are    *)
(* being flushed: what they lack and what the threads still hold add up to *)
(* nothing (BalanceInv).  And a file that one thread has for itself: its   *)
(* walks and its times are those of that thread's calls (OwnerInv,         *)
(* WalksInv, SpacedInv).                                                   *)
(***************************************************************************)
EXTENDS TcpstatsDev, FiniteSetTheorems, TLAPS

\* A family of subsets of a finite set has a member with no other below it.
LEMMA MinimalSubset ==
  ASSUME NEW S, IsFiniteSet(S), NEW T, \A u \in T : u \subseteq S, T # {}
  PROVE  \E m \in T : \A u \in T : ~ (u \subseteq m /\ u # m)
<1>1. T \subseteq FiniteSubsetsOf(S)
  BY FS_Subset DEF FiniteSubsetsOf
<1>2. PICK m \in T : \A u \in T : ~ (<<u, m>> \in StrictSubsetOrdering(S))
  BY <1>1, FS_StrictSubsetOrderingWellFounded, WFMin
<1>3. ASSUME NEW u \in T, u \subseteq m, u # m PROVE FALSE
  BY <1>2, <1>3 DEF StrictSubsetOrdering
<1> QED
  BY <1>3

\* A part of 1 .. n is finite.
LEMMA IntervalPart ==
  ASSUME NEW n \in Nat, NEW S \in SUBSET (1 .. n)
  PROVE  IsFiniteSet(S)
<1>1. IsFiniteSet(1 .. n)
  BY FS_Interval
<1> QED
  BY <1>1, FS_Subset

\* A finite, non-empty set of integers has a least element: of the sets of
\* elements below one of its elements, one is minimal.
LEMMA MinOf ==
  ASSUME NEW S \in SUBSET Int, IsFiniteSet(S), S # {}
  PROVE  Min(S) \in S /\ \A y \in S : Min(S) <= y
<1> DEFINE T == {{y \in S : y < x} : x \in S}
<1>1. PICK m \in T : \A u \in T : ~ (u \subseteq m /\ u # m)
  <2>1. T # {} /\ \A u \in T : u \subseteq S
    OBVIOUS
  <2> HIDE DEF T
  <2> QED
    BY <2>1, MinimalSubset
<1>2. PICK x \in S : m = {y \in S : y < x}
  OBVIOUS
<1>3. ASSUME NEW z \in S, z < x PROVE FALSE
  <2> DEFINE u == {y \in S : y < z}
  <2>1. u \in T
    OBVIOUS
  <2>2. z \in m /\ z \notin u
    BY <1>2, <1>3
  <2>3. ASSUME NEW y \in u PROVE y \in m
    BY <1>2, <1>3
  <2> HIDE DEF T, u
  <2> QED
    BY <1>1, <2>1, <2>2, <2>3
<1>4. \A y \in S : x <= y
  BY <1>3
<1> QED
  BY <1>4 DEF Min

\* The same for the greatest element.
LEMMA MaxOf ==
  ASSUME NEW S \in SUBSET Int, IsFiniteSet(S), S # {}
  PROVE  Max(S) \in S /\ \A y \in S : y <= Max(S)
<1> DEFINE T == {{y \in S : y > x} : x \in S}
<1>1. PICK m \in T : \A u \in T : ~ (u \subseteq m /\ u # m)
  <2>1. T # {} /\ \A u \in T : u \subseteq S
    OBVIOUS
  <2> HIDE DEF T
  <2> QED
    BY <2>1, MinimalSubset
<1>2. PICK x \in S : m = {y \in S : y > x}
  OBVIOUS
<1>3. ASSUME NEW z \in S, z > x PROVE FALSE
  <2> DEFINE u == {y \in S : y > z}
  <2>1. u \in T
    OBVIOUS
  <2>2. z \in m /\ z \notin u
    BY <1>2, <1>3
  <2>3. ASSUME NEW y \in u PROVE y \in m
    BY <1>2, <1>3
  <2> HIDE DEF T, u
  <2> QED
    BY <1>1, <2>1, <2>2, <2>3
<1>4. \A y \in S : y <= x
  BY <1>3
<1> QED
  BY <1>4 DEF Max

---------------------------------------------------------------------------
(* The inductive invariant, in one part for each group of variables.       *)

\* The counter of open files counts the struct files that exist, and the
\* value a fetch-and-add returned is kept only until it is compared.
FilesCounted == {f \in Files : file[f] # "free"}
FileInv ==
  /\ OpenTypes
  /\ sc \in [Files -> Softcs]
  /\ \A f \in Files : file[f] # "claiming" => sc[f].old = 0
  /\ active_fds = Cardinality(FilesCounted)

\* A thread in a system call is in it on a file.
ThreadInv ==
  /\ pc \in [Threads -> Labels]
  /\ loc \in [Threads -> CallLocals]
  /\ \A t \in Threads : pc[t] # "idle" => loc[t].fd \in Files
  /\ \A t \in Threads : pc[t] # "read_claiming" => loc[t].old = 0

\* The counter of readers counts the threads between their addition and their
\* subtraction.
ReadersCounted == {t \in Threads : RdPlace(pc[t]) # "out"}
ReadInv ==
  /\ ReadTypes
  /\ active_readers = Cardinality(ReadersCounted)

DevInv == EnvTypes /\ FileInv /\ ThreadInv /\ ReadInv

LEMMA DevInvTypes == DevInv => TypeOK
BY DEF DevInv, FileInv, ThreadInv, ReadInv, TypeOK

---------------------------------------------------------------------------
(* The values the actions store.                                           *)

LEMMA ZeroStatsTyped == ZeroStats \in [StatFields -> Nat]
BY DEF ZeroStats

LEMMA LocalsTyped ==
  ASSUME NEW f \in Files \cup {NoFile}, NEW n \in Nat
  PROVE  /\ Locals(f, n) \in CallLocals
         /\ Locals(f, n).fd = f /\ Locals(f, n).old = 0
<1>1. DefaultFilter \in FilterRecords /\ MaxGen \in Nat
  BY DevAssumption
<1>2. <<>> \in Seq(Generations)
  OBVIOUS
<1> QED
  BY <1>1, <1>2, ZeroStatsTyped DEF Locals, CallLocals, Endings

LEMMA AtRestTyped == AtRest \in CallLocals /\ AtRest.old = 0
BY LocalsTyped DEF AtRest

LEMMA NewSoftcTyped ==
  ASSUME NEW c \in Creds \cup {Root}, NEW t \in Threads \cup {NoThread}, NEW n \in Nat
  PROVE  NewSoftc(c, t, n) \in Softcs /\ NewSoftc(c, t, n).old = n
<1>1. DefaultFilter \in FilterRecords
  BY DevAssumption
<1> QED
  BY <1>1 DEF NewSoftc, Softcs

LEMMA NoSoftcTyped == NoSoftc \in Softcs /\ NoSoftc.old = 0
BY NewSoftcTyped DEF NoSoftc

---------------------------------------------------------------------------
(* What an action that leaves a group of variables alone preserves, and    *)
(* the moves that several actions share.                                   *)

\* Every tunable has one of its values, and those are naturals.
LEMMA TunableTyped ==
  ASSUME EnvTypes, NEW k \in TunableNames
  PROVE  tunable[k] \in TunableValues[k] /\ tunable[k] \in Nat
<1>1. TunableValues[k] \subseteq Nat
  BY DevAssumption
<1> QED
  BY <1>1 DEF EnvTypes, Settings

LEMMA EnvSame == EnvTypes /\ UNCHANGED envVars => EnvTypes'
BY DEF EnvTypes, envVars

LEMMA FileSame == FileInv /\ UNCHANGED <<openVars, sc>> => FileInv'
BY DEF FileInv, OpenTypes, FilesCounted, openVars

LEMMA ThreadSame == ThreadInv /\ UNCHANGED <<pc, loc>> => ThreadInv'
BY DEF ThreadInv

LEMMA ReadSame == ReadInv /\ UNCHANGED <<readVars, pc>> => ReadInv'
BY DEF ReadInv, ReadTypes, ReadersCounted, readVars

\* Thread t goes to a label that counts as a reader as its present one does.
LEMMA ReadMove ==
  ASSUME ReadInv, ThreadInv, NEW t \in Threads, NEW l \in Labels, Goto(t, l),
         RdPlace(l) = "out" <=> RdPlace(pc[t]) = "out",
         UNCHANGED active_readers, ReadTypes'
  PROVE  ReadInv'
<1>1. ReadersCounted' = ReadersCounted
  BY DEF ThreadInv, ReadersCounted, Goto
<1> QED
  BY <1>1 DEF ReadInv

\* Thread t goes on, or into a call on file f, with new locals.
LEMMA ThreadMove ==
  ASSUME ThreadInv, NEW t \in Threads, NEW l \in Labels, NEW r \in CallLocals,
         r.fd \in Files, l # "read_claiming" => r.old = 0, Enter(t, l, r)
  PROVE  ThreadInv'
BY DEF ThreadInv, Enter, Goto

\* Thread t leaves its system call.
LEMMA ThreadReturn ==
  ASSUME ThreadInv, NEW t \in Threads, Return(t)
  PROVE  ThreadInv'
BY AtRestTyped DEF ThreadInv, Return, Enter, Goto, Labels

LEMMA InitInv == Init => DevInv
<1> SUFFICES ASSUME Init PROVE DevInv
  OBVIOUS
<1>1. EnvTypes
  BY DevAssumption DEF Init, EnvTypes
<1>2. FileInv
  <2>1. FilesCounted = {}
    BY DEF Init, FilesCounted
  <2> QED
    BY <2>1, FS_EmptySet, NoSoftcTyped DEF Init, FileInv, OpenTypes, FileStates
<1>3. ThreadInv
  BY AtRestTyped DEF Init, ThreadInv, Labels
<1>4. ReadInv
  <2>1. ReadersCounted = {}
    BY DEF Init, ReadersCounted, RdPlace, Admitted, Walking
  <2> QED
    BY <2>1, FS_EmptySet, ZeroStatsTyped DEF Init, ReadInv, ReadTypes
<1> QED
  BY <1>1, <1>2, <1>3, <1>4 DEF DevInv

---------------------------------------------------------------------------
(* open(), close(), and the destructor.                                    *)

LEMMA FilesFinite == IsFiniteSet(FilesCounted) /\ IsFiniteSet(ReadersCounted)
BY DevAssumption, FS_Subset DEF FilesCounted, ReadersCounted

LEMMA OpenClaimInv ==
  ASSUME DevInv, NEW t \in Threads, NEW f \in Files, NEW c \in Creds, OpenClaim(t, f, c)
  PROVE  DevInv'
<1> USE DEF DevInv
<1>1. EnvTypes'
  BY EnvSame DEF OpenClaim
<1>2. FileInv'
  <2>1. NewSoftc(c, t, active_fds) \in Softcs
          /\ NewSoftc(c, t, active_fds).old = active_fds
    BY NewSoftcTyped DEF FileInv, OpenTypes
  <2>2. FilesCounted' = FilesCounted \cup {f} /\ f \notin FilesCounted
    BY DEF FileInv, OpenTypes, FilesCounted, OpenClaim
  <2>3. Cardinality(FilesCounted') = Cardinality(FilesCounted) + 1
    BY <2>2, FilesFinite, FS_AddElement
  <2> QED
    BY <2>1, <2>3 DEF FileInv, OpenTypes, FileStates, OpenClaim
<1>3. ThreadInv'
  BY LocalsTyped, ThreadMove DEF OpenClaim, Labels
<1>4. ReadInv'
  <2>1. ReadTypes'
    BY DEF ReadInv, ReadTypes, OpenClaim, readVars
  <2> QED
    BY <2>1, ReadMove DEF OpenClaim, Enter, readVars, RdPlace, Admitted, Walking, Labels
<1> QED
  BY <1>1, <1>2, <1>3, <1>4

LEMMA OpenDecideInv ==
  ASSUME DevInv, NEW t \in Threads, OpenDecide(t)
  PROVE  DevInv'
<1> USE DEF DevInv
<1> DEFINE f == loc[t].fd
<1>1. f \in Files
  BY DEF ThreadInv, OpenDecide
<1>2. FileInv'
  <2>1. FilesCounted' = FilesCounted
    BY <1>1 DEF FileInv, OpenTypes, FilesCounted, OpenDecide
  <2>2. [sc[f] EXCEPT !.old = 0] \in Softcs /\ [sc[f] EXCEPT !.old = 0].old = 0
    BY <1>1 DEF FileInv, Softcs
  <2>3. sc' = [sc EXCEPT ![f] = [sc[f] EXCEPT !.old = 0]]
    BY <1>1 DEF OpenDecide
  <2>4. sc' \in [Files -> Softcs] /\ \A g \in Files : file'[g] # "claiming" => sc'[g].old = 0
    BY <1>1, <2>2, <2>3 DEF FileInv, OpenTypes, OpenDecide
  <2> QED
    BY <1>1, <2>1, <2>4 DEF FileInv, OpenTypes, FileStates, OpenDecide
<1> QED
  BY <1>2, EnvSame, ThreadSame, ReadSame DEF OpenDecide

\* Giving back the place of a struct file: the counter is not zero before.
LEMMA ReleaseFileInv ==
  ASSUME DevInv, NEW f \in Files, file[f] # "free", ReleaseFile(f)
  PROVE  FileInv'
<1> USE DEF DevInv
<1>1. FilesCounted' = FilesCounted \ {f} /\ f \in FilesCounted
  BY DEF FileInv, OpenTypes, FilesCounted, ReleaseFile
<1>2. Cardinality(FilesCounted') = Cardinality(FilesCounted) - 1
        /\ Cardinality(FilesCounted') \in Nat
  BY <1>1, FilesFinite, FS_RemoveElement, FS_CardinalityType
<1>3. active_fds' = Cardinality(FilesCounted') /\ active_fds' \in Nat
  BY <1>2 DEF FileInv, ReleaseFile
<1> QED
  BY <1>3, NoSoftcTyped DEF FileInv, OpenTypes, FileStates, ReleaseFile

LEMMA OpenUndoInv ==
  ASSUME DevInv, NEW t \in Threads, OpenUndo(t)
  PROVE  DevInv'
<1> USE DEF DevInv
<1>1. EnvTypes'
  BY EnvSame DEF OpenUndo, ReleaseFile
<1>2. FileInv'
  BY ReleaseFileInv DEF ThreadInv, OpenUndo
<1>3. ThreadInv'
  BY ThreadReturn DEF OpenUndo
<1>4. ReadInv'
  <2>1. ReadTypes'
    BY DEF ReadInv, ReadTypes, OpenUndo, ReleaseFile, readVars
  <2> QED
    BY <2>1, ReadMove
    DEF OpenUndo, ReleaseFile, Return, Enter, readVars, RdPlace, Admitted, Walking, Labels
<1> QED
  BY <1>1, <1>2, <1>3, <1>4

LEMMA OpenDoneInv ==
  ASSUME DevInv, NEW t \in Threads, OpenDone(t)
  PROVE  DevInv'
<1> USE DEF DevInv
<1>1. EnvTypes'
  BY EnvSame DEF OpenDone
<1>2. FileInv'
  <2>1. FilesCounted' = FilesCounted
    BY DEF FileInv, ThreadInv, OpenTypes, FilesCounted, OpenDone
  <2> QED
    BY <2>1 DEF FileInv, ThreadInv, OpenTypes, FileStates, OpenDone
<1>3. ThreadInv'
  BY ThreadReturn DEF OpenDone
<1>4. ReadInv'
  <2>1. ReadTypes'
    BY DEF ReadInv, ReadTypes, OpenDone, readVars
  <2> QED
    BY <2>1, ReadMove
    DEF OpenDone, Return, Enter, readVars, RdPlace, Admitted, Walking, Labels
<1> QED
  BY <1>1, <1>2, <1>3, <1>4

LEMMA CloseInv ==
  ASSUME DevInv, NEW f \in Files, Close(f)
  PROVE  DevInv'
<1> USE DEF DevInv
<1>1. FilesCounted' = FilesCounted
  BY DEF FileInv, OpenTypes, FilesCounted, Close
<1>2. FileInv'
  BY <1>1 DEF FileInv, OpenTypes, FileStates, Close
<1> QED
  BY <1>2, EnvSame, ThreadSame, ReadSame DEF Close

LEMMA DtorInv ==
  ASSUME DevInv, NEW f \in Files, Dtor(f)
  PROVE  DevInv'
<1> USE DEF DevInv
<1>1. FileInv'
  BY ReleaseFileInv DEF Dtor
<1> QED
  BY <1>1, EnvSame, ThreadSame, ReadSame DEF Dtor, ReleaseFile

---------------------------------------------------------------------------
(* read(), up to the walk.                                                 *)

LEMMA ReadCallInv ==
  ASSUME DevInv, NEW t \in Threads, NEW f \in Files, NEW n \in BufSizes, ReadCall(t, f, n)
  PROVE  DevInv'
<1> USE DEF DevInv
<1>1. EnvTypes' /\ FileInv'
  BY EnvSame, FileSame DEF ReadCall, sharedVars
<1> DEFINE l == IF sc[f].done THEN "read_eof" ELSE "read_checked"
<1>2. l \in Labels /\ l # "read_claiming" /\ RdPlace(l) = "out" /\ RdPlace(pc[t]) = "out"
  BY DEF ReadCall, Labels, RdPlace, Admitted, Walking
<1>3. Locals(f, n) \in CallLocals /\ Locals(f, n).fd = f /\ Locals(f, n).old = 0
  BY LocalsTyped, DevAssumption
<1>4. ThreadInv'
  BY <1>2, <1>3, ThreadMove DEF ReadCall
<1>5. ReadInv'
  <2>1. ReadTypes' /\ UNCHANGED active_readers
    BY DEF ReadInv, ReadTypes, ReadCall, sharedVars, readVars
  <2> QED
    BY <1>2, <2>1, ReadMove DEF ReadCall, Enter
<1> QED
  BY <1>1, <1>4, <1>5

LEMMA ReadEofInv ==
  ASSUME DevInv, NEW t \in Threads, ReadEof(t)
  PROVE  DevInv'
<1> USE DEF DevInv
<1>1. EnvTypes' /\ FileInv' /\ ThreadInv'
  BY EnvSame, FileSame, ThreadReturn DEF ReadEof, sharedVars
<1>2. ReadTypes' /\ UNCHANGED active_readers
  BY DEF ReadInv, ReadTypes, ReadEof, sharedVars, readVars
<1>3. ReadInv'
  BY <1>2, ReadMove DEF ReadEof, Return, Enter, RdPlace, Admitted, Walking, Labels
<1> QED
  BY <1>1, <1>3

LEMMA ReadClaimInv ==
  ASSUME DevInv, NEW t \in Threads, ReadClaim(t)
  PROVE  DevInv'
<1> USE DEF DevInv
<1>1. EnvTypes' /\ FileInv'
  BY EnvSame, FileSame DEF ReadClaim
<1>2. ThreadInv'
  <2> DEFINE r == [loc[t] EXCEPT !.old = active_readers]
  <2>1. r \in CallLocals /\ r.fd \in Files
    BY ZenonT(40) DEF ThreadInv, CallLocals, ReadInv, ReadTypes, ReadClaim
  <2>2. Enter(t, "read_claiming", r)
    BY DEF ReadClaim, Enter
  <2> HIDE DEF r
  <2> QED
    BY <2>1, <2>2, ThreadMove DEF Labels
<1>3. ReadInv'
  <2>1. ReadersCounted' = ReadersCounted \cup {t} /\ t \notin ReadersCounted
    BY DEF ThreadInv, ReadersCounted, ReadClaim, Goto, RdPlace, Admitted, Walking
  <2>2. Cardinality(ReadersCounted') = Cardinality(ReadersCounted) + 1
    BY <2>1, FilesFinite, FS_AddElement
  <2> QED
    BY <2>2 DEF ReadInv, ReadTypes, ReadClaim
<1> QED
  BY <1>1, <1>2, <1>3

\* A step that leaves everything shared alone and stays among the labels of
\* counted readers, or among the others.
LEMMA LocalStep ==
  ASSUME DevInv, NEW t \in Threads, NEW l \in Labels, NEW r \in CallLocals,
         r.fd \in Files, l # "read_claiming", r.old = 0,
         RdPlace(l) = "out" <=> RdPlace(pc[t]) = "out",
         Goto(t, l), loc' = [loc EXCEPT ![t] = r], UNCHANGED sharedVars
  PROVE  DevInv'
<1> USE DEF DevInv
<1>1. EnvTypes' /\ FileInv'
  BY EnvSame, FileSame DEF sharedVars
<1>2. ThreadInv'
  BY ThreadMove DEF Enter
<1>3. ReadTypes' /\ UNCHANGED active_readers
  BY DEF ReadInv, ReadTypes, sharedVars, readVars
<1>4. ReadInv'
  BY <1>3, ReadMove
<1> QED
  BY <1>1, <1>2, <1>4

LEMMA ReadDecideInv ==
  ASSUME DevInv, NEW t \in Threads, ReadDecide(t)
  PROVE  DevInv'
<1> DEFINE l == IF loc[t].old >= tunable["max_concurrent_readers"]
                THEN "read_refused" ELSE "read_admitted"
           r == [loc[t] EXCEPT !.old = 0]
<1>1. l \in Labels /\ l # "read_claiming" /\ RdPlace(l) # "out" /\ RdPlace(pc[t]) # "out"
  BY DEF ReadDecide, Labels, RdPlace, Admitted, Walking
<1>2. r \in CallLocals /\ r.fd \in Files /\ r.old = 0
  BY ZenonT(40) DEF DevInv, ThreadInv, CallLocals, ReadDecide
<1>3. Goto(t, l) /\ loc' = [loc EXCEPT ![t] = r] /\ UNCHANGED sharedVars
  BY DEF ReadDecide
<1> HIDE DEF l, r
<1> QED
  BY <1>1, <1>2, <1>3, LocalStep

LEMMA ReadThrottleInv ==
  ASSUME DevInv, NEW t \in Threads, ReadThrottle(t)
  PROVE  DevInv'
<1> DEFINE r == [loc[t] EXCEPT !.now = clock]
<1>1. PICK l \in {"read_throttled", "read_start"} : Goto(t, l)
  BY DEF ReadThrottle
<1>2. l \in Labels /\ l # "read_claiming" /\ RdPlace(l) # "out" /\ RdPlace(pc[t]) # "out"
  BY <1>1 DEF ReadThrottle, Labels, RdPlace, Admitted, Walking
<1>3. r \in CallLocals /\ r.fd \in Files /\ r.old = 0
  BY ZenonT(40) DEF DevInv, EnvTypes, ThreadInv, CallLocals, ReadThrottle
<1>4. loc' = [loc EXCEPT ![t] = r] /\ UNCHANGED sharedVars
  BY DEF ReadThrottle
<1> HIDE DEF r
<1> QED
  BY <1>1, <1>2, <1>3, <1>4, LocalStep

LEMMA ReadStartInv ==
  ASSUME DevInv, NEW t \in Threads, ReadStart(t)
  PROVE  DevInv'
<1> USE DEF DevInv
<1> DEFINE f == loc[t].fd
           duration == tunable["max_read_duration_ms"]
           deadline == IF duration > 0 THEN loc[t].now + duration ELSE 0
           r == [loc[t] EXCEPT !.deadline = deadline]
           s == [sc[f] EXCEPT !.last_read = loc[t].now, !.walks = @ + 1]
<1>1. f \in Files /\ loc[t] \in CallLocals /\ sc[f] \in Softcs /\ loc[t].old = 0
  BY DEF ThreadInv, FileInv, ReadStart
<1>2. EnvTypes'
  BY EnvSame DEF ReadStart
<1>3. FileInv'
  <2>1. s \in Softcs /\ s.old = sc[f].old
    <3>1. loc[t].now \in Nat /\ sc[f].walks + 1 \in Nat
      BY <1>1, SMTT(40) DEF Softcs, CallLocals
    <3> QED
      BY <1>1, <3>1 DEF Softcs
  <2>2. sc' = [sc EXCEPT ![f] = s]
    BY <1>1 DEF ReadStart
  <2> HIDE DEF s
  <2>3. UNCHANGED openVars /\ FilesCounted' = FilesCounted
    BY DEF ReadStart, openVars, FilesCounted
  <2> QED
    BY <1>1, <2>1, <2>2, <2>3 DEF FileInv, OpenTypes, openVars
<1>4. ThreadInv'
  <2>1. deadline \in Nat
    <3>1. loc[t].now \in Nat /\ duration \in Nat
      BY <1>1, TunableTyped DEF TunableNames, CallLocals
    <3> QED
      BY <3>1
  <2> HIDE DEF deadline
  <2>2. r \in CallLocals /\ r.fd \in Files /\ r.old = 0
    BY <1>1, <2>1 DEF CallLocals
  <2>3. Enter(t, "read_snapshot", r)
    BY <1>1 DEF ReadStart, Enter, deadline
  <2> HIDE DEF r
  <2> QED
    BY <2>2, <2>3, ThreadMove DEF Labels, Admitted
<1>5. ReadInv'
  <2>1. ReadTypes'
    BY DEF ReadInv, ReadTypes, ReadStart
  <2> QED
    BY <2>1, ReadMove DEF ReadStart, RdPlace, Admitted, Walking, Labels
<1> QED
  BY <1>2, <1>3, <1>4, <1>5

LEMMA ReadSnapshotInv ==
  ASSUME DevInv, NEW t \in Threads, ReadSnapshot(t)
  PROVE  DevInv'
<1> DEFINE r == [loc[t] EXCEPT !.gencnt = gencnt, !.pos = MaxGen + 1, !.stable = Live]
<1>1. RdPlace("reading") # "out" /\ RdPlace(pc[t]) # "out" /\ "reading" \in Labels
  BY DEF ReadSnapshot, Labels, RdPlace, Admitted, Walking
<1>2. r \in CallLocals /\ r.fd \in Files /\ r.old = 0
  <2>1. gencnt \in 0 .. MaxGen /\ MaxGen + 1 \in 0 .. MaxGen + 1 /\ Live \subseteq Generations
    BY DevAssumption DEF DevInv, EnvTypes, Live
  <2>2. loc[t] \in CallLocals /\ loc[t].fd \in Files /\ loc[t].old = 0
    BY DEF DevInv, ThreadInv, ReadSnapshot
  <2> QED
    BY <2>1, <2>2 DEF CallLocals
<1>3. Goto(t, "reading") /\ loc' = [loc EXCEPT ![t] = r] /\ UNCHANGED sharedVars
  BY DEF ReadSnapshot
<1> HIDE DEF r
<1> QED
  BY <1>1, <1>2, <1>3, LocalStep

---------------------------------------------------------------------------
(* The walk.                                                               *)

\* A socket that is skipped is charged to one of the skip counters.
LEMMA VerdictRange ==
  ASSUME NEW f, NEW s, NEW g, NEW n, NEW c
  PROVE  Verdict(f, s, g, n, c) \in Reasons \cup {"emit"}
<1> DEFINE failing == {k \in DOMAIN SkipReasons : Fails(SkipReasons[k], f, s, g, n, c)}
<1>1. DOMAIN SkipReasons = 1 .. 6 /\ \A k \in 1 .. 6 : SkipReasons[k] \in Reasons
  BY DEF SkipReasons, Reasons
<1>2. failing \in SUBSET (1 .. 6) /\ IsFiniteSet(failing)
  <2>1. failing \in SUBSET (1 .. 6)
    BY <1>1
  <2> HIDE DEF failing
  <2> QED
    BY <2>1, IntervalPart
<1>3. failing # {} => Min(failing) \in failing
  <2> HIDE DEF failing
  <2> QED
    BY <1>2, MinOf
<1>4. failing # {} => SkipReasons[Min(failing)] \in Reasons
  <2> HIDE DEF failing
  <2> QED
    BY <1>1, <1>2, <1>3
<1> QED
  BY <1>4 DEF Verdict

\* The socket inp_next() yields is a live one below the iterator's position,
\* and no live one lies between.
LEMMA NextPcbIs ==
  ASSUME EnvTypes, NEW t \in Threads, Ahead(t) # {}
  PROVE  /\ NextPcb(t) \in Live /\ NextPcb(t) < loc[t].pos
         /\ NextPcb(t) \in Generations /\ NextPcb(t) \in 0 .. MaxGen + 1
         /\ \A g \in Ahead(t) : g <= NextPcb(t)
<1>1. Ahead(t) \subseteq Generations /\ Ahead(t) \in SUBSET Int /\ MaxGen \in Nat
  BY DevAssumption DEF Ahead, Live, Generations
<1>2. IsFiniteSet(Ahead(t))
  BY <1>1, IntervalPart DEF Generations
<1>3. NextPcb(t) \in Ahead(t) /\ \A g \in Ahead(t) : g <= NextPcb(t)
  BY <1>1, <1>2, MaxOf DEF NextPcb
<1> QED
  BY <1>1, <1>3 DEF Ahead, Live, Generations

\* Counting a visit keeps the batch a batch.
LEMMA CountedTyped ==
  ASSUME ThreadInv, NEW t \in Threads, NEW k \in StatFields
  PROVE  Counted(t, k) \in [StatFields -> Nat]
<1>1. loc[t].batch \in [StatFields -> Nat]
  BY DEF ThreadInv, CallLocals
<1> QED
  BY <1>1 DEF Counted

\* Where a thread in its walk, and its locals, are.
LEMMA WalkFacts ==
  ASSUME DevInv, NEW t \in Threads, pc[t] = "reading"
  PROVE  /\ loc[t] \in CallLocals /\ loc[t].fd \in Files /\ loc[t].old = 0
         /\ RdPlace(pc[t]) # "out" /\ "reading" \in Labels
         /\ RdPlace("read_out") # "out" /\ "read_out" \in Labels
BY DEF DevInv, ThreadInv, RdPlace, Admitted, Walking, Labels

LEMMA LoopBreakInv ==
  ASSUME DevInv, NEW t \in Threads, LoopBreak(t)
  PROVE  DevInv'
<1> DEFINE e == IF Ahead(t) = {} THEN "eof" ELSE "full"
           r == [loc[t] EXCEPT !.end = e]
<1>1. r \in CallLocals /\ r.fd \in Files /\ r.old = 0
  BY WalkFacts, ZenonT(40) DEF LoopBreak, CallLocals, Endings
<1>2. Goto(t, "read_out") /\ loc' = [loc EXCEPT ![t] = r] /\ UNCHANGED sharedVars
  BY DEF LoopBreak
<1> HIDE DEF r
<1> QED
  BY <1>1, <1>2, WalkFacts, LocalStep DEF LoopBreak

LEMMA VisitAbortedInv ==
  ASSUME DevInv, NEW t \in Threads, NEW why \in Aborts, VisitAborted(t, why)
  PROVE  DevInv'
<1> DEFINE b == Counted(t, why)
           r == [loc[t] EXCEPT !.batch = b, !.end = why]
<1>1. pc[t] = "reading"
  BY DEF VisitAborted, Visiting
<1>2. b \in [StatFields -> Nat]
  BY CountedTyped DEF DevInv, StatFields
<1>3. loc' = [loc EXCEPT ![t] = r]
  BY DEF VisitAborted
<1>4. r \in CallLocals /\ r.fd \in Files /\ r.old = 0
  <2> HIDE DEF b
  <2> QED
    BY <1>1, <1>2, WalkFacts, ZenonT(40) DEF CallLocals, Endings
<1>5. Goto(t, "read_out") /\ UNCHANGED sharedVars
  BY DEF VisitAborted
<1> HIDE DEF r
<1> QED
  BY <1>1, <1>3, <1>4, <1>5, WalkFacts, LocalStep

LEMMA VisitSkipInv ==
  ASSUME DevInv, NEW t \in Threads, VisitSkip(t)
  PROVE  DevInv'
<1> DEFINE b == Counted(t, VerdictOf(t, NextPcb(t)))
           n == Lateness(t)
           p == NextPcb(t)
           r == [loc[t] EXCEPT !.batch = b, !.pos = p, !.late = n]
<1>1. pc[t] = "reading" /\ Ahead(t) # {}
  BY DEF VisitSkip, Examining, Visiting
<1>2. b \in [StatFields -> Nat]
  <2>1. VerdictOf(t, NextPcb(t)) \in Reasons
    BY VerdictRange DEF VisitSkip, VerdictOf
  <2> QED
    BY <2>1, CountedTyped DEF DevInv, StatFields
<1>3. n \in Nat
  BY <1>1, WalkFacts DEF Lateness, CallLocals
<1>4. p \in 0 .. MaxGen + 1
  BY <1>1, NextPcbIs DEF DevInv
<1>5. loc' = [loc EXCEPT ![t] = r]
  BY DEF VisitSkip
<1>6. r \in CallLocals /\ r.fd \in Files /\ r.old = 0
  <2> HIDE DEF b, n, p
  <2> QED
    BY <1>1, <1>2, <1>3, <1>4, WalkFacts DEF CallLocals
<1>7. Goto(t, "reading") /\ UNCHANGED sharedVars
  BY <1>1 DEF VisitSkip, Goto, DevInv, ThreadInv
<1> HIDE DEF r
<1> QED
  BY <1>1, <1>5, <1>6, <1>7, WalkFacts, LocalStep

LEMMA VisitEmitInv ==
  ASSUME DevInv, NEW t \in Threads, VisitEmit(t)
  PROVE  DevInv'
<1> DEFINE b == Counted(t, "emitted")
           n == Lateness(t)
           p == NextPcb(t)
           o == Append(loc[t].out, NextPcb(t))
           m == loc[t].resid - 1
           r == [loc[t] EXCEPT !.batch = b, !.pos = p, !.late = n, !.resid = m, !.out = o]
<1>1. pc[t] = "reading" /\ Ahead(t) # {} /\ loc[t].resid > 0
  BY DEF VisitEmit, Examining, Visiting
<1>2. b \in [StatFields -> Nat]
  BY CountedTyped DEF DevInv, StatFields
<1>3. n \in Nat /\ m \in Nat
  <2>1. loc[t].late \in Nat /\ loc[t].resid \in Nat
    BY <1>1, WalkFacts DEF CallLocals
  <2>2. n \in Nat
    BY <2>1 DEF Lateness
  <2> QED
    BY <1>1, <2>1, <2>2
<1>4. p \in 0 .. MaxGen + 1 /\ p \in Generations
  BY <1>1, NextPcbIs DEF DevInv
<1>5. o \in Seq(Generations)
  BY <1>1, <1>4, WalkFacts DEF CallLocals
<1>6. loc' = [loc EXCEPT ![t] = r]
  BY DEF VisitEmit
<1>7. r \in CallLocals /\ r.fd \in Files /\ r.old = 0
  <2> HIDE DEF b, n, p, o, m
  <2> QED
    BY <1>1, <1>2, <1>3, <1>4, <1>5, WalkFacts, ZenonT(40) DEF CallLocals
<1>8. Goto(t, "reading") /\ UNCHANGED sharedVars
  BY <1>1 DEF VisitEmit, Goto, DevInv, ThreadInv
<1> HIDE DEF r
<1> QED
  BY <1>1, <1>6, <1>7, <1>8, WalkFacts, LocalStep

---------------------------------------------------------------------------
(* The end of a read.                                                      *)

LEMMA ReadFinishInv ==
  ASSUME DevInv, NEW t \in Threads, ReadFinish(t)
  PROVE  DevInv'
<1> USE DEF DevInv
<1> DEFINE f == loc[t].fd
           s == [sc[f] EXCEPT !.done = TRUE]
           r == [Locals(f, 0) EXCEPT !.batch = loc[t].batch]
<1>1. f \in Files /\ loc[t] \in CallLocals /\ sc[f] \in Softcs
  BY DEF ThreadInv, FileInv, ReadFinish
<1>2. EnvTypes'
  BY EnvSame DEF ReadFinish
<1>3. FileInv'
  <2>1. s \in Softcs /\ s.old = sc[f].old
    BY <1>1 DEF Softcs
  <2>2. sc' = [sc EXCEPT ![f] = s]
    BY <1>1 DEF ReadFinish
  <2>3. UNCHANGED openVars /\ FilesCounted' = FilesCounted
    BY DEF ReadFinish, openVars, FilesCounted
  <2> HIDE DEF s
  <2> QED
    BY <1>1, <2>1, <2>2, <2>3 DEF FileInv, OpenTypes, openVars
<1>4. ThreadInv'
  <2>1. loc[t].batch \in [StatFields -> Nat]
    BY <1>1 DEF CallLocals
  <2>2. r \in CallLocals /\ r.fd = f /\ r.old = 0
    BY <1>1, <2>1, LocalsTyped, ZenonT(40) DEF CallLocals
  <2>3. Enter(t, "flush", r)
    BY DEF ReadFinish
  <2> HIDE DEF r
  <2> QED
    BY <1>1, <2>2, <2>3, ThreadMove DEF Labels, Admitted
<1>5. ReadInv'
  <2>1. ReadTypes' /\ UNCHANGED active_readers
    BY DEF ReadInv, ReadTypes, ReadFinish, readVars
  <2> QED
    BY <2>1, ReadMove DEF ReadFinish, Enter, RdPlace, Admitted, Walking, Labels
<1> QED
  BY <1>2, <1>3, <1>4, <1>5

\* The counter TSF_STAT_FLUSH adds to next is one of the statistics.
LEMMA FlushedField ==
  ASSUME NEW t \in Threads, Unflushed(t) # {}
  PROVE  /\ Min(Unflushed(t)) \in Unflushed(t)
         /\ StatOrder[Min(Unflushed(t))] \in StatFields
<1>1. DOMAIN StatOrder = 1 .. 11 /\ \A i \in 1 .. 11 : StatOrder[i] \in StatFields
  BY DEF StatOrder, StatFields, Reasons, Aborts
<1>2. Unflushed(t) \in SUBSET (1 .. 11)
  BY <1>1 DEF Unflushed
<1>3. IsFiniteSet(Unflushed(t))
  BY <1>2, IntervalPart
<1>4. Min(Unflushed(t)) \in Unflushed(t)
  BY <1>2, <1>3, MinOf
<1> QED
  BY <1>1, <1>2, <1>4

LEMMA ReadFlushInv ==
  ASSUME DevInv, NEW t \in Threads, ReadFlush(t)
  PROVE  DevInv'
<1> USE DEF DevInv
<1> DEFINE k == StatOrder[Min(Unflushed(t))]
           b == [loc[t].batch EXCEPT ![k] = 0]
           r == [loc[t] EXCEPT !.batch = b]
<1>1. k \in StatFields
  BY FlushedField DEF ReadFlush
<1>2. /\ pc[t] = "flush" /\ loc[t] \in CallLocals /\ loc[t].fd \in Files /\ loc[t].old = 0
      /\ loc[t].batch \in [StatFields -> Nat] /\ stats \in [StatFields -> Nat]
  BY DEF ThreadInv, ReadInv, ReadTypes, ReadFlush, CallLocals
<1>3. /\ stats' = [stats EXCEPT ![k] = @ + loc[t].batch[k]]
      /\ loc' = [loc EXCEPT ![t] = r]
      /\ UNCHANGED <<envVars, openVars, sc, active_readers, reads_total, pc>>
  BY DEF ReadFlush
<1> HIDE DEF k
<1>4. EnvTypes' /\ FileInv'
  BY <1>3, EnvSame, FileSame
<1>5. ThreadInv'
  <2>1. b \in [StatFields -> Nat]
    BY <1>1, <1>2
  <2> HIDE DEF b
  <2>2. r \in CallLocals /\ r.fd \in Files /\ r.old = 0
    BY <1>2, <2>1 DEF CallLocals
  <2>3. Enter(t, "flush", r)
    BY <1>2, <1>3 DEF Enter, Goto, ThreadInv
  <2> HIDE DEF r
  <2> QED
    BY <2>2, <2>3, ThreadMove DEF Labels, Admitted
<1>6. ReadInv'
  <2>1. stats' \in [StatFields -> Nat]
    BY <1>1, <1>2, <1>3
  <2>2. ReadersCounted' = ReadersCounted
    BY <1>3 DEF ReadersCounted
  <2> QED
    BY <1>3, <2>1, <2>2 DEF ReadInv, ReadTypes
<1> QED
  BY <1>4, <1>5, <1>6

LEMMA ReadLeaveInv ==
  ASSUME DevInv, NEW t \in Threads, ReadLeave(t)
  PROVE  DevInv'
<1> USE DEF DevInv
<1>1. EnvTypes' /\ FileInv' /\ ThreadInv'
  BY EnvSame, FileSame, ThreadReturn DEF ReadLeave
<1>2. ReadInv'
  <2>1. ReadersCounted' = ReadersCounted \ {t} /\ t \in ReadersCounted
    BY DEF ThreadInv, ReadersCounted, ReadLeave, Return, Enter, Goto, RdPlace, Admitted, Walking
  <2>2. Cardinality(ReadersCounted') = Cardinality(ReadersCounted) - 1
          /\ Cardinality(ReadersCounted') \in Nat
    BY <2>1, FilesFinite, FS_RemoveElement, FS_CardinalityType
  <2> QED
    BY <2>2 DEF ReadInv, ReadTypes, ReadLeave
<1> QED
  BY <1>1, <1>2

---------------------------------------------------------------------------
(* ioctl().                                                                *)

LEMMA SetFilterCallInv ==
  ASSUME DevInv, NEW t \in Threads, NEW f \in Files, NEW flt \in Filters,
         SetFilterCall(t, f, flt)
  PROVE  DevInv'
<1> DEFINE r == [Locals(f, 0) EXCEPT !.filter = flt, !.todo = Differing]
<1>1. flt \in FilterRecords
  BY DevAssumption
<1>2. r \in CallLocals /\ r.fd \in Files /\ r.old = 0
  <2>1. Locals(f, 0) \in CallLocals /\ Locals(f, 0).fd = f /\ Locals(f, 0).old = 0
    BY LocalsTyped
  <2>2. Differing \in SUBSET Differing
    OBVIOUS
  <2> QED
    BY <1>1, <2>1, <2>2 DEF CallLocals
<1>3. Goto(t, "set_filter") /\ loc' = [loc EXCEPT ![t] = r] /\ UNCHANGED sharedVars
  BY DEF SetFilterCall, Enter
<1>4. RdPlace("set_filter") = "out" /\ RdPlace(pc[t]) = "out" /\ "set_filter" \in Labels
  BY DEF SetFilterCall, RdPlace, Admitted, Walking, Labels
<1> HIDE DEF r
<1> QED
  BY <1>2, <1>3, <1>4, LocalStep

\* What the history of disturbed verdicts leaves alone.
LEMMA DisturbedTyped ==
  ASSUME ThreadInv, NEW F, NEW S
  PROVE  /\ Disturbed(F, S) \in [Threads -> CallLocals]
         /\ \A t \in Threads : /\ Disturbed(F, S)[t].fd = loc[t].fd
                               /\ Disturbed(F, S)[t].old = loc[t].old
                               /\ Disturbed(F, S)[t].todo = loc[t].todo
<1> SUFFICES ASSUME NEW t \in Threads
             PROVE  LET r == [loc[t] EXCEPT !.stable = @ \ S]
                    IN  r \in CallLocals /\ r.fd = loc[t].fd /\ r.old = loc[t].old
                          /\ r.todo = loc[t].todo
  BY DEF ThreadInv, Disturbed
<1> QED
  BY ZenonT(40) DEF ThreadInv, CallLocals

LEMMA SetFilterCopyInv ==
  ASSUME DevInv, NEW t \in Threads, NEW k \in Differing, SetFilterCopy(t, k)
  PROVE  DevInv'
<1> USE DEF DevInv
<1> DEFINE f == loc[t].fd
           h == [sc[f].filter EXCEPT ![k] = loc[t].filter[k]]
           s == [sc[f] EXCEPT !.filter = h]
           d == Disturbed({f}, Generations)
<1>1. f \in Files /\ loc[t] \in CallLocals /\ sc[f] \in Softcs
  BY DEF ThreadInv, FileInv, SetFilterCopy
<1>2. EnvTypes'
  BY EnvSame DEF SetFilterCopy
<1>3. FileInv'
  <2>1. h \in FilterRecords
    <3>1. sc[f].filter \in FilterRecords /\ loc[t].filter \in FilterRecords
      BY <1>1 DEF Softcs, CallLocals
    <3>2. k \in {"flags", "state_mask", "local_ports", "remote_ports", "local", "remote"}
      BY DEF Differing, DefaultFilter
    <3> QED
      BY <3>1, <3>2 DEF FilterRecords
  <2>2. s \in Softcs /\ s.old = sc[f].old
    <3> HIDE DEF h
    <3> QED
      BY <1>1, <2>1 DEF Softcs
  <2>3. sc' = [sc EXCEPT ![f] = s]
    BY <1>1 DEF SetFilterCopy
  <2>4. UNCHANGED openVars /\ FilesCounted' = FilesCounted
    BY DEF SetFilterCopy, openVars, FilesCounted
  <2> HIDE DEF s
  <2> QED
    BY <1>1, <2>2, <2>3, <2>4 DEF FileInv, OpenTypes, openVars
<1>4. ThreadInv'
  <2>1. /\ d \in [Threads -> CallLocals]
        /\ \A u \in Threads : d[u].fd = loc[u].fd /\ d[u].old = loc[u].old
    BY DisturbedTyped
  <2>2. loc' = [d EXCEPT ![t].todo = @ \ {k}] /\ UNCHANGED pc
    BY DEF SetFilterCopy
  <2> HIDE DEF d
  <2>3. [d[t] EXCEPT !.todo = @ \ {k}] \in CallLocals
          /\ [d[t] EXCEPT !.todo = @ \ {k}].fd = d[t].fd
          /\ [d[t] EXCEPT !.todo = @ \ {k}].old = d[t].old
    BY <2>1, ZenonT(40) DEF CallLocals
  <2>4. loc' = [d EXCEPT ![t] = [d[t] EXCEPT !.todo = @ \ {k}]]
    BY <2>2
  <2> QED
    BY <2>1, <2>2, <2>3, <2>4 DEF ThreadInv
<1>5. ReadInv'
  BY ReadSame DEF SetFilterCopy
<1> QED
  BY <1>2, <1>3, <1>4, <1>5

LEMMA SetFilterReturnInv ==
  ASSUME DevInv, NEW t \in Threads, SetFilterReturn(t)
  PROVE  DevInv'
<1> USE DEF DevInv
<1>1. EnvTypes' /\ FileInv' /\ ThreadInv'
  BY EnvSame, FileSame, ThreadReturn DEF SetFilterReturn, sharedVars
<1>2. ReadTypes' /\ UNCHANGED active_readers
  BY DEF ReadInv, ReadTypes, SetFilterReturn, sharedVars, readVars
<1>3. ReadInv'
  BY <1>2, ReadMove DEF SetFilterReturn, Return, Enter, RdPlace, Admitted, Walking, Labels
<1> QED
  BY <1>1, <1>3

LEMMA ResetInv ==
  ASSUME DevInv, NEW t \in Threads, NEW f \in Files, Reset(t, f)
  PROVE  DevInv'
<1> USE DEF DevInv
<1> DEFINE s == [sc[f] EXCEPT !.done = FALSE, !.walks = 0]
<1>1. s \in Softcs /\ s.old = sc[f].old
  BY DEF FileInv, Softcs
<1>2. sc' = [sc EXCEPT ![f] = s] /\ UNCHANGED openVars /\ FilesCounted' = FilesCounted
  BY DEF Reset, openVars, FilesCounted
<1> HIDE DEF s
<1>3. FileInv'
  BY <1>1, <1>2 DEF FileInv, OpenTypes, openVars
<1> QED
  BY <1>3, EnvSame, ThreadSame, ReadSame DEF Reset

---------------------------------------------------------------------------
(* The environment.                                                        *)

LEMMA PcbAllocInv ==
  ASSUME DevInv, NEW k \in Kinds, PcbAlloc(k)
  PROVE  DevInv'
<1> USE DEF DevInv
<1>1. EnvTypes'
  BY DevAssumption DEF EnvTypes, Generations, PcbAlloc
<1> QED
  BY <1>1, FileSame, ThreadSame, ReadSame DEF PcbAlloc

\* The history of disturbed verdicts is no part of the invariant.
LEMMA ThreadDisturbed ==
  ASSUME ThreadInv, NEW F, NEW S, loc' = Disturbed(F, S), UNCHANGED pc
  PROVE  ThreadInv'
BY DisturbedTyped DEF ThreadInv

LEMMA PcbFreeInv ==
  ASSUME DevInv, NEW g \in Generations, PcbFree(g)
  PROVE  DevInv'
<1> USE DEF DevInv
<1>1. EnvTypes'
  BY DevAssumption DEF EnvTypes, Generations, PcbFree
<1>2. ThreadInv'
  BY ThreadDisturbed DEF PcbFree
<1> QED
  BY <1>1, <1>2, FileSame, ReadSame DEF PcbFree

LEMMA PcbChangeInv ==
  ASSUME DevInv, NEW g \in Generations, NEW k \in Kinds, PcbChange(g, k)
  PROVE  DevInv'
<1> USE DEF DevInv
<1>1. EnvTypes'
  BY DEF EnvTypes, PcbChange
<1>2. ThreadInv'
  BY ThreadDisturbed DEF PcbChange
<1> QED
  BY <1>1, <1>2, FileSame, ReadSame DEF PcbChange

LEMMA SetTunableInv ==
  ASSUME DevInv, NEW k \in TunableNames, NEW n \in TunableValues[k], SetTunable(k, n)
  PROVE  DevInv'
<1> USE DEF DevInv
<1>1. tunable' \in Settings
  BY DEF EnvTypes, Settings, SetTunable
<1>2. EnvTypes'
  BY <1>1 DEF EnvTypes, SetTunable
<1> QED
  BY <1>2, FileSame, ThreadSame, ReadSame DEF SetTunable

LEMMA TickInv ==
  ASSUME DevInv, Tick
  PROVE  DevInv'
<1> USE DEF DevInv
<1>1. EnvTypes'
  BY DEF EnvTypes, Tick
<1> QED
  BY <1>1, FileSame, ThreadSame, ReadSame DEF Tick

---------------------------------------------------------------------------
LEMMA NextInv == DevInv /\ [Next]_vars => DevInv'
<1> SUFFICES ASSUME DevInv, [Next]_vars PROVE DevInv'
  OBVIOUS
<1>1. ASSUME NEW t \in Threads, Call(t) PROVE DevInv'
  BY <1>1, OpenClaimInv, ReadCallInv, SetFilterCallInv, ResetInv DEF Call
<1>2. ASSUME NEW t \in Threads, OpenStep(t) PROVE DevInv'
  BY <1>2, OpenDecideInv, OpenUndoInv, OpenDoneInv DEF OpenStep
<1>3. ASSUME NEW t \in Threads, ReadStep(t) PROVE DevInv'
  BY <1>3, ReadEofInv, ReadClaimInv, ReadDecideInv, ReadThrottleInv, ReadStartInv,
     ReadSnapshotInv, LoopBreakInv, VisitAbortedInv, VisitSkipInv, VisitEmitInv,
     ReadFinishInv, ReadFlushInv, ReadLeaveInv DEF ReadStep
<1>4. ASSUME NEW t \in Threads, IoctlStep(t) PROVE DevInv'
  BY <1>4, SetFilterCopyInv, SetFilterReturnInv DEF IoctlStep
<1>5. ASSUME NEW f \in Files, Close(f) \/ Dtor(f) PROVE DevInv'
  BY <1>5, CloseInv, DtorInv
<1>6. ASSUME Environment PROVE DevInv'
  BY <1>6, PcbAllocInv, PcbFreeInv, PcbChangeInv, SetTunableInv, TickInv DEF Environment
<1>7. ASSUME UNCHANGED vars PROVE DevInv'
  BY <1>7, EnvSame, FileSame, ThreadSame, ReadSame DEF DevInv, vars
<1> QED
  BY <1>1, <1>2, <1>3, <1>4, <1>5, <1>6, <1>7 DEF Next, ThreadStep

LEMMA DevInvariant == Spec => []DevInv
<1> QED
  BY InitInv, NextInv, PTL DEF Spec

\* Every variable keeps its type, whatever the threads, files, filters and
\* bounds: in particular neither admission counter goes below zero.
THEOREM TypeCorrect == Spec => []TypeOK
<1> QED
  BY DevInvariant, DevInvTypes, PTL

---------------------------------------------------------------------------
(* tcpstats_active_fds.                                                    *)

LEMMA FdInit == Init => FdGate!GateInit
<1> SUFFICES ASSUME Init PROVE FdGate!GateInit
  OBVIOUS
<1>1. tunable["max_open_fds"] \in TunableValues["max_open_fds"]
  BY DEF Init, Settings, TunableNames
<1> QED
  BY <1>1, NoSoftcTyped DEF Init, FdGate!GateInit, FdPlace

\* A step that does not move a struct file between places.
LEMMA FdStutter ==
  ASSUME UNCHANGED active_fds,
         \A f \in Files : FdPlace(file'[f]) = FdPlace(file[f]) /\ sc'[f].old = sc[f].old,
         tunable'["max_open_fds"] = tunable["max_open_fds"]
  PROVE  UNCHANGED FdGate!gateVars
BY DEF FdGate!gateVars

LEMMA FdClaim ==
  ASSUME DevInv, NEW t \in Threads, NEW f \in Files, NEW c \in Creds, OpenClaim(t, f, c)
  PROVE  FdGate!Claim(f)
<1>1. NewSoftc(c, t, active_fds).old = active_fds
  BY NewSoftcTyped DEF DevInv, FileInv, OpenTypes
<1> QED
  BY <1>1 DEF DevInv, FileInv, OpenTypes, OpenClaim, envVars, FdGate!Claim, FdPlace

LEMMA FdDecide ==
  ASSUME DevInv, NEW t \in Threads, OpenDecide(t), NEW f \in Files, f = loc[t].fd
  PROVE  FdGate!Decide(f)
<1>1. sc[f] \in Softcs
  BY DEF DevInv, FileInv
<1>2. [sc[f] EXCEPT !.old = 0].old = 0
  BY <1>1 DEF Softcs
<1>3. sc' = [sc EXCEPT ![f] = [sc[f] EXCEPT !.old = 0]]
  BY <1>1 DEF OpenDecide
<1> QED
  BY <1>1, <1>2, <1>3
  DEF DevInv, FileInv, OpenTypes, OpenDecide, envVars, FdGate!Decide, FdPlace

LEMMA FdRelease ==
  ASSUME DevInv, NEW f \in Files, ReleaseFile(f), file[f] \in {"refused", "admitted", "closing"}
  PROVE  FdGate!Release(f)
<1>1. sc[f].old = 0
  BY DEF DevInv, FileInv
<1> QED
  BY <1>1, NoSoftcTyped
  DEF DevInv, FileInv, OpenTypes, ReleaseFile, envVars, FdGate!Release, FdPlace

\* The steps that store into a softc a file keeps leave its old alone.
LEMMA FdSoftcStores ==
  ASSUME DevInv, NEW t \in Threads,
         \/ ReadStart(t) \/ ReadFinish(t) \/ (\E k \in Differing : SetFilterCopy(t, k))
         \/ \E f \in Files : Reset(t, f)
  PROVE  UNCHANGED FdGate!gateVars
<1>1. UNCHANGED <<active_fds, file, tunable>>
  BY DEF ReadStart, ReadFinish, SetFilterCopy, Reset, envVars, openVars
<1>2. \A f \in Files : sc'[f].old = sc[f].old
  <2> SUFFICES ASSUME NEW f \in Files PROVE sc'[f].old = sc[f].old
    OBVIOUS
  <2>1. sc \in [Files -> Softcs]
    BY DEF DevInv, FileInv
  <2>2. CASE ReadStart(t)
    BY <2>1, <2>2 DEF ReadStart, Softcs
  <2>3. CASE ReadFinish(t)
    BY <2>1, <2>3 DEF ReadFinish, Softcs
  <2>4. ASSUME NEW k \in Differing, SetFilterCopy(t, k) PROVE sc'[f].old = sc[f].old
    BY <2>1, <2>4 DEF SetFilterCopy, Softcs
  <2>5. ASSUME NEW g \in Files, Reset(t, g) PROVE sc'[f].old = sc[f].old
    <3> DEFINE s == [sc[g] EXCEPT !.done = FALSE, !.walks = 0]
    <3>1. s.old = sc[g].old
      BY <2>1 DEF Softcs
    <3>2. sc' = [sc EXCEPT ![g] = s]
      BY <2>5 DEF Reset
    <3> HIDE DEF s
    <3> QED
      BY <2>1, <3>1, <3>2
  <2> QED
    BY <2>2, <2>3, <2>4, <2>5
<1> QED
  BY <1>1, <1>2, FdStutter

LEMMA FdSame == UNCHANGED <<openVars, sc, tunable>> => UNCHANGED FdGate!gateVars
BY FdStutter DEF openVars

LEMMA FdNext == DevInv /\ [Next]_vars => [FdGate!GateNext]_(FdGate!gateVars)
<1> SUFFICES ASSUME DevInv, [Next]_vars
             PROVE  FdGate!GateNext \/ UNCHANGED FdGate!gateVars
  BY DEF FdGate!gateVars
<1> USE DEF FdGate!GateNext
<1>1. ASSUME NEW t \in Threads, Call(t) PROVE FdGate!GateNext \/ UNCHANGED FdGate!gateVars
  <2>1. ASSUME NEW f \in Files, NEW c \in Creds, OpenClaim(t, f, c) PROVE FdGate!GateNext
    BY <2>1, FdClaim
  <2>2. ASSUME NEW f \in Files, NEW n \in BufSizes, ReadCall(t, f, n)
        PROVE  UNCHANGED FdGate!gateVars
    BY <2>2, FdSame DEF ReadCall, sharedVars, envVars
  <2>3. ASSUME NEW f \in Files, NEW flt \in Filters, SetFilterCall(t, f, flt)
        PROVE  UNCHANGED FdGate!gateVars
    BY <2>3, FdSame DEF SetFilterCall, sharedVars, envVars
  <2>4. ASSUME NEW f \in Files, Reset(t, f) PROVE UNCHANGED FdGate!gateVars
    BY <2>4, FdSoftcStores
  <2> QED
    BY <1>1, <2>1, <2>2, <2>3, <2>4 DEF Call
<1>2. ASSUME NEW t \in Threads, OpenStep(t) PROVE FdGate!GateNext \/ UNCHANGED FdGate!gateVars
  <2>1. CASE OpenDecide(t)
    <3>1. PICK f \in Files : f = loc[t].fd
      BY <2>1 DEF OpenDecide, DevInv, ThreadInv
    <3>2. FdGate!Decide(f)
      BY <2>1, <3>1, FdDecide
    <3> QED
      BY <3>2
  <2>2. CASE OpenUndo(t)
    BY <2>2, FdRelease DEF OpenUndo, DevInv, ThreadInv
  <2>3. CASE OpenDone(t)
    BY <2>3, FdStutter DEF OpenDone, envVars, DevInv, FileInv, OpenTypes, FdPlace
  <2> QED
    BY <1>2, <2>1, <2>2, <2>3 DEF OpenStep
<1>3. ASSUME NEW t \in Threads, ReadStep(t) PROVE UNCHANGED FdGate!gateVars
  <2>1. CASE ReadStart(t) \/ ReadFinish(t)
    BY <2>1, FdSoftcStores
  <2>2. CASE ReadClaim(t) \/ ReadFlush(t) \/ ReadLeave(t)
    BY <2>2, FdSame DEF ReadClaim, ReadFlush, ReadLeave, envVars
  <2>3. CASE ReadEof(t) \/ ReadDecide(t) \/ ReadThrottle(t) \/ ReadSnapshot(t)
               \/ LoopBreak(t) \/ VisitSkip(t) \/ VisitEmit(t)
    BY <2>3, FdSame DEF ReadEof, ReadDecide, ReadThrottle, ReadSnapshot, LoopBreak,
                        VisitSkip, VisitEmit, sharedVars, envVars
  <2>4. ASSUME NEW why \in Aborts, VisitAborted(t, why) PROVE UNCHANGED FdGate!gateVars
    BY <2>4, FdSame DEF VisitAborted, sharedVars, envVars
  <2> QED
    BY <1>3, <2>1, <2>2, <2>3, <2>4 DEF ReadStep
<1>4. ASSUME NEW t \in Threads, IoctlStep(t) PROVE UNCHANGED FdGate!gateVars
  <2>1. CASE SetFilterReturn(t)
    BY <2>1, FdSame DEF SetFilterReturn, sharedVars, envVars
  <2> QED
    BY <1>4, <2>1, FdSoftcStores DEF IoctlStep
<1>5. ASSUME NEW f \in Files, Close(f) \/ Dtor(f)
      PROVE  FdGate!GateNext \/ UNCHANGED FdGate!gateVars
  <2>1. CASE Close(f)
    BY <2>1, FdStutter DEF Close, envVars, DevInv, FileInv, OpenTypes, FdPlace
  <2>2. CASE Dtor(f)
    BY <2>2, FdRelease DEF Dtor
  <2> QED
    BY <1>5, <2>1, <2>2
<1>6. ASSUME Environment PROVE FdGate!GateNext \/ UNCHANGED FdGate!gateVars
  <2>1. ASSUME NEW k \in TunableNames, NEW n \in TunableValues[k], SetTunable(k, n)
        PROVE  FdGate!GateNext \/ UNCHANGED FdGate!gateVars
    <3>1. tunable \in [TunableNames -> UNION {TunableValues[j] : j \in TunableNames}]
      BY DEF DevInv, EnvTypes, Settings
    <3>2. UNCHANGED <<openVars, sc>> /\ tunable' = [tunable EXCEPT ![k] = n]
      BY <2>1 DEF SetTunable
    <3>3. CASE k = "max_open_fds"
      <4>1. tunable'["max_open_fds"] = n /\ n \in TunableValues["max_open_fds"]
        BY <3>1, <3>2, <3>3
      <4>2. FdGate!SetLimit(n)
        BY <3>2, <4>1 DEF FdGate!SetLimit, openVars
      <4> QED
        BY <4>1, <4>2
    <3>4. CASE k # "max_open_fds"
      BY <3>1, <3>2, <3>4, FdStutter DEF openVars, TunableNames
    <3> QED
      BY <3>3, <3>4
  <2>2. CASE Tick \/ (\E k \in Kinds : PcbAlloc(k)) \/ (\E g \in Generations : PcbFree(g))
               \/ (\E g \in Generations, k \in Kinds : PcbChange(g, k))
    BY <2>2, FdSame DEF Tick, PcbAlloc, PcbFree, PcbChange
  <2> QED
    BY <1>6, <2>1, <2>2 DEF Environment
<1>7. CASE UNCHANGED vars
  BY <1>7, FdSame DEF vars, envVars
<1> QED
  BY <1>1, <1>2, <1>3, <1>4, <1>5, <1>6, <1>7 DEF Next, ThreadStep

\* open(), its refusals and failures, close() and the destructor add to and
\* subtract from tcpstats_active_fds exactly as the admission gate does.  With
\* GateInWithinLimit: no more files are open than the largest max_open_fds.
THEOREM FdsAreGated == Spec => FdGateSpec
<1>1. DevInv /\ DevInv' /\ [Next]_vars => [FdGate!GateNext]_(FdGate!gateVars)
  BY FdNext
<1> QED
  BY <1>1, FdInit, DevInvariant, PTL DEF Spec, FdGateSpec, FdGate!GateSpec

---------------------------------------------------------------------------
(* tcpstats_active_readers.                                                *)

LEMMA RdInit == Init => ReaderGate!GateInit
<1> SUFFICES ASSUME Init PROVE ReaderGate!GateInit
  OBVIOUS
<1>1. tunable["max_concurrent_readers"] \in TunableValues["max_concurrent_readers"]
  BY DEF Init, Settings, TunableNames
<1> QED
  BY <1>1, AtRestTyped DEF Init, ReaderGate!GateInit, RdPlace, Admitted, Walking

\* A step that does not move a thread between places.
LEMMA RdStutter ==
  ASSUME UNCHANGED active_readers,
         \A t \in Threads : RdPlace(pc'[t]) = RdPlace(pc[t]) /\ loc'[t].old = loc[t].old,
         tunable'["max_concurrent_readers"] = tunable["max_concurrent_readers"]
  PROVE  UNCHANGED ReaderGate!gateVars
BY DEF ReaderGate!gateVars

\* Thread t enters, goes on in, or leaves a call without changing its place.
LEMMA RdMove ==
  ASSUME DevInv, NEW t \in Threads, NEW l \in Labels, NEW r \in CallLocals, Enter(t, l, r),
         r.old = loc[t].old, RdPlace(l) = RdPlace(pc[t]), UNCHANGED <<active_readers, tunable>>
  PROVE  UNCHANGED ReaderGate!gateVars
<1>1. \A u \in Threads : RdPlace(pc'[u]) = RdPlace(pc[u]) /\ loc'[u].old = loc[u].old
  BY DEF DevInv, ThreadInv, Enter, Goto
<1> QED
  BY <1>1, RdStutter

LEMMA RdSame == UNCHANGED <<active_readers, pc, loc, tunable>> => UNCHANGED ReaderGate!gateVars
BY RdStutter

LEMMA RdClaim ==
  ASSUME DevInv, NEW t \in Threads, ReadClaim(t)
  PROVE  ReaderGate!Claim(t)
<1> DEFINE r == [loc[t] EXCEPT !.old = active_readers]
<1>1. r.old = active_readers
  BY DEF DevInv, ThreadInv, CallLocals
<1>2. loc' = [loc EXCEPT ![t] = r]
  BY DEF ReadClaim
<1> HIDE DEF r
<1> QED
  BY <1>1, <1>2 DEF DevInv, ThreadInv, ReadClaim, Goto, envVars,
     ReaderGate!Claim, RdPlace, Admitted, Walking

LEMMA RdDecide ==
  ASSUME DevInv, NEW t \in Threads, ReadDecide(t)
  PROVE  ReaderGate!Decide(t)
<1> DEFINE r == [loc[t] EXCEPT !.old = 0]
<1>1. r.old = 0
  BY DEF DevInv, ThreadInv, CallLocals
<1>2. loc' = [loc EXCEPT ![t] = r]
  BY DEF ReadDecide
<1> HIDE DEF r
<1> QED
  BY <1>1, <1>2 DEF DevInv, ThreadInv, ReadDecide, Goto, sharedVars, envVars, readVars,
     ReaderGate!Decide, RdPlace, Admitted, Walking

LEMMA RdRelease ==
  ASSUME DevInv, NEW t \in Threads, ReadLeave(t)
  PROVE  ReaderGate!Release(t)
<1>1. loc[t].old = 0
  BY DEF DevInv, ThreadInv, ReadLeave
<1> QED
  BY <1>1, AtRestTyped DEF DevInv, ThreadInv, ReadLeave, Return, Enter, Goto, envVars,
     ReaderGate!Release, RdPlace, Admitted, Walking

LEMMA RdOpenSteps ==
  ASSUME DevInv, NEW t \in Threads, OpenStep(t)
  PROVE  UNCHANGED ReaderGate!gateVars
<1>1. CASE OpenDecide(t)
  BY <1>1, RdSame DEF OpenDecide, envVars, readVars
<1>2. CASE OpenUndo(t) \/ OpenDone(t)
  <2>1. /\ Enter(t, "idle", AtRest) /\ UNCHANGED <<active_readers, tunable>>
        /\ loc[t].old = 0 /\ RdPlace("idle") = RdPlace(pc[t])
    BY <1>2 DEF OpenUndo, OpenDone, ReleaseFile, Return, envVars, readVars, DevInv, ThreadInv,
                RdPlace, Admitted, Walking
  <2> QED
    BY <2>1, AtRestTyped, RdMove DEF Labels
<1> QED
  BY <1>1, <1>2 DEF OpenStep

LEMMA RdIoctlSteps ==
  ASSUME DevInv, NEW t \in Threads, IoctlStep(t)
  PROVE  UNCHANGED ReaderGate!gateVars
<1>1. ASSUME NEW k \in Differing, SetFilterCopy(t, k) PROVE UNCHANGED ReaderGate!gateVars
  <2> DEFINE d == Disturbed({loc[t].fd}, Generations)
  <2>1. d \in [Threads -> CallLocals] /\ \A u \in Threads : d[u].old = loc[u].old
    BY DisturbedTyped DEF DevInv
  <2>2. loc' = [d EXCEPT ![t].todo = @ \ {k}]
    BY <1>1 DEF SetFilterCopy
  <2> HIDE DEF d
  <2>3. [d[t] EXCEPT !.todo = @ \ {k}].old = d[t].old
    BY <2>1 DEF CallLocals
  <2>4. loc' = [d EXCEPT ![t] = [d[t] EXCEPT !.todo = @ \ {k}]]
    BY <2>2
  <2>5. \A u \in Threads : loc'[u].old = loc[u].old
    BY <2>1, <2>3, <2>4
  <2> QED
    BY <1>1, <2>5, RdStutter DEF SetFilterCopy, envVars, readVars
<1>2. CASE SetFilterReturn(t)
  <2>1. /\ Enter(t, "idle", AtRest) /\ UNCHANGED <<active_readers, tunable>>
        /\ loc[t].old = 0 /\ RdPlace("idle") = RdPlace(pc[t])
    BY <1>2 DEF SetFilterReturn, Return, sharedVars, envVars, readVars, DevInv, ThreadInv,
                RdPlace, Admitted, Walking
  <2> QED
    BY <2>1, AtRestTyped, RdMove DEF Labels
<1> QED
  BY <1>1, <1>2 DEF IoctlStep

LEMMA RdCalls ==
  ASSUME DevInv, NEW t \in Threads, Call(t)
  PROVE  UNCHANGED ReaderGate!gateVars
<1>1. pc[t] = "idle" => loc[t].old = 0 /\ RdPlace(pc[t]) = "out"
  BY DEF DevInv, ThreadInv, RdPlace, Admitted, Walking
<1>2. RdPlace("open") = "out" /\ RdPlace("read_eof") = "out" /\ RdPlace("read_checked") = "out"
        /\ RdPlace("set_filter") = "out"
  BY DEF RdPlace, Admitted, Walking
<1>3. ASSUME NEW f \in Files, NEW c \in Creds, OpenClaim(t, f, c)
      PROVE  UNCHANGED ReaderGate!gateVars
  <2>1. Enter(t, "open", Locals(f, 0)) /\ UNCHANGED <<active_readers, tunable>> /\ pc[t] = "idle"
    BY <1>3 DEF OpenClaim, envVars, readVars
  <2> QED
    BY <1>1, <1>2, <2>1, LocalsTyped, RdMove DEF Labels
<1>4. ASSUME NEW f \in Files, NEW n \in BufSizes, ReadCall(t, f, n)
      PROVE  UNCHANGED ReaderGate!gateVars
  <2>1. n \in Nat
    BY DevAssumption
  <2>2. PICK l \in {"read_eof", "read_checked"} :
          Enter(t, l, Locals(f, n)) /\ UNCHANGED <<active_readers, tunable>> /\ pc[t] = "idle"
    BY <1>4 DEF ReadCall, sharedVars, envVars, readVars
  <2> QED
    BY <1>1, <1>2, <2>1, <2>2, LocalsTyped, RdMove DEF Labels
<1>5. ASSUME NEW f \in Files, NEW flt \in Filters, SetFilterCall(t, f, flt)
      PROVE  UNCHANGED ReaderGate!gateVars
  <2> DEFINE r == [Locals(f, 0) EXCEPT !.filter = flt, !.todo = Differing]
  <2>1. Enter(t, "set_filter", r) /\ UNCHANGED <<active_readers, tunable>> /\ pc[t] = "idle"
    BY <1>5 DEF SetFilterCall, sharedVars, envVars, readVars
  <2>2. r \in CallLocals /\ r.old = 0
    <3>1. /\ Locals(f, 0) \in CallLocals /\ Locals(f, 0).old = 0
          /\ Differing \in SUBSET Differing /\ flt \in FilterRecords
      BY LocalsTyped, DevAssumption
    <3> QED
      BY <3>1 DEF CallLocals
  <2> HIDE DEF r
  <2> QED
    BY <1>1, <1>2, <2>1, <2>2, RdMove DEF Labels
<1>6. ASSUME NEW f \in Files, Reset(t, f) PROVE UNCHANGED ReaderGate!gateVars
  BY <1>6, RdSame DEF Reset, envVars, readVars
<1> QED
  BY <1>3, <1>4, <1>5, <1>6 DEF Call

\* Throttle, start and snapshot keep an admitted reader admitted.
LEMMA RdStartSteps ==
  ASSUME DevInv, NEW t \in Threads, ReadThrottle(t) \/ ReadStart(t) \/ ReadSnapshot(t)
  PROVE  UNCHANGED ReaderGate!gateVars
<1>1. loc \in [Threads -> CallLocals] /\ pc \in [Threads -> Labels]
  BY DEF DevInv, ThreadInv
<1>2. \A u \in Threads : loc'[u].old = loc[u].old
  <2>1. CASE ReadThrottle(t)
    BY <1>1, <2>1 DEF ReadThrottle, CallLocals
  <2>2. CASE ReadStart(t)
    BY <1>1, <2>2 DEF ReadStart, CallLocals
  <2>3. CASE ReadSnapshot(t)
    BY <1>1, <2>3 DEF ReadSnapshot, CallLocals
  <2> QED
    BY <2>1, <2>2, <2>3
<1>3. \A u \in Threads : RdPlace(pc'[u]) = RdPlace(pc[u])
  BY <1>1 DEF ReadThrottle, ReadStart, ReadSnapshot, Goto, RdPlace, Admitted, Walking
<1>4. UNCHANGED <<active_readers, tunable>>
  BY DEF ReadThrottle, ReadStart, ReadSnapshot, sharedVars, envVars, readVars
<1> QED
  BY <1>2, <1>3, <1>4, RdStutter

\* So does the walk.
LEMMA RdWalkSteps ==
  ASSUME DevInv, NEW t \in Threads,
         LoopBreak(t) \/ VisitSkip(t) \/ VisitEmit(t) \/ \E why \in Aborts : VisitAborted(t, why)
  PROVE  UNCHANGED ReaderGate!gateVars
<1>1. loc \in [Threads -> CallLocals] /\ pc \in [Threads -> Labels] /\ pc[t] = "reading"
  BY DEF DevInv, ThreadInv, LoopBreak, VisitSkip, VisitEmit, VisitAborted, Examining, Visiting
<1>2. \A u \in Threads : loc'[u].old = loc[u].old
  <2>1. CASE LoopBreak(t)
    BY <1>1, <2>1, ZenonT(40) DEF LoopBreak, CallLocals
  <2>2. CASE VisitSkip(t)
    BY <1>1, <2>2, ZenonT(40) DEF VisitSkip, CallLocals
  <2>3. CASE VisitEmit(t)
    BY <1>1, <2>3, ZenonT(40) DEF VisitEmit, CallLocals
  <2>4. ASSUME NEW why \in Aborts, VisitAborted(t, why)
        PROVE  \A u \in Threads : loc'[u].old = loc[u].old
    <3> DEFINE r == [loc[t] EXCEPT !.batch = Counted(t, why), !.end = why]
    <3>1. r.old = loc[t].old
      BY <1>1 DEF CallLocals
    <3>2. loc' = [loc EXCEPT ![t] = r]
      BY <2>4 DEF VisitAborted
    <3> HIDE DEF r
    <3> QED
      BY <1>1, <3>1, <3>2
  <2> QED
    BY <2>1, <2>2, <2>3, <2>4
<1>3. \A u \in Threads : RdPlace(pc'[u]) = RdPlace(pc[u])
  BY <1>1 DEF LoopBreak, VisitSkip, VisitEmit, VisitAborted, Goto, RdPlace, Admitted, Walking
<1>4. UNCHANGED <<active_readers, tunable>>
  BY DEF LoopBreak, VisitSkip, VisitEmit, VisitAborted, sharedVars, envVars, readVars
<1> QED
  BY <1>2, <1>3, <1>4, RdStutter

\* And the end of the read, up to the subtraction.
LEMMA RdEndSteps ==
  ASSUME DevInv, NEW t \in Threads, ReadFinish(t) \/ ReadFlush(t)
  PROVE  UNCHANGED ReaderGate!gateVars
<1>1. /\ loc \in [Threads -> CallLocals] /\ pc \in [Threads -> Labels]
      /\ loc[t].fd \in Files /\ loc[t].old = 0
  BY DEF DevInv, ThreadInv, ReadFinish, ReadFlush
<1>2. \A u \in Threads : loc'[u].old = loc[u].old
  <2>1. CASE ReadFinish(t)
    <3> DEFINE r == [Locals(loc[t].fd, 0) EXCEPT !.batch = loc[t].batch]
    <3>1. r.old = 0
      BY <1>1, LocalsTyped DEF CallLocals
    <3>2. loc' = [loc EXCEPT ![t] = r]
      BY <2>1 DEF ReadFinish, Enter
    <3> HIDE DEF r
    <3> QED
      BY <1>1, <3>1, <3>2
  <2>2. CASE ReadFlush(t)
    BY <1>1, <2>2 DEF ReadFlush, CallLocals
  <2> QED
    BY <2>1, <2>2
<1>3. \A u \in Threads : RdPlace(pc'[u]) = RdPlace(pc[u])
  BY <1>1 DEF ReadFinish, ReadFlush, Enter, Goto, RdPlace, Admitted, Walking
<1>4. UNCHANGED <<active_readers, tunable>>
  BY DEF ReadFinish, ReadFlush, envVars, readVars
<1> QED
  BY <1>2, <1>3, <1>4, RdStutter

LEMMA RdReadEof ==
  ASSUME DevInv, NEW t \in Threads, ReadEof(t)
  PROVE  UNCHANGED ReaderGate!gateVars
<1>1. /\ Enter(t, "idle", AtRest) /\ UNCHANGED <<active_readers, tunable>>
      /\ loc[t].old = 0 /\ RdPlace("idle") = RdPlace(pc[t])
  BY DEF ReadEof, Return, sharedVars, envVars, readVars, DevInv, ThreadInv,
         RdPlace, Admitted, Walking
<1> QED
  BY <1>1, AtRestTyped, RdMove DEF Labels

LEMMA RdEnvironment ==
  ASSUME DevInv, Environment
  PROVE  ReaderGate!GateNext \/ UNCHANGED ReaderGate!gateVars
<1>1. ASSUME NEW k \in TunableNames, NEW n \in TunableValues[k], SetTunable(k, n)
      PROVE  ReaderGate!GateNext \/ UNCHANGED ReaderGate!gateVars
  <2>1. tunable \in [TunableNames -> UNION {TunableValues[j] : j \in TunableNames}]
    BY DEF DevInv, EnvTypes, Settings
  <2>2. UNCHANGED <<readVars, pc, loc>> /\ tunable' = [tunable EXCEPT ![k] = n]
    BY <1>1 DEF SetTunable
  <2>3. CASE k = "max_concurrent_readers"
    <3>1. tunable'["max_concurrent_readers"] = n /\ n \in TunableValues["max_concurrent_readers"]
      BY <2>1, <2>2, <2>3
    <3>2. ReaderGate!SetLimit(n)
      BY <2>2, <3>1 DEF ReaderGate!SetLimit, readVars
    <3> QED
      BY <3>1, <3>2 DEF ReaderGate!GateNext
  <2>4. CASE k # "max_concurrent_readers"
    BY <2>1, <2>2, <2>4, RdStutter DEF readVars, TunableNames
  <2> QED
    BY <2>3, <2>4
<1>2. CASE Tick \/ \E k \in Kinds : PcbAlloc(k)
  BY <1>2, RdSame DEF Tick, PcbAlloc, readVars
<1>3. ASSUME NEW g \in Generations, PcbFree(g) \/ \E k \in Kinds : PcbChange(g, k)
      PROVE  UNCHANGED ReaderGate!gateVars
  <2>1. loc' = Disturbed(Files, {g}) /\ UNCHANGED <<readVars, pc, tunable>>
    BY <1>3 DEF PcbFree, PcbChange
  <2>2. \A u \in Threads : loc'[u].old = loc[u].old
    BY <2>1, DisturbedTyped DEF DevInv
  <2> QED
    BY <2>1, <2>2, RdStutter DEF readVars
<1> QED
  BY <1>1, <1>2, <1>3 DEF Environment

LEMMA RdNext == DevInv /\ [Next]_vars => [ReaderGate!GateNext]_(ReaderGate!gateVars)
<1> SUFFICES ASSUME DevInv, [Next]_vars
             PROVE  ReaderGate!GateNext \/ UNCHANGED ReaderGate!gateVars
  BY DEF ReaderGate!gateVars
<1>1. ASSUME NEW t \in Threads, ReadStep(t)
      PROVE  ReaderGate!GateNext \/ UNCHANGED ReaderGate!gateVars
  <2>1. CASE ReadClaim(t) \/ ReadDecide(t) \/ ReadLeave(t)
    BY <2>1, RdClaim, RdDecide, RdRelease DEF ReaderGate!GateNext
  <2> QED
    BY <1>1, <2>1, RdReadEof, RdStartSteps, RdWalkSteps, RdEndSteps DEF ReadStep
<1>2. ASSUME NEW f \in Files, Close(f) \/ Dtor(f) PROVE UNCHANGED ReaderGate!gateVars
  BY <1>2, RdSame DEF Close, Dtor, ReleaseFile, envVars, readVars
<1>3. CASE UNCHANGED vars
  BY <1>3, RdSame DEF vars, envVars, readVars
<1> QED
  BY <1>1, <1>2, <1>3, RdCalls, RdOpenSteps, RdIoctlSteps, RdEnvironment DEF Next, ThreadStep

\* read() adds to and subtracts from tcpstats_active_readers exactly as the
\* admission gate does, on every way out of the loop.  With GateInWithinLimit:
\* no more reads run than the largest max_concurrent_readers.
THEOREM ReadersAreGated == Spec => ReaderGateSpec
<1>1. DevInv /\ DevInv' /\ [Next]_vars => [ReaderGate!GateNext]_(ReaderGate!gateVars)
  BY RdNext
<1> QED
  BY <1>1, RdInit, DevInvariant, PTL DEF Spec, ReaderGateSpec, ReaderGate!GateSpec

---------------------------------------------------------------------------
(* What the two refinements buy: the bound of the gate holds of the device. *)

FdGateFacts == INSTANCE AdmissionGateProofs WITH
  Clients <- Files,  Limits <- TunableValues["max_open_fds"],
  count <- active_fds,  st <- [f \in Files |-> FdPlace(file[f])],
  old <- [f \in Files |-> sc[f].old],  limit <- tunable["max_open_fds"]

LEMMA FdGateAssumed == FdGateFacts!GateAssumption
<1>1. FdGateFacts!IsFiniteSet(Files)
  BY DevAssumption DEF IsFiniteSet, FdGateFacts!IsFiniteSet
<1> QED
  BY <1>1, DevAssumption DEF FdGateFacts!GateAssumption, TunableNames

\* FdGate is an instance of the gate alone, FdGateFacts of the gate and its
\* theorems: the two name the same initial states and the same steps.
LEMMA FdGateInit == FdGateFacts!GateInit <=> FdGate!GateInit
BY DEF FdGateFacts!GateInit, FdGate!GateInit

LEMMA FdGateNext ==
  [FdGateFacts!GateNext]_(FdGateFacts!gateVars) <=> [FdGate!GateNext]_(FdGate!gateVars)
BY DEF FdGateFacts!gateVars, FdGate!gateVars, FdGateFacts!GateNext, FdGate!GateNext,
       FdGateFacts!Claim, FdGate!Claim, FdGateFacts!Decide, FdGate!Decide,
       FdGateFacts!Release, FdGate!Release, FdGateFacts!SetLimit, FdGate!SetLimit

\* However opens, failures in the middle of open, closes, destructors and
\* writes of dev.tcpstats.max_open_fds interleave, no more files have got past
\* the test in tcpstats_open and are not yet destroyed than the largest value
\* the sysctl was given.
THEOREM FdsWithinLimit == Spec => []FdGate!InWithinLimit
<1>1. FdGateFacts!GateSpec => []FdGateFacts!InWithinLimit
  BY FdGateAssumed, FdGateFacts!GateInWithinLimit
<1>2. FdGateFacts!InWithinLimit <=> FdGate!InWithinLimit
  <2>1. \A S : FdGateFacts!Cardinality(S) = FdGate!Cardinality(S)
    BY DEF FdGateFacts!Cardinality, FdGate!Cardinality
  <2> QED
    BY <2>1 DEF FdGateFacts!InWithinLimit, FdGate!InWithinLimit,
                FdGateFacts!In, FdGate!In, FdGateFacts!MaxLimit, FdGate!MaxLimit
<1>3. FdGateSpec => FdGateFacts!GateSpec
  BY FdGateInit, FdGateNext, PTL DEF FdGateSpec, FdGate!GateSpec, FdGateFacts!GateSpec
<1> QED
  BY <1>1, <1>2, <1>3, FdsAreGated, PTL

RdGateFacts == INSTANCE AdmissionGateProofs WITH
  Clients <- Threads,  Limits <- TunableValues["max_concurrent_readers"],
  count <- active_readers,  st <- [t \in Threads |-> RdPlace(pc[t])],
  old <- [t \in Threads |-> loc[t].old],  limit <- tunable["max_concurrent_readers"]

LEMMA RdGateAssumed == RdGateFacts!GateAssumption
<1>1. RdGateFacts!IsFiniteSet(Threads)
  BY DevAssumption DEF IsFiniteSet, RdGateFacts!IsFiniteSet
<1> QED
  BY <1>1, DevAssumption DEF RdGateFacts!GateAssumption, TunableNames

\* ReaderGate is an instance of the gate alone, RdGateFacts of the gate and its
\* theorems: the two name the same initial states and the same steps.
LEMMA RdGateInit == RdGateFacts!GateInit <=> ReaderGate!GateInit
BY DEF RdGateFacts!GateInit, ReaderGate!GateInit

LEMMA RdGateNext ==
  [RdGateFacts!GateNext]_(RdGateFacts!gateVars) <=> [ReaderGate!GateNext]_(ReaderGate!gateVars)
BY DEF RdGateFacts!gateVars, ReaderGate!gateVars, RdGateFacts!GateNext, ReaderGate!GateNext,
       RdGateFacts!Claim, ReaderGate!Claim, RdGateFacts!Decide, ReaderGate!Decide,
       RdGateFacts!Release, ReaderGate!Release, RdGateFacts!SetLimit, ReaderGate!SetLimit

\* However reads, refused reads, throttled reads, interrupted walks and writes
\* of dev.tcpstats.max_concurrent_readers interleave, no more threads are
\* inside the read path behind the gate than the largest value the sysctl was
\* given.
THEOREM ReadersWithinLimit == Spec => []ReaderGate!InWithinLimit
<1>1. RdGateFacts!GateSpec => []RdGateFacts!InWithinLimit
  BY RdGateAssumed, RdGateFacts!GateInWithinLimit
<1>2. RdGateFacts!InWithinLimit <=> ReaderGate!InWithinLimit
  <2>1. \A S : RdGateFacts!Cardinality(S) = ReaderGate!Cardinality(S)
    BY DEF RdGateFacts!Cardinality, ReaderGate!Cardinality
  <2> QED
    BY <2>1 DEF RdGateFacts!InWithinLimit, ReaderGate!InWithinLimit,
                RdGateFacts!In, ReaderGate!In, RdGateFacts!MaxLimit, ReaderGate!MaxLimit
<1>3. ReaderGateSpec => RdGateFacts!GateSpec
  BY RdGateInit, RdGateNext, PTL DEF ReaderGateSpec, ReaderGate!GateSpec, RdGateFacts!GateSpec
<1> QED
  BY <1>1, <1>2, <1>3, ReadersAreGated, PTL


---------------------------------------------------------------------------
(* The locals of one thread.                                               *)

\* A read that has not reached its loop.
BeforeWalk == {"read_checked", "read_claiming", "read_admitted", "read_start",
               "read_snapshot"}

Descending(out) == \A i, j \in DOMAIN out : i < j => out[i] > out[j]

BatchOK(r) == /\ Balanced(r.batch)
              /\ r.batch["emitted"] = Len(r.out)
              /\ Aborted(r.batch) = IF r.end \in Aborts THEN 1 ELSE 0

OrderOK(r) == /\ \A i \in DOMAIN r.out : r.pos <= r.out[i] /\ r.out[i] <= r.gencnt
              /\ Descending(r.out)

\* What the locals r of a thread at label l satisfy.
WalkOK(l, r) ==
  /\ l \notin Walking => r.out = <<>>
  /\ l \in BeforeWalk => r.batch = ZeroStats
  /\ l \in BeforeWalk \cup {"reading"} => r.end = "none"
  /\ l \in Walking => BatchOK(r) /\ OrderOK(r)

WalkInv == \A t \in Threads : WalkOK(pc[t], loc[t])

LEMMA WalkMove ==
  ASSUME WalkInv, ThreadInv, NEW t \in Threads, NEW l, NEW r, WalkOK(l, r), Enter(t, l, r)
  PROVE  WalkInv'
BY DEF WalkInv, ThreadInv, Enter, Goto

LEMMA WalkSame == WalkInv /\ UNCHANGED <<pc, loc>> => WalkInv'
BY DEF WalkInv

\* Steps that change none of the locals WalkOK is about.
LEMMA WalkSilent ==
  ASSUME WalkInv, UNCHANGED pc,
         \A u \in Threads : /\ loc'[u].out = loc[u].out /\ loc'[u].batch = loc[u].batch
                            /\ loc'[u].end = loc[u].end /\ loc'[u].pos = loc[u].pos
                            /\ loc'[u].gencnt = loc[u].gencnt
  PROVE  WalkInv'
BY DEF WalkInv, WalkOK, BatchOK, OrderOK

\* Locals outside a walk, and locals at the beginning of a read.
LEMMA FreshLocals ==
  ASSUME NEW f, NEW n, NEW l
  PROVE  /\ Locals(f, n).out = <<>> /\ Locals(f, n).batch = ZeroStats
         /\ Locals(f, n).end = "none"
         /\ l \notin Walking => WalkOK(l, Locals(f, n))
BY DEF Locals, WalkOK, BeforeWalk, Walking

LEMMA WalkReturn ==
  ASSUME WalkInv, ThreadInv, NEW t \in Threads, Return(t)
  PROVE  WalkInv'
<1>1. WalkOK("idle", AtRest)
  BY FreshLocals DEF AtRest, Walking
<1> QED
  BY <1>1, WalkMove DEF Return

LEMMA WalkInit == Init => WalkInv
<1> SUFFICES ASSUME Init, NEW t \in Threads PROVE WalkOK(pc[t], loc[t])
  BY DEF WalkInv
<1>1. WalkOK("idle", AtRest)
  BY FreshLocals DEF AtRest, Walking
<1> QED
  BY <1>1 DEF Init

---------------------------------------------------------------------------
(* The steps outside the loop.                                             *)

LEMMA WalkCall ==
  ASSUME WalkInv, DevInv, NEW t \in Threads, Call(t)
  PROVE  WalkInv'
<1> USE DEF DevInv
<1>1. ASSUME NEW f \in Files, NEW c \in Creds, OpenClaim(t, f, c) PROVE WalkInv'
  <2>1. WalkOK("open", Locals(f, 0))
    BY FreshLocals DEF Walking
  <2> QED
    BY <1>1, <2>1, WalkMove DEF OpenClaim
<1>2. ASSUME NEW f \in Files, NEW n \in BufSizes, ReadCall(t, f, n) PROVE WalkInv'
  <2>1. WalkOK("read_eof", Locals(f, n)) /\ WalkOK("read_checked", Locals(f, n))
    BY FreshLocals DEF Walking
  <2> QED
    BY <1>2, <2>1, WalkMove DEF ReadCall
<1>3. ASSUME NEW f \in Files, NEW flt \in Filters, SetFilterCall(t, f, flt) PROVE WalkInv'
  <2> DEFINE r == [Locals(f, 0) EXCEPT !.filter = flt, !.todo = Differing]
  <2>1. r.out = <<>>
    BY DEF Locals
  <2>2. WalkOK("set_filter", r)
    BY <2>1 DEF WalkOK, Walking, BeforeWalk
  <2> QED
    BY <1>3, <2>2, WalkMove DEF SetFilterCall
<1>4. ASSUME NEW f \in Files, Reset(t, f) PROVE WalkInv'
  BY <1>4, WalkSame DEF Reset
<1> QED
  BY <1>1, <1>2, <1>3, <1>4 DEF Call

LEMMA WalkOpenStep ==
  ASSUME WalkInv, DevInv, NEW t \in Threads, OpenStep(t)
  PROVE  WalkInv'
<1>1. CASE OpenDecide(t)
  BY <1>1, WalkSame DEF OpenDecide
<1>2. CASE OpenUndo(t) \/ OpenDone(t)
  BY <1>2, WalkReturn DEF OpenUndo, OpenDone, DevInv
<1> QED
  BY <1>1, <1>2 DEF OpenStep

\* The history of disturbed verdicts concerns no other local.
LEMMA DisturbedWalk ==
  ASSUME ThreadInv, NEW F, NEW S, NEW u \in Threads
  PROVE  LET r == Disturbed(F, S)[u] IN
         /\ r.out = loc[u].out /\ r.batch = loc[u].batch /\ r.end = loc[u].end
         /\ r.pos = loc[u].pos /\ r.gencnt = loc[u].gencnt
         /\ r.deadline = loc[u].deadline /\ r.late = loc[u].late
BY DEF ThreadInv, CallLocals, Disturbed

LEMMA WalkIoctlStep ==
  ASSUME WalkInv, DevInv, NEW t \in Threads, IoctlStep(t)
  PROVE  WalkInv'
<1>1. ASSUME NEW k \in Differing, SetFilterCopy(t, k) PROVE WalkInv'
  <2> DEFINE d == Disturbed({loc[t].fd}, Generations)
  <2>1. d \in [Threads -> CallLocals]
    BY DisturbedTyped DEF DevInv
  <2>2. \A u \in Threads : LET r == d[u] IN
          /\ r.out = loc[u].out /\ r.batch = loc[u].batch /\ r.end = loc[u].end
          /\ r.pos = loc[u].pos /\ r.gencnt = loc[u].gencnt
    BY DisturbedWalk DEF DevInv
  <2>3. loc' = [d EXCEPT ![t].todo = @ \ {k}] /\ UNCHANGED pc
    BY <1>1 DEF SetFilterCopy
  <2> HIDE DEF d
  <2>4. \A u \in Threads : LET r == loc'[u] IN
          /\ r.out = d[u].out /\ r.batch = d[u].batch /\ r.end = d[u].end
          /\ r.pos = d[u].pos /\ r.gencnt = d[u].gencnt
    BY <2>1, <2>3 DEF CallLocals
  <2> QED
    BY <2>2, <2>3, <2>4, WalkSilent
<1>2. CASE SetFilterReturn(t)
  BY <1>2, WalkReturn DEF SetFilterReturn, DevInv
<1> QED
  BY <1>1, <1>2 DEF IoctlStep

LEMMA WalkEnvironment ==
  ASSUME WalkInv, DevInv, Environment
  PROVE  WalkInv'
<1>1. ASSUME NEW g \in Generations, loc' = Disturbed(Files, {g}), UNCHANGED pc PROVE WalkInv'
  BY <1>1, DisturbedWalk, WalkSilent DEF DevInv
<1>2. ASSUME UNCHANGED <<pc, loc>> PROVE WalkInv'
  BY <1>2, WalkSame
<1> QED
  BY <1>1, <1>2 DEF Environment, PcbAlloc, PcbFree, PcbChange, SetTunable, Tick

---------------------------------------------------------------------------
(* A read, from its admission to its loop.                                 *)

LEMMA WalkStartStep ==
  ASSUME WalkInv, DevInv, NEW t \in Threads,
         ReadClaim(t) \/ ReadDecide(t) \/ ReadThrottle(t) \/ ReadStart(t)
  PROVE  WalkInv'
<1> DEFINE r == loc'[t]
<1>1. /\ pc[t] \in {"read_checked", "read_claiming", "read_admitted", "read_start"}
      /\ loc[t] \in CallLocals
  BY DEF DevInv, ThreadInv, ReadClaim, ReadDecide, ReadThrottle, ReadStart
<1>2. loc[t].out = <<>> /\ loc[t].batch = ZeroStats /\ loc[t].end = "none"
  BY <1>1 DEF WalkInv, WalkOK, BeforeWalk, Walking
<1>3. /\ loc' = [loc EXCEPT ![t] = r]
      /\ r.out = loc[t].out /\ r.batch = loc[t].batch /\ r.end = loc[t].end
  BY <1>1 DEF DevInv, ThreadInv, CallLocals, ReadClaim, ReadDecide, ReadThrottle, ReadStart
<1>4. PICK l \in BeforeWalk \cup {"read_refused", "read_throttled"} : Goto(t, l)
  BY DEF BeforeWalk, ReadClaim, ReadDecide, ReadThrottle, ReadStart
<1>5. WalkOK(l, r)
  BY <1>2, <1>3, <1>4 DEF WalkOK, BeforeWalk, Walking
<1>6. Enter(t, l, r)
  BY <1>3, <1>4 DEF Enter
<1> HIDE DEF r
<1> QED
  BY <1>5, <1>6, WalkMove DEF DevInv

LEMMA WalkSnapshot ==
  ASSUME WalkInv, DevInv, NEW t \in Threads, ReadSnapshot(t)
  PROVE  WalkInv'
<1> DEFINE r == [loc[t] EXCEPT !.gencnt = gencnt, !.pos = MaxGen + 1, !.stable = Live]
<1>1. loc[t].out = <<>> /\ loc[t].batch = ZeroStats /\ loc[t].end = "none"
  BY DEF ReadSnapshot, WalkInv, WalkOK, BeforeWalk, Walking
<1>2. r.out = <<>> /\ r.batch = ZeroStats /\ r.end = "none"
  BY <1>1 DEF DevInv, ThreadInv, CallLocals
<1>3. Enter(t, "reading", r)
  BY DEF ReadSnapshot, Enter
<1> HIDE DEF r
<1>4. BatchOK(r)
  <2>1. Balanced(ZeroStats) /\ ZeroStats["emitted"] = 0 /\ Aborted(ZeroStats) = 0
    BY DEF Balanced, Skipped, Aborted, ZeroStats, StatFields, Reasons, Aborts
  <2>2. r.end \notin Aborts
    BY <1>2 DEF Aborts
  <2> QED
    BY <1>2, <2>1, <2>2 DEF BatchOK
<1>5. WalkOK("reading", r)
  BY <1>2, <1>4 DEF WalkOK, OrderOK, Descending, Walking, BeforeWalk
<1> QED
  BY <1>3, <1>5, WalkMove DEF DevInv

---------------------------------------------------------------------------
(* The loop.                                                               *)

\* What counting a visit under counter k does to the sums of a batch.
LEMMA CountedSums ==
  ASSUME NEW t \in Threads, loc[t].batch \in [StatFields -> Nat],
         NEW k \in StatFields \ {"visited"}
  PROVE  LET b == loc[t].batch
             c == Counted(t, k)
         IN  /\ c["visited"] = b["visited"] + 1
             /\ Balanced(b) => Balanced(c)
             /\ c["emitted"] = b["emitted"] + IF k = "emitted" THEN 1 ELSE 0
             /\ Aborted(c) = Aborted(b) + IF k \in Aborts THEN 1 ELSE 0
<1> DEFINE b == loc[t].batch
           c == Counted(t, k)
<1>1. \A i \in StatFields : b[i] \in Nat
  OBVIOUS
<1>2. \A i \in StatFields : c[i] = IF i \in {"visited", k} THEN b[i] + 1 ELSE b[i]
  BY DEF Counted
<1> HIDE DEF b, c
<1>3. c["visited"] = b["visited"] + 1
  BY <1>2 DEF StatFields
<1>4. c["emitted"] = b["emitted"] + IF k = "emitted" THEN 1 ELSE 0
  BY <1>1, <1>2 DEF StatFields
<1>5. Aborted(c) = Aborted(b) + IF k \in Aborts THEN 1 ELSE 0
  BY <1>1, <1>2 DEF Aborted, StatFields, Aborts
<1>6. Skipped(c) = Skipped(b) + IF k \in Reasons THEN 1 ELSE 0
  BY <1>1, <1>2 DEF Skipped, StatFields, Reasons
<1>7. Skipped(b) \in Int /\ Aborted(b) \in Int /\ b["emitted"] \in Int /\ b["visited"] \in Int
  BY <1>1 DEF Skipped, Aborted, StatFields, Reasons, Aborts
<1>8. \/ k = "emitted" /\ k \notin Reasons /\ k \notin Aborts
      \/ k # "emitted" /\ k \in Reasons /\ k \notin Aborts
      \/ k # "emitted" /\ k \notin Reasons /\ k \in Aborts
  BY DEF StatFields, Reasons, Aborts
<1>9. Balanced(b) => Balanced(c)
  BY <1>3, <1>4, <1>5, <1>6, <1>7, <1>8 DEF Balanced
<1> QED
  BY <1>3, <1>4, <1>5, <1>9 DEF b, c

\* What is known of a thread in the loop.
LEMMA InLoop ==
  ASSUME WalkInv, DevInv, NEW t \in Threads, pc[t] = "reading"
  PROVE  /\ loc[t] \in CallLocals /\ loc[t].batch \in [StatFields -> Nat]
         /\ loc[t].out \in Seq(Generations)
         /\ loc[t].pos \in Int /\ \A i \in DOMAIN loc[t].out : loc[t].out[i] \in Int
         /\ loc[t].end = "none" /\ BatchOK(loc[t]) /\ OrderOK(loc[t])
         /\ Aborted(loc[t].batch) = 0
<1>1. loc[t] \in CallLocals
  BY DEF DevInv, ThreadInv
<1>2. loc[t].end = "none" /\ BatchOK(loc[t]) /\ OrderOK(loc[t])
  BY DEF WalkInv, WalkOK, Walking
<1>3. loc[t].out \in Seq(Generations)
  BY <1>1 DEF CallLocals
<1>4. \A i \in DOMAIN loc[t].out : loc[t].out[i] \in Int
  <2>1. Generations \subseteq Int
    BY DEF Generations
  <2>2. \A i \in DOMAIN loc[t].out : loc[t].out[i] \in Generations
    BY <1>3
  <2> QED
    BY <2>1, <2>2
<1>5. Aborted(loc[t].batch) = 0
  BY <1>2 DEF BatchOK, Aborts
<1> QED
  BY <1>1, <1>2, <1>3, <1>4, <1>5 DEF CallLocals

\* A socket newer than the snapshot is skipped.
LEMMA EmittedIsOld ==
  ASSUME NEW f, NEW s, NEW g \in Int, NEW n \in Int, NEW c, Verdict(f, s, g, n, c) = "emit"
  PROVE  g <= n
<1> DEFINE failing == {k \in DOMAIN SkipReasons : Fails(SkipReasons[k], f, s, g, n, c)}
<1>1. DOMAIN SkipReasons = 1 .. 6 /\ SkipReasons[1] = "gencnt"
        /\ \A k \in 1 .. 6 : SkipReasons[k] # "emit"
  BY DEF SkipReasons
<1>2. failing \in SUBSET (1 .. 6)
  BY <1>1
<1>3. failing # {} => Min(failing) \in 1 .. 6
  <2> HIDE DEF failing
  <2>1. IsFiniteSet(failing) /\ failing \in SUBSET Int
    BY <1>2, IntervalPart
  <2> QED
    BY <1>2, <2>1, MinOf
<1>4. failing = {}
  <2>1. failing # {} => SkipReasons[Min(failing)] = "emit"
    BY DEF Verdict
  <2> HIDE DEF failing
  <2> QED
    BY <1>1, <1>3, <2>1
<1>5. ~ Fails("gencnt", f, s, g, n, c)
  BY <1>1, <1>4
<1> QED
  BY <1>5 DEF Fails

LEMMA WalkBreak ==
  ASSUME WalkInv, DevInv, NEW t \in Threads, LoopBreak(t)
  PROVE  WalkInv'
<1> DEFINE e == IF Ahead(t) = {} THEN "eof" ELSE "full"
           r == [loc[t] EXCEPT !.end = e]
<1>1. pc[t] = "reading" /\ Enter(t, "read_out", r)
  BY DEF LoopBreak, Enter
<1>2. e \notin Aborts
  BY DEF Aborts
<1>3. BatchOK(r) /\ OrderOK(r)
  BY <1>1, <1>2, InLoop DEF BatchOK, OrderOK, CallLocals
<1> HIDE DEF r
<1>4. WalkOK("read_out", r)
  BY <1>3 DEF WalkOK, Walking, BeforeWalk
<1> QED
  BY <1>1, <1>4, WalkMove DEF DevInv

LEMMA WalkAborted ==
  ASSUME WalkInv, DevInv, NEW t \in Threads, NEW why \in Aborts, VisitAborted(t, why)
  PROVE  WalkInv'
<1> DEFINE c == Counted(t, why)
           r == [loc[t] EXCEPT !.batch = c, !.end = why]
<1>1. pc[t] = "reading"
  BY DEF VisitAborted, Visiting
<1>2. Enter(t, "read_out", r)
  BY DEF VisitAborted, Enter
<1>3. why \in StatFields \ {"visited"} /\ why # "emitted"
  BY DEF StatFields, Aborts
<1>4. Balanced(c) /\ c["emitted"] = loc[t].batch["emitted"] /\ Aborted(c) = 1
  BY <1>1, <1>3, InLoop, CountedSums DEF BatchOK
<1> HIDE DEF c
<1>5. BatchOK(r) /\ OrderOK(r)
  BY <1>1, <1>4, InLoop DEF BatchOK, OrderOK, CallLocals
<1> HIDE DEF r
<1>6. WalkOK("read_out", r)
  BY <1>5 DEF WalkOK, Walking, BeforeWalk
<1> QED
  BY <1>2, <1>6, WalkMove DEF DevInv

LEMMA WalkSkip ==
  ASSUME WalkInv, DevInv, NEW t \in Threads, VisitSkip(t)
  PROVE  WalkInv'
<1> DEFINE k == VerdictOf(t, NextPcb(t))
           c == Counted(t, k)
           p == NextPcb(t)
           n == Lateness(t)
           r == [loc[t] EXCEPT !.batch = c, !.pos = p, !.late = n]
<1>1. pc[t] = "reading" /\ Ahead(t) # {}
  BY DEF VisitSkip, Examining, Visiting
<1>2. Enter(t, "reading", r)
  BY <1>1 DEF VisitSkip, Enter, Goto, DevInv, ThreadInv
<1>3. k \in Reasons
  BY VerdictRange DEF VisitSkip, VerdictOf
<1>4. k \in StatFields \ {"visited"} /\ k # "emitted" /\ k \notin Aborts
  BY <1>3 DEF StatFields, Reasons, Aborts
<1> HIDE DEF k
<1>5. Balanced(c) /\ c["emitted"] = loc[t].batch["emitted"] /\ Aborted(c) = 0
  BY <1>1, <1>4, InLoop, CountedSums DEF BatchOK
<1>6. p \in Int /\ p < loc[t].pos
  BY <1>1, NextPcbIs DEF DevInv
<1> HIDE DEF c, p, n
<1>7. BatchOK(r)
  BY <1>1, <1>5, InLoop DEF BatchOK, CallLocals, Aborts
<1>8. OrderOK(r)
  <2>1. r.out = loc[t].out /\ r.gencnt = loc[t].gencnt /\ r.pos = p
    BY <1>1, InLoop DEF CallLocals
  <2>2. \A i \in DOMAIN loc[t].out : p <= loc[t].out[i]
    BY <1>1, <1>6, InLoop DEF OrderOK
  <2> QED
    BY <1>1, <2>1, <2>2, InLoop DEF OrderOK
<1>9. r.end = "none"
  BY <1>1, InLoop DEF CallLocals
<1> HIDE DEF r
<1>10. WalkOK("reading", r)
  BY <1>7, <1>8, <1>9 DEF WalkOK, Walking, BeforeWalk
<1> QED
  BY <1>2, <1>10, WalkMove DEF DevInv

LEMMA WalkEmit ==
  ASSUME WalkInv, DevInv, NEW t \in Threads, VisitEmit(t)
  PROVE  WalkInv'
<1> DEFINE c == Counted(t, "emitted")
           p == NextPcb(t)
           n == Lateness(t)
           m == loc[t].resid - 1
           o == Append(loc[t].out, p)
           r == [loc[t] EXCEPT !.batch = c, !.pos = p, !.late = n, !.resid = m, !.out = o]
<1>1. pc[t] = "reading" /\ Ahead(t) # {}
  BY DEF VisitEmit, Examining, Visiting
<1>2. Enter(t, "reading", r)
  BY <1>1 DEF VisitEmit, Enter, Goto, DevInv, ThreadInv
<1>3. Balanced(c) /\ c["emitted"] = loc[t].batch["emitted"] + 1 /\ Aborted(c) = 0
  <2>1. "emitted" \in StatFields \ {"visited"} /\ "emitted" \notin Aborts
    BY DEF StatFields, Aborts
  <2> QED
    BY <1>1, <2>1, InLoop, CountedSums DEF BatchOK
<1>4. p \in Generations /\ p \in Int /\ p < loc[t].pos
  BY <1>1, NextPcbIs DEF DevInv, Generations
<1>5. p <= loc[t].gencnt
  <2>1. loc[t].gencnt \in Int
    BY <1>1, InLoop DEF CallLocals
  <2> QED
    BY <1>4, <2>1, EmittedIsOld DEF VisitEmit, VerdictOf
<1> HIDE DEF c, p, n, m
<1>6. /\ Len(o) = Len(loc[t].out) + 1
      /\ \A i \in DOMAIN o : o[i] = IF i \in DOMAIN loc[t].out THEN loc[t].out[i] ELSE p
      /\ \A i, j \in DOMAIN o : i < j => i \in DOMAIN loc[t].out
  <2>1. loc[t].out \in Seq(Generations)
    BY <1>1, InLoop
  <2> HIDE DEF p
  <2>2. /\ Len(o) = Len(loc[t].out) + 1
        /\ DOMAIN o = 1 .. Len(loc[t].out) + 1 /\ DOMAIN loc[t].out = 1 .. Len(loc[t].out)
        /\ \A i \in 1 .. Len(loc[t].out) + 1 :
             o[i] = IF i <= Len(loc[t].out) THEN loc[t].out[i] ELSE p
    BY <1>4, <2>1
  <2>3. Len(loc[t].out) \in Nat
    BY <2>1
  <2> QED
    BY <2>2, <2>3
<1> HIDE DEF o
<1>7. /\ r.batch = c /\ r.end = "none" /\ r.out = o /\ r.pos = p
      /\ r.gencnt = loc[t].gencnt
  BY <1>1, InLoop DEF CallLocals
<1> HIDE DEF r
<1>8. BatchOK(r)
  BY <1>1, <1>3, <1>6, <1>7, InLoop DEF BatchOK, Aborts
<1>9. OrderOK(r)
  <2>1. \A i \in DOMAIN loc[t].out : p < loc[t].out[i]
    BY <1>1, <1>4, InLoop DEF OrderOK
  <2>2. \A i \in DOMAIN o : p <= o[i] /\ o[i] <= loc[t].gencnt
    BY <1>1, <1>4, <1>5, <1>6, <2>1, InLoop DEF OrderOK
  <2>3. Descending(o)
    BY <1>1, <1>4, <1>6, <2>1, InLoop DEF OrderOK, Descending
  <2> QED
    BY <1>7, <2>2, <2>3 DEF OrderOK
<1>10. WalkOK("reading", r)
  BY <1>7, <1>8, <1>9 DEF WalkOK, Walking, BeforeWalk
<1> QED
  BY <1>2, <1>10, WalkMove DEF DevInv

---------------------------------------------------------------------------
(* The end of a read.                                                      *)

LEMMA WalkEndStep ==
  ASSUME WalkInv, DevInv, NEW t \in Threads,
         ReadEof(t) \/ ReadFinish(t) \/ ReadFlush(t) \/ ReadLeave(t)
  PROVE  WalkInv'
<1>1. CASE ReadEof(t) \/ ReadLeave(t)
  BY <1>1, WalkReturn DEF ReadEof, ReadLeave, DevInv
<1>2. CASE ReadFinish(t)
  <2> DEFINE r == [Locals(loc[t].fd, 0) EXCEPT !.batch = loc[t].batch]
  <2>1. r.out = <<>>
    BY DEF Locals
  <2>2. Enter(t, "flush", r)
    BY <1>2 DEF ReadFinish
  <2> HIDE DEF r
  <2>3. WalkOK("flush", r)
    BY <2>1 DEF WalkOK, Walking, BeforeWalk
  <2> QED
    BY <2>2, <2>3, WalkMove DEF DevInv
<1>3. CASE ReadFlush(t)
  <2> DEFINE r == loc'[t]
  <2>1. pc[t] = "flush" /\ UNCHANGED pc /\ loc[t] \in CallLocals
    BY <1>3 DEF ReadFlush, DevInv, ThreadInv
  <2>2. loc' = [loc EXCEPT ![t] = r] /\ r.out = loc[t].out
    BY <1>3, <2>1 DEF ReadFlush, DevInv, ThreadInv, CallLocals
  <2>3. loc[t].out = <<>>
    BY <2>1 DEF WalkInv, WalkOK, Walking
  <2> HIDE DEF r
  <2>4. Enter(t, "flush", r)
    BY <2>1, <2>2 DEF Enter, Goto, DevInv, ThreadInv
  <2>5. WalkOK("flush", r)
    BY <2>2, <2>3 DEF WalkOK, Walking, BeforeWalk
  <2> QED
    BY <2>4, <2>5, WalkMove DEF DevInv
<1> QED
  BY <1>1, <1>2, <1>3

LEMMA WalkNext == DevInv /\ WalkInv /\ [Next]_vars => WalkInv'
<1> SUFFICES ASSUME DevInv, WalkInv, [Next]_vars PROVE WalkInv'
  OBVIOUS
<1>1. ASSUME NEW t \in Threads, ReadStep(t) PROVE WalkInv'
  BY <1>1, WalkStartStep, WalkSnapshot, WalkBreak, WalkAborted, WalkSkip, WalkEmit, WalkEndStep
  DEF ReadStep
<1>2. ASSUME NEW f \in Files, Close(f) \/ Dtor(f) PROVE WalkInv'
  BY <1>2, WalkSame DEF Close, Dtor
<1>3. CASE UNCHANGED vars
  BY <1>3, WalkSame DEF vars
<1> QED
  BY <1>1, <1>2, <1>3, WalkCall, WalkOpenStep, WalkIoctlStep, WalkEnvironment
  DEF Next, ThreadStep

LEMMA WalkInvariant == Spec => [](DevInv /\ WalkInv)
<1>1. Init => DevInv /\ WalkInv
  BY InitInv, WalkInit
<1>2. (DevInv /\ WalkInv) /\ [Next]_vars => (DevInv /\ WalkInv)'
  BY NextInv, WalkNext
<1> QED
  BY <1>1, <1>2, PTL DEF Spec

\* However many sockets are created and freed during a read, it emits each at
\* most once, from the newest to the oldest, and none newer than its snapshot.
THEOREM ReadsAreOrdered == Spec => []SnapshotOrdered
<1>1. WalkInv => SnapshotOrdered
  <2> SUFFICES ASSUME WalkInv, NEW t \in Threads
               PROVE  LET out == loc[t].out IN
                      /\ \A i \in DOMAIN out : out[i] <= loc[t].gencnt
                      /\ \A i, j \in DOMAIN out : i < j => out[i] > out[j]
    BY DEF SnapshotOrdered
  <2>1. CASE pc[t] \in Walking
    BY <2>1 DEF WalkInv, WalkOK, OrderOK, Descending
  <2>2. CASE pc[t] \notin Walking
    BY <2>2 DEF WalkInv, WalkOK
  <2> QED
    BY <2>1, <2>2
<1> QED
  BY <1>1, WalkInvariant, PTL

\* Whatever ends a read, every socket visited is charged to one counter and
\* sockets_emitted counts the records the caller received.
THEOREM BatchesBalance == Spec => []BatchBalanced
<1>1. WalkInv => BatchBalanced
  BY DEF WalkInv, WalkOK, BatchOK, BatchBalanced
<1> QED
  BY <1>1, WalkInvariant, PTL

---------------------------------------------------------------------------
(* The deadline.                                                           *)

LEMMA RemainderOf ==
  ASSUME NEW c \in Nat \ {0}, NEW v \in Nat
  PROVE  /\ v % c \in Nat /\ v % c < c
         /\ v \div c \in Int /\ v = c * (v \div c) + (v % c)
OBVIOUS

\* Between two checkpoints the remainder goes up by one.
LEMMA NextRemainder ==
  ASSUME NEW c \in Nat \ {0}, NEW v \in Nat, (v + 1) % c # 0
  PROVE  (v + 1) % c = (v % c) + 1
<1> DEFINE q == v \div c
           r == v % c
           p == (v + 1) \div c
           s == (v + 1) % c
           d == p - q
<1>1. q \in Int /\ r \in Nat /\ r < c /\ v = c * q + r
  BY RemainderOf
<1>2. p \in Int /\ s \in Nat /\ s < c /\ s > 0 /\ v + 1 = c * p + s
  <2>1. v + 1 \in Nat
    OBVIOUS
  <2> QED
    BY <2>1, RemainderOf
<1> HIDE DEF q, r, p, s
<1>3. d \in Int /\ c * d = c * p - c * q
  BY <1>1, <1>2
<1>4. c * d = r + 1 - s
  BY <1>1, <1>2, <1>3
<1> HIDE DEF d
<1>5. d = 0
  <2>1. CASE d >= 1
    <3>1. c * d >= c
      BY <1>3, <2>1
    <3> QED
      BY <1>1, <1>2, <1>4, <3>1
  <2>2. CASE d <= -1
    <3>1. c * d <= -c
      BY <1>3, <2>2
    <3> QED
      BY <1>1, <1>2, <1>4, <3>1
  <2> QED
    BY <1>3, <2>1, <2>2
<1>6. r + 1 = s
  BY <1>1, <1>2, <1>4, <1>5
<1> QED
  BY <1>6 DEF r, s

\* A walk examines sockets after its deadline only between two checkpoints.
LateOK(t) ==
  LET r == loc[t] IN
  /\ pc[t] \notin Walking => r.late = 0
  /\ pc[t] = "reading" => /\ r.late > 0 => Late(t)
                          /\ r.late <= r.batch["visited"] % CheckInterval
  /\ pc[t] = "read_out" => r.late < CheckInterval

LateInv == \A t \in Threads : LateOK(t)

\* Thread u stays where it is, and time does not go back.
LEMMA LateKept ==
  ASSUME DevInv, NEW u \in Threads, LateOK(u), pc'[u] = pc[u],
         clock' \in Nat, clock <= clock',
         /\ loc'[u].late = loc[u].late /\ loc'[u].deadline = loc[u].deadline
         /\ loc'[u].batch = loc[u].batch
  PROVE  LateOK(u)'
<1>1. clock \in Nat /\ loc[u].deadline \in Nat
  BY DEF DevInv, EnvTypes, ThreadInv, CallLocals
<1>2. Late(u) => Late(u)'
  BY <1>1 DEF Late
<1> QED
  BY <1>2 DEF LateOK

LEMMA LateMove ==
  ASSUME LateInv, DevInv, NEW t \in Threads, NEW l, NEW r, Enter(t, l, r), UNCHANGED clock,
         LateOK(t)' \/ (l \notin Walking /\ r.late = 0)
  PROVE  LateInv'
<1> SUFFICES ASSUME NEW u \in Threads PROVE LateOK(u)'
  BY DEF LateInv
<1>1. CASE u = t
  <2>1. pc'[t] = l /\ loc'[t] = r
    BY DEF Enter, Goto, DevInv, ThreadInv
  <2> QED
    BY <1>1, <2>1 DEF LateOK, Walking
<1>2. CASE u # t
  <2>1. pc'[u] = pc[u] /\ loc'[u] = loc[u]
    BY <1>2 DEF Enter, Goto, DevInv, ThreadInv
  <2>2. clock \in Nat
    BY DEF DevInv, EnvTypes
  <2> QED
    BY <2>1, <2>2, LateKept DEF LateInv
<1> QED
  BY <1>1, <1>2

LEMMA LateStill ==
  ASSUME LateInv, DevInv, UNCHANGED pc, clock' \in Nat, clock <= clock',
         \A u \in Threads : /\ loc'[u].late = loc[u].late /\ loc'[u].deadline = loc[u].deadline
                            /\ loc'[u].batch = loc[u].batch
  PROVE  LateInv'
BY LateKept DEF LateInv

\* Steps that change neither the thread's place nor its locals.
LEMMA LateSame == LateInv /\ DevInv /\ UNCHANGED <<pc, loc, clock>> => LateInv'
BY LateStill DEF DevInv, EnvTypes

\* System calls are entered, and left, with a lateness of zero.
LEMMA LateFresh ==
  ASSUME NEW f, NEW n
  PROVE  Locals(f, n).late = 0 /\ AtRest.late = 0
BY DEF Locals, AtRest

LEMMA LateCall ==
  ASSUME LateInv, DevInv, NEW t \in Threads, Call(t)
  PROVE  LateInv'
<1>1. ASSUME NEW f \in Files, NEW c \in Creds, OpenClaim(t, f, c) PROVE LateInv'
  BY <1>1, LateFresh, LateMove DEF OpenClaim, Walking, envVars
<1>2. ASSUME NEW f \in Files, NEW n \in BufSizes, ReadCall(t, f, n) PROVE LateInv'
  BY <1>2, LateFresh, LateMove DEF ReadCall, Walking, sharedVars, envVars
<1>3. ASSUME NEW f \in Files, NEW flt \in Filters, SetFilterCall(t, f, flt) PROVE LateInv'
  <2> DEFINE r == [Locals(f, 0) EXCEPT !.filter = flt, !.todo = Differing]
  <2>1. r.late = 0
    BY DEF Locals
  <2> QED
    BY <1>3, <2>1, LateMove DEF SetFilterCall, Walking, sharedVars, envVars
<1>4. ASSUME NEW f \in Files, Reset(t, f) PROVE LateInv'
  BY <1>4, LateSame DEF Reset, envVars
<1> QED
  BY <1>1, <1>2, <1>3, <1>4 DEF Call

LEMMA LateReturn ==
  ASSUME LateInv, DevInv, NEW t \in Threads, Return(t), UNCHANGED envVars
  PROVE  LateInv'
BY LateFresh, LateMove DEF Return, Walking, envVars

LEMMA LateOpenStep ==
  ASSUME LateInv, DevInv, NEW t \in Threads, OpenStep(t)
  PROVE  LateInv'
<1>1. CASE OpenDecide(t)
  BY <1>1, LateSame DEF OpenDecide, envVars
<1>2. CASE OpenUndo(t) \/ OpenDone(t)
  BY <1>2, LateReturn DEF OpenUndo, OpenDone, ReleaseFile
<1> QED
  BY <1>1, <1>2 DEF OpenStep

LEMMA LateIoctlStep ==
  ASSUME LateInv, DevInv, NEW t \in Threads, IoctlStep(t)
  PROVE  LateInv'
<1>1. ASSUME NEW k \in Differing, SetFilterCopy(t, k) PROVE LateInv'
  <2> DEFINE d == Disturbed({loc[t].fd}, Generations)
  <2>1. d \in [Threads -> CallLocals]
    BY DisturbedTyped DEF DevInv
  <2>2. \A u \in Threads : /\ d[u].late = loc[u].late /\ d[u].deadline = loc[u].deadline
                           /\ d[u].batch = loc[u].batch
    BY DisturbedWalk DEF DevInv
  <2>3. loc' = [d EXCEPT ![t].todo = @ \ {k}] /\ UNCHANGED <<pc, clock>>
    BY <1>1 DEF SetFilterCopy, envVars
  <2> HIDE DEF d
  <2>4. \A u \in Threads : /\ loc'[u].late = d[u].late /\ loc'[u].deadline = d[u].deadline
                           /\ loc'[u].batch = d[u].batch
    BY <2>1, <2>3 DEF CallLocals
  <2> QED
    BY <2>2, <2>3, <2>4, LateStill DEF DevInv, EnvTypes
<1>2. CASE SetFilterReturn(t)
  BY <1>2, LateReturn DEF SetFilterReturn, sharedVars
<1> QED
  BY <1>1, <1>2 DEF IoctlStep

LEMMA LateEnvironment ==
  ASSUME LateInv, DevInv, Environment
  PROVE  LateInv'
<1>1. UNCHANGED pc /\ clock \in Nat
  BY DEF Environment, PcbAlloc, PcbFree, PcbChange, SetTunable, Tick, DevInv, EnvTypes
<1>2. ASSUME NEW g \in Generations, loc' = Disturbed(Files, {g}), UNCHANGED clock
      PROVE  LateInv'
  BY <1>1, <1>2, DisturbedWalk, LateStill DEF DevInv
<1>3. CASE UNCHANGED <<loc, clock>>
  BY <1>1, <1>3, LateSame
<1>4. CASE Tick
  BY <1>1, <1>4, LateStill DEF Tick
<1> QED
  BY <1>2, <1>3, <1>4 DEF Environment, PcbAlloc, PcbFree, PcbChange, SetTunable

---------------------------------------------------------------------------
(* The steps of a read.                                                    *)

LEMMA LateOuterStep ==
  ASSUME LateInv, DevInv, NEW t \in Threads,
         \/ ReadClaim(t) \/ ReadDecide(t) \/ ReadThrottle(t) \/ ReadStart(t)
         \/ ReadFinish(t) \/ ReadFlush(t)
  PROVE  LateInv'
<1>1. UNCHANGED clock /\ loc[t] \in CallLocals
  BY DEF ReadClaim, ReadDecide, ReadThrottle, ReadStart, ReadFinish, ReadFlush,
         sharedVars, envVars, DevInv, ThreadInv
<1>2. CASE ReadFinish(t)
  <2> DEFINE r == [Locals(loc[t].fd, 0) EXCEPT !.batch = loc[t].batch]
  <2>1. r.late = 0
    BY DEF Locals
  <2> QED
    BY <1>1, <1>2, <2>1, LateMove DEF ReadFinish, Walking
<1>3. CASE ~ ReadFinish(t)
  <2>1. loc[t].late = 0
    BY <1>3 DEF ReadClaim, ReadDecide, ReadThrottle, ReadStart, ReadFlush,
                LateInv, LateOK, Walking
  <2>2. loc' = [loc EXCEPT ![t] = loc'[t]] /\ loc'[t].late = loc[t].late
    BY <1>1, <1>3, SMTT(40)
    DEF ReadClaim, ReadDecide, ReadThrottle, ReadStart, ReadFlush,
        DevInv, ThreadInv, CallLocals
  <2>3. \E l : l \notin Walking /\ Goto(t, l)
    <3>1. CASE ReadFlush(t)
      BY <3>1 DEF ReadFlush, Goto, DevInv, ThreadInv, Walking
    <3>2. CASE ~ ReadFlush(t)
      BY <1>3, <3>2 DEF ReadClaim, ReadDecide, ReadThrottle, ReadStart, Walking
    <3> QED
      BY <3>1, <3>2
  <2> QED
    BY <1>1, <2>1, <2>2, <2>3, LateMove DEF Enter
<1> QED
  BY <1>2, <1>3

LEMMA LateSnapshot ==
  ASSUME LateInv, WalkInv, DevInv, NEW t \in Threads, ReadSnapshot(t)
  PROVE  LateInv'
<1> DEFINE r == [loc[t] EXCEPT !.gencnt = gencnt, !.pos = MaxGen + 1, !.stable = Live]
<1>1. loc[t].late = 0 /\ loc[t].batch = ZeroStats /\ loc[t] \in CallLocals
  BY DEF ReadSnapshot, LateInv, LateOK, WalkInv, WalkOK, BeforeWalk, Walking,
         DevInv, ThreadInv
<1>2. r.late = 0 /\ r.batch = ZeroStats
  BY <1>1 DEF CallLocals
<1>3. Enter(t, "reading", r) /\ UNCHANGED clock
  BY DEF ReadSnapshot, Enter, sharedVars, envVars
<1> HIDE DEF r
<1>4. loc'[t] = r /\ pc'[t] = "reading"
  BY <1>3 DEF Enter, Goto, DevInv, ThreadInv
<1>5. 0 <= ZeroStats["visited"] % CheckInterval
  <2>1. ZeroStats["visited"] \in Nat
    BY DEF ZeroStats, StatFields
  <2> QED
    BY <2>1, DevAssumption, RemainderOf
<1>6. LateOK(t)'
  BY <1>2, <1>4, <1>5 DEF LateOK, Walking
<1> QED
  BY <1>3, <1>6, LateMove

\* What is known of a thread in the loop: its lateness is below the interval.
LEMMA LateInLoop ==
  ASSUME LateInv, DevInv, NEW t \in Threads, pc[t] = "reading"
  PROVE  /\ loc[t] \in CallLocals /\ loc[t].late \in Nat /\ loc[t].batch["visited"] \in Nat
         /\ loc[t].late > 0 => Late(t)
         /\ loc[t].late <= loc[t].batch["visited"] % CheckInterval
         /\ loc[t].late < CheckInterval
<1>1. loc[t] \in CallLocals
  BY DEF DevInv, ThreadInv
<1>2. loc[t].late \in Nat /\ loc[t].batch["visited"] \in Nat
  BY <1>1 DEF CallLocals, StatFields
<1>3. CheckInterval \in Nat \ {0}
  BY DevAssumption
<1>4. /\ loc[t].late > 0 => Late(t)
      /\ loc[t].late <= loc[t].batch["visited"] % CheckInterval
  BY DEF LateInv, LateOK
<1> QED
  BY <1>1, <1>2, <1>3, <1>4, RemainderOf

LEMMA LateLoopEnd ==
  ASSUME LateInv, DevInv, NEW t \in Threads,
         LoopBreak(t) \/ \E why \in Aborts : VisitAborted(t, why)
  PROVE  LateInv'
<1> DEFINE r == loc'[t]
<1>1. pc[t] = "reading" /\ UNCHANGED clock /\ Goto(t, "read_out")
  BY DEF LoopBreak, VisitAborted, Visiting, sharedVars, envVars
<1>2. loc' = [loc EXCEPT ![t] = r] /\ r.late = loc[t].late
  <2>1. CASE LoopBreak(t)
    BY <1>1, <2>1, LateInLoop DEF LoopBreak, DevInv, ThreadInv, CallLocals
  <2>2. CASE \E why \in Aborts : VisitAborted(t, why)
    BY <1>1, <2>2, LateInLoop, ZenonT(40) DEF VisitAborted, DevInv, ThreadInv, CallLocals
  <2> QED
    BY <2>1, <2>2
<1>3. LateOK(t)'
  BY <1>1, <1>2, LateInLoop DEF LateOK, Goto, DevInv, ThreadInv, Walking
<1> QED
  BY <1>1, <1>2, <1>3, LateMove DEF Enter

\* A socket examined after the deadline is not at a checkpoint.
LEMMA LateVisit ==
  ASSUME LateInv, DevInv, NEW t \in Threads, VisitSkip(t) \/ VisitEmit(t)
  PROVE  LateInv'
<1> DEFINE r == loc'[t]
           b == loc[t].batch
<1>1. Examining(t) /\ pc[t] = "reading" /\ UNCHANGED <<pc, clock>>
  BY DEF VisitSkip, VisitEmit, Examining, Visiting, sharedVars, envVars
<1>2. PICK k \in StatFields \ {"visited"} :
        r.batch = Counted(t, k) /\ r.late = Lateness(t) /\ r.deadline = loc[t].deadline
  <2>1. CASE VisitSkip(t)
    <3>1. VerdictOf(t, NextPcb(t)) \in StatFields \ {"visited"}
      <4>1. VerdictOf(t, NextPcb(t)) \in Reasons
        BY <2>1, VerdictRange DEF VisitSkip, VerdictOf
      <4> QED
        BY <4>1 DEF StatFields, Reasons
    <3>2. /\ r.batch = Counted(t, VerdictOf(t, NextPcb(t))) /\ r.late = Lateness(t)
          /\ r.deadline = loc[t].deadline
      BY <1>1, <2>1, LateInLoop DEF VisitSkip, DevInv, ThreadInv, CallLocals
    <3> QED
      BY <3>1, <3>2
  <2>2. CASE VisitEmit(t)
    <3>1. /\ r.batch = Counted(t, "emitted") /\ r.late = Lateness(t)
          /\ r.deadline = loc[t].deadline
      BY <1>1, <2>2, LateInLoop DEF VisitEmit, DevInv, ThreadInv, CallLocals
    <3> QED
      BY <3>1 DEF StatFields
  <2> QED
    BY <2>1, <2>2
<1>3. loc' = [loc EXCEPT ![t] = r]
  BY DEF VisitSkip, VisitEmit, DevInv, ThreadInv
<1>4. r.batch["visited"] = b["visited"] + 1
  <2>1. b \in [StatFields -> Nat]
    BY <1>1, LateInLoop DEF CallLocals
  <2> QED
    BY <1>2, <2>1, CountedSums
<1> HIDE DEF r
<1>5. r.late <= (b["visited"] + 1) % CheckInterval
  <2>1. CheckInterval \in Nat \ {0} /\ b["visited"] \in Nat /\ loc[t].late \in Nat
    BY <1>1, LateInLoop, DevAssumption
  <2>2. CASE Late(t)
    <3>1. (b["visited"] + 1) % CheckInterval # 0
      BY <1>1, <2>2 DEF Examining, Checkpoint
    <3>2. (b["visited"] + 1) % CheckInterval = (b["visited"] % CheckInterval) + 1
      BY <2>1, <3>1, NextRemainder
    <3>3. r.late = loc[t].late + 1 /\ loc[t].late <= b["visited"] % CheckInterval
      BY <1>1, <1>2, <2>2, LateInLoop DEF Lateness
    <3>4. b["visited"] % CheckInterval \in Nat
      BY <2>1, RemainderOf
    <3> HIDE DEF b
    <3> QED
      BY <2>1, <3>2, <3>3, <3>4
  <2>3. CASE ~ Late(t)
    <3>1. r.late = 0
      BY <1>1, <1>2, <2>1, <2>3, LateInLoop DEF Lateness
    <3>2. b["visited"] + 1 \in Nat
      BY <2>1
    <3>3. (b["visited"] + 1) % CheckInterval \in Nat
      BY <2>1, <3>2, RemainderOf
    <3> QED
      BY <3>1, <3>3
  <2> QED
    BY <2>2, <2>3
<1>6. r.late > 0 => Late(t)
  BY <1>1, <1>2, LateInLoop DEF Lateness
<1>7. loc'[t] = r /\ Late(t)' = Late(t)
  BY <1>1, <1>2, <1>3 DEF Late, DevInv, ThreadInv
<1>8. LateOK(t)'
  BY <1>1, <1>4, <1>5, <1>6, <1>7 DEF LateOK, Walking
<1>9. Enter(t, "reading", r)
  BY <1>1, <1>3 DEF Enter, Goto, DevInv, ThreadInv
<1> QED
  BY <1>1, <1>8, <1>9, LateMove

LEMMA LateNext == DevInv /\ WalkInv /\ LateInv /\ [Next]_vars => LateInv'
<1> SUFFICES ASSUME DevInv, WalkInv, LateInv, [Next]_vars PROVE LateInv'
  OBVIOUS
<1>1. ASSUME NEW t \in Threads, ReadStep(t) PROVE LateInv'
  <2>1. CASE ReadEof(t) \/ ReadLeave(t)
    BY <2>1, LateReturn DEF ReadEof, ReadLeave, sharedVars
  <2> QED
    BY <1>1, <2>1, LateOuterStep, LateSnapshot, LateLoopEnd, LateVisit DEF ReadStep
<1>2. ASSUME NEW f \in Files, Close(f) \/ Dtor(f) PROVE LateInv'
  BY <1>2, LateSame DEF Close, Dtor, ReleaseFile, envVars
<1>3. CASE UNCHANGED vars
  BY <1>3, LateSame DEF vars, envVars
<1> QED
  BY <1>1, <1>2, <1>3, LateCall, LateOpenStep, LateIoctlStep, LateEnvironment
  DEF Next, ThreadStep

\* The deadline is tested at every TSF_CHECK_INTERVALth socket only, yet no
\* read examines that many sockets after it, whatever the table and the clock.
THEOREM LateVisitsAreBounded == Spec => []LateVisitsBounded
<1>1. Init => LateInv
  BY LateFresh DEF Init, LateInv, LateOK, Walking
<1>2. DevInv /\ WalkInv /\ LateInv => LateVisitsBounded
  <2> SUFFICES ASSUME DevInv, LateInv, NEW t \in Threads PROVE loc[t].late < CheckInterval
    BY DEF LateVisitsBounded
  <2>1. CASE pc[t] = "reading"
    BY <2>1, LateInLoop
  <2>2. CASE pc[t] # "reading"
    BY <2>2, DevAssumption DEF LateInv, LateOK, Walking
  <2> QED
    BY <2>1, <2>2
<1>3. (DevInv /\ WalkInv) /\ LateInv /\ [Next]_vars => LateInv'
  BY LateNext
<1> QED
  BY <1>1, <1>2, <1>3, WalkInvariant, PTL DEF Spec

---------------------------------------------------------------------------
(* A file in use stays open, and generations to come have no socket.       *)

Using(l) == l \notin {"idle", "open"}

HeldInv == \A t \in Threads : Using(pc[t]) => file[loc[t].fd] \in {"open", "closing"}

FreshInv == \A g \in Generations : g > gencnt => pcb[g] = NoPcb

\* Steps on which every thread in a call stays on its file, and no file in
\* use leaves its state.
LEMMA HeldKept ==
  ASSUME HeldInv,
         \A u \in Threads : Using(pc'[u]) => Using(pc[u]) /\ loc'[u].fd = loc[u].fd,
         \A f \in Files : file[f] \in {"open", "closing"} => file'[f] \in {"open", "closing"},
         ThreadInv
  PROVE  HeldInv'
<1> SUFFICES ASSUME NEW u \in Threads, Using(pc'[u])
             PROVE  file'[loc'[u].fd] \in {"open", "closing"}
  BY DEF HeldInv
<1>1. Using(pc[u]) /\ loc'[u].fd = loc[u].fd
  OBVIOUS
<1>2. loc[u].fd \in Files
  BY <1>1 DEF ThreadInv, Using
<1> QED
  BY <1>1, <1>2 DEF HeldInv

\* The same for a step of thread t, whose locals become r.
LEMMA HeldMove ==
  ASSUME HeldInv, ThreadInv, NEW t \in Threads, NEW l, NEW r, Enter(t, l, r),
         Using(l) => r.fd \in Files /\ file'[r.fd] \in {"open", "closing"},
         \A f \in Files : file[f] \in {"open", "closing"} => file'[f] \in {"open", "closing"}
  PROVE  HeldInv'
<1> SUFFICES ASSUME NEW u \in Threads, Using(pc'[u])
             PROVE  file'[loc'[u].fd] \in {"open", "closing"}
  BY DEF HeldInv
<1>1. CASE u = t
  BY <1>1 DEF Enter, Goto, ThreadInv
<1>2. CASE u # t
  <2>1. pc'[u] = pc[u] /\ loc'[u] = loc[u]
    BY <1>2 DEF Enter, Goto, ThreadInv
  <2>2. loc[u].fd \in Files
    BY <2>1 DEF ThreadInv, Using
  <2> QED
    BY <2>1, <2>2 DEF HeldInv
<1> QED
  BY <1>1, <1>2

LEMMA HeldCall ==
  ASSUME HeldInv, DevInv, NEW t \in Threads, Call(t)
  PROVE  HeldInv'
<1> USE DEF DevInv
<1>1. ASSUME NEW f \in Files, NEW c \in Creds, OpenClaim(t, f, c) PROVE HeldInv'
  <2>1. \A g \in Files : file[g] \in {"open", "closing"} => file'[g] \in {"open", "closing"}
    BY <1>1 DEF OpenClaim, FileInv, OpenTypes
  <2> QED
    BY <1>1, <2>1, HeldMove DEF OpenClaim, Using
<1>2. ASSUME NEW f \in Files, NEW n \in BufSizes, ReadCall(t, f, n) PROVE HeldInv'
  <2>1. Locals(f, n).fd = f /\ file[f] = "open" /\ UNCHANGED file
    BY <1>2 DEF Locals, ReadCall, MayUse, sharedVars, openVars
  <2> QED
    BY <1>2, <2>1, HeldMove DEF ReadCall
<1>3. ASSUME NEW f \in Files, NEW flt \in Filters, SetFilterCall(t, f, flt) PROVE HeldInv'
  <2> DEFINE r == [Locals(f, 0) EXCEPT !.filter = flt, !.todo = Differing]
  <2>1. r.fd = f /\ file[f] = "open" /\ UNCHANGED file
    BY <1>3 DEF Locals, SetFilterCall, MayUse, sharedVars, openVars
  <2> QED
    BY <1>3, <2>1, HeldMove DEF SetFilterCall
<1>4. ASSUME NEW f \in Files, Reset(t, f) PROVE HeldInv'
  BY <1>4, HeldKept DEF Reset, openVars
<1> QED
  BY <1>1, <1>2, <1>3, <1>4 DEF Call

LEMMA HeldOpenStep ==
  ASSUME HeldInv, DevInv, NEW t \in Threads, OpenStep(t)
  PROVE  HeldInv'
<1> USE DEF DevInv
<1>1. /\ \A g \in Files : file[g] \in {"open", "closing"} => file'[g] \in {"open", "closing"}
      /\ (OpenDecide(t) /\ UNCHANGED <<pc, loc>>) \/ Return(t)
  BY DEF OpenStep, OpenDecide, OpenUndo, OpenDone, ReleaseFile, FileInv, OpenTypes
<1>2. CASE UNCHANGED <<pc, loc>>
  BY <1>1, <1>2, HeldKept
<1>3. CASE Return(t)
  BY <1>1, <1>3, HeldMove DEF Return, Using
<1> QED
  BY <1>1, <1>2, <1>3

\* A thread in read() or SET_FILTER stays on its file.
LEMMA HeldStep ==
  ASSUME HeldInv, DevInv, NEW t \in Threads, ReadStep(t) \/ IoctlStep(t)
  PROVE  HeldInv'
<1> USE DEF DevInv
<1>1. UNCHANGED file /\ Using(pc[t]) /\ loc[t] \in CallLocals
  BY DEF ReadStep, IoctlStep, ReadEof, ReadClaim, ReadDecide, ReadThrottle, ReadStart,
         ReadSnapshot, LoopBreak, VisitAborted, VisitSkip, VisitEmit, Examining, Visiting,
         ReadFinish, ReadFlush, ReadLeave, SetFilterCopy, SetFilterReturn,
         sharedVars, openVars, Using, ThreadInv
<1>2. CASE ReadEof(t) \/ ReadLeave(t) \/ SetFilterReturn(t)
  BY <1>1, <1>2, HeldMove DEF ReadEof, ReadLeave, SetFilterReturn, Return, Using
<1>3. CASE \E k \in Differing : SetFilterCopy(t, k)
  <2> DEFINE d == Disturbed({loc[t].fd}, Generations)
  <2>1. d \in [Threads -> CallLocals] /\ \A u \in Threads : d[u].fd = loc[u].fd
    BY DisturbedTyped
  <2>2. PICK k \in Differing : loc' = [d EXCEPT ![t].todo = @ \ {k}] /\ UNCHANGED pc
    BY <1>3 DEF SetFilterCopy
  <2> HIDE DEF d
  <2>3. \A u \in Threads : loc'[u].fd = d[u].fd
    BY <2>1, <2>2 DEF CallLocals
  <2> QED
    BY <1>1, <2>1, <2>2, <2>3, HeldKept
<1>4. CASE ReadFinish(t)
  <2>1. [Locals(loc[t].fd, 0) EXCEPT !.batch = loc[t].batch].fd = loc[t].fd
    BY DEF Locals
  <2>2. loc[t].fd \in Files
    BY <1>1 DEF ThreadInv, Using
  <2> QED
    BY <1>1, <1>4, <2>1, <2>2, HeldMove DEF ReadFinish, HeldInv
<1>5. CASE /\ loc' = [loc EXCEPT ![t] = loc'[t]] /\ loc'[t].fd = loc[t].fd
           /\ \E l : Goto(t, l)
  BY <1>1, <1>5, HeldKept DEF Goto, ThreadInv
<1>6. CASE \/ ReadClaim(t) \/ ReadDecide(t) \/ ReadThrottle(t) \/ ReadStart(t)
           \/ ReadSnapshot(t) \/ LoopBreak(t)
  <2>1. \E l : Goto(t, l)
    BY <1>6 DEF ReadClaim, ReadDecide, ReadThrottle, ReadStart, ReadSnapshot, LoopBreak
  <2>2. loc' = [loc EXCEPT ![t] = loc'[t]] /\ loc'[t].fd = loc[t].fd
    BY <1>1, <1>6 DEF ReadClaim, ReadDecide, ReadThrottle, ReadStart, ReadSnapshot, LoopBreak,
                      ThreadInv, CallLocals
  <2> QED
    BY <1>5, <2>1, <2>2
<1>7. CASE (\E why \in Aborts : VisitAborted(t, why)) \/ VisitSkip(t) \/ VisitEmit(t)
             \/ ReadFlush(t)
  <2>1. \E l : Goto(t, l)
    <3>1. Goto(t, "read_out") \/ UNCHANGED pc
      BY <1>7 DEF VisitAborted, VisitSkip, VisitEmit, ReadFlush
    <3>2. UNCHANGED pc => Goto(t, pc[t])
      BY DEF Goto, ThreadInv
    <3> QED
      BY <3>1, <3>2
  <2>2. loc' = [loc EXCEPT ![t] = loc'[t]] /\ loc'[t].fd = loc[t].fd
    <3>1. CASE \E why \in Aborts : VisitAborted(t, why)
      BY <1>1, <3>1 DEF VisitAborted, ThreadInv, CallLocals
    <3>2. CASE VisitSkip(t)
      BY <1>1, <3>2 DEF VisitSkip, ThreadInv, CallLocals
    <3>3. CASE VisitEmit(t)
      BY <1>1, <3>3 DEF VisitEmit, ThreadInv, CallLocals
    <3>4. CASE ReadFlush(t)
      BY <1>1, <3>4 DEF ReadFlush, ThreadInv, CallLocals
    <3> QED
      BY <1>7, <3>1, <3>2, <3>3, <3>4
  <2> QED
    BY <1>5, <2>1, <2>2
<1> QED
  BY <1>2, <1>3, <1>4, <1>6, <1>7 DEF ReadStep, IoctlStep

LEMMA HeldNext == DevInv /\ HeldInv /\ [Next]_vars => HeldInv'
<1> SUFFICES ASSUME DevInv, HeldInv, [Next]_vars PROVE HeldInv'
  OBVIOUS
<1> USE DEF DevInv
<1>1. ASSUME NEW f \in Files, Close(f) PROVE HeldInv'
  BY <1>1, HeldKept DEF Close, FileInv, OpenTypes
<1>2. ASSUME NEW f \in Files, Dtor(f) PROVE HeldInv'
  <2> SUFFICES ASSUME NEW u \in Threads, Using(pc[u])
               PROVE  file'[loc[u].fd] \in {"open", "closing"}
    BY <1>2 DEF Dtor, HeldInv
  <2>1. loc[u].fd \in Files /\ loc[u].fd # f
    BY <1>2 DEF Dtor, ThreadInv, Using
  <2> QED
    BY <1>2, <2>1 DEF Dtor, ReleaseFile, HeldInv, FileInv, OpenTypes
<1>3. ASSUME Environment PROVE HeldInv'
  <2>1. UNCHANGED <<file, pc>> /\ \A u \in Threads : loc'[u].fd = loc[u].fd
    <3>1. /\ UNCHANGED <<file, pc>>
          /\ UNCHANGED loc \/ \E g \in Generations : loc' = Disturbed(Files, {g})
      BY <1>3 DEF Environment, PcbAlloc, PcbFree, PcbChange, SetTunable, Tick, openVars
    <3>2. ASSUME NEW g \in Generations, loc' = Disturbed(Files, {g}), NEW u \in Threads
          PROVE  loc'[u].fd = loc[u].fd
      BY <3>2, DisturbedTyped
    <3> QED
      BY <3>1, <3>2
  <2> QED
    BY <2>1, HeldKept
<1>4. CASE UNCHANGED vars
  BY <1>4, HeldKept DEF vars, openVars
<1> QED
  BY <1>1, <1>2, <1>3, <1>4, HeldCall, HeldOpenStep, HeldStep DEF Next, ThreadStep

LEMMA FreshNext == DevInv /\ FreshInv /\ [Next]_vars => FreshInv'
<1> SUFFICES ASSUME DevInv, FreshInv, [Next]_vars PROVE FreshInv'
  OBVIOUS
<1>1. CASE UNCHANGED <<pcb, gencnt>>
  BY <1>1 DEF FreshInv
<1>2. CASE (\E k \in Kinds : PcbAlloc(k)) \/ (\E g \in Generations : PcbFree(g))
  <2>1. gencnt \in Int /\ Generations \subseteq Int
    BY DEF DevInv, EnvTypes, Generations
  <2>2. gencnt' = gencnt + 1
    BY <1>2 DEF PcbAlloc, PcbFree
  <2>3. ASSUME NEW g \in Generations, g > gencnt + 1 PROVE pcb'[g] \in {pcb[g], NoPcb}
    <3>1. pcb \in [Generations -> Kinds \cup {NoPcb}]
      BY DEF DevInv, EnvTypes
    <3>2. ASSUME NEW k \in Kinds, PcbAlloc(k) PROVE pcb'[g] = pcb[g]
      BY <2>1, <2>3, <3>1, <3>2 DEF PcbAlloc
    <3>3. ASSUME NEW h \in Generations, PcbFree(h) PROVE pcb'[g] \in {pcb[g], NoPcb}
      BY <3>1, <3>3 DEF PcbFree
    <3> QED
      BY <1>2, <3>2, <3>3
  <2> QED
    BY <2>1, <2>2, <2>3 DEF FreshInv
<1>3. CASE \E g \in Generations, k \in Kinds : PcbChange(g, k)
  BY <1>3 DEF FreshInv, PcbChange, Live, DevInv, EnvTypes
<1>4. CASE Environment
  BY <1>1, <1>2, <1>3, <1>4 DEF Environment, SetTunable, Tick
<1>5. ASSUME NEW t \in Threads, Call(t) \/ ThreadStep(t) PROVE UNCHANGED <<pcb, gencnt>>
  <2>1. UNCHANGED envVars
    BY <1>5 DEF Call, OpenClaim, ReadCall, SetFilterCall, Reset, ThreadStep, OpenStep,
         OpenDecide, OpenUndo, OpenDone, ReleaseFile,
         ReadStep, IoctlStep, ReadEof, ReadClaim, ReadDecide, ReadThrottle, ReadStart,
         ReadSnapshot, LoopBreak, VisitAborted, VisitSkip, VisitEmit,
         ReadFinish, ReadFlush, ReadLeave, SetFilterCopy, SetFilterReturn, sharedVars
  <2> QED
    BY <2>1 DEF envVars
<1>6. ASSUME NEW f \in Files, Close(f) \/ Dtor(f) PROVE UNCHANGED <<pcb, gencnt>>
  BY <1>6 DEF Close, Dtor, ReleaseFile, envVars
<1> QED
  BY <1>1, <1>4, <1>5, <1>6 DEF Next, vars, envVars

---------------------------------------------------------------------------
(* What has been emitted of the part of the table the iterator has passed. *)

\* Of the undisturbed sockets at or above the iterator, those let through and
\* no other have been emitted; at the end of the table there is none below.
CompleteOK(t) ==
  pc[t] \in Walking =>
    LET r == loc[t] IN
    /\ r.stable \subseteq Live
    /\ \A g \in r.stable : r.pos <= g => (VerdictOf(t, g) = "emit" <=> g \in Emitted(t))
    /\ r.end = "eof" => \A g \in r.stable : r.pos <= g

CompleteInv == \A t \in Threads : CompleteOK(t)

WalkLocals(r) == <<r.fd, r.out, r.pos, r.end, r.gencnt>>

\* Thread u walks on as before, and what its verdicts depend on is as before
\* for the sockets still undisturbed.
LEMMA CompleteKept ==
  ASSUME NEW u \in Threads, CompleteOK(u), pc'[u] = pc[u],
         pc[u] \in Walking =>
           /\ WalkLocals(loc'[u]) = WalkLocals(loc[u])
           /\ loc'[u].stable \subseteq loc[u].stable
           /\ \A g \in loc'[u].stable :
                /\ pcb'[g] = pcb[g]
                /\ sc'[loc[u].fd].filter = sc[loc[u].fd].filter
                /\ sc'[loc[u].fd].cred = sc[loc[u].fd].cred
  PROVE  CompleteOK(u)'
<1> SUFFICES ASSUME pc[u] \in Walking PROVE CompleteOK(u)'
  BY DEF CompleteOK
<1>1. /\ loc'[u].fd = loc[u].fd /\ loc'[u].out = loc[u].out /\ loc'[u].pos = loc[u].pos
      /\ loc'[u].end = loc[u].end /\ loc'[u].gencnt = loc[u].gencnt
  BY DEF WalkLocals
<1>2. loc'[u].stable \subseteq Live'
  BY DEF CompleteOK, Live
<1>3. ASSUME NEW g \in loc'[u].stable PROVE VerdictOf(u, g)' = VerdictOf(u, g)
  BY <1>1, <1>3 DEF VerdictOf
<1>4. Emitted(u)' = Emitted(u)
  BY <1>1 DEF Emitted
<1> QED
  BY <1>1, <1>2, <1>3, <1>4 DEF CompleteOK

\* A step of thread t that leaves the sockets alone, and the filter and the
\* credential of every file another thread reads.
LEMMA CompleteMove ==
  ASSUME CompleteInv, ThreadInv, NEW t \in Threads, NEW l, NEW r, Enter(t, l, r),
         UNCHANGED pcb,
         \A u \in Threads \ {t} : pc[u] \in Walking =>
           /\ sc'[loc[u].fd].filter = sc[loc[u].fd].filter
           /\ sc'[loc[u].fd].cred = sc[loc[u].fd].cred,
         CompleteOK(t)' \/ l \notin Walking
  PROVE  CompleteInv'
<1> SUFFICES ASSUME NEW u \in Threads PROVE CompleteOK(u)'
  BY DEF CompleteInv
<1>1. CASE u = t
  <2>1. pc'[t] = l
    BY DEF Enter, Goto, ThreadInv
  <2> QED
    BY <1>1, <2>1 DEF CompleteOK
<1>2. CASE u # t
  <2>1. pc'[u] = pc[u] /\ loc'[u] = loc[u]
    BY <1>2 DEF Enter, Goto, ThreadInv
  <2> QED
    BY <1>2, <2>1, CompleteKept DEF CompleteInv
<1> QED
  BY <1>1, <1>2

\* The parts of the softcs that a verdict depends on stay as they are.
SoftcsKept ==
  \A f \in Files : sc'[f].filter = sc[f].filter /\ sc'[f].cred = sc[f].cred

\* Nothing a walk depends on changes.
LEMMA CompleteSame ==
  ASSUME CompleteInv, ThreadInv, UNCHANGED <<pcb, pc, loc>>, SoftcsKept
  PROVE  CompleteInv'
<1> SUFFICES ASSUME NEW u \in Threads PROVE CompleteOK(u)'
  BY DEF CompleteInv
<1>1. pc[u] \in Walking => loc[u].fd \in Files
  BY DEF ThreadInv, Walking
<1> QED
  BY <1>1, CompleteKept DEF CompleteInv, SoftcsKept

\* Thread t leaves its walk, or is in none, and no softc changes.
LEMMA CompleteAway ==
  ASSUME CompleteInv, ThreadInv, NEW t \in Threads, NEW l, NEW r, Enter(t, l, r),
         UNCHANGED pcb, SoftcsKept, l \notin Walking
  PROVE  CompleteInv'
<1>1. \A u \in Threads : pc[u] \in Walking => loc[u].fd \in Files
  BY DEF ThreadInv, Walking
<1> QED
  BY <1>1, CompleteMove DEF SoftcsKept

LEMMA SoftcsSame == UNCHANGED sc => SoftcsKept
BY DEF SoftcsKept

\* A softc is stored into, less its filter and its credential.
LEMMA SoftcsStored ==
  ASSUME FileInv, NEW f \in Files, NEW s, sc' = [sc EXCEPT ![f] = s],
         s.filter = sc[f].filter, s.cred = sc[f].cred
  PROVE  SoftcsKept
BY DEF SoftcsKept, FileInv

\* A thread that walks is on a file that is neither free nor being opened.
LEMMA WalkingHeld ==
  ASSUME HeldInv, ThreadInv, NEW u \in Threads, pc[u] \in Walking
  PROVE  loc[u].fd \in Files /\ file[loc[u].fd] \in {"open", "closing"}
BY DEF HeldInv, ThreadInv, Using, Walking

---------------------------------------------------------------------------
(* The steps outside the loop.                                             *)

LEMMA CompleteCall ==
  ASSUME CompleteInv, HeldInv, DevInv, NEW t \in Threads, Call(t)
  PROVE  CompleteInv'
<1> USE DEF DevInv
<1>1. ASSUME NEW f \in Files, NEW c \in Creds, OpenClaim(t, f, c) PROVE CompleteInv'
  <2>1. \A u \in Threads : pc[u] \in Walking => loc[u].fd # f
    BY <1>1, WalkingHeld DEF OpenClaim
  <2>2. \A u \in Threads : pc[u] \in Walking => sc'[loc[u].fd] = sc[loc[u].fd]
    BY <1>1, <2>1, WalkingHeld DEF OpenClaim, FileInv
  <2>3. UNCHANGED pcb
    BY <1>1 DEF OpenClaim, envVars
  <2> QED
    BY <1>1, <2>2, <2>3, CompleteMove DEF OpenClaim, Walking
<1>2. ASSUME NEW f \in Files, NEW n \in BufSizes, ReadCall(t, f, n) PROVE CompleteInv'
  <2>1. UNCHANGED pcb /\ SoftcsKept
    BY <1>2, SoftcsSame DEF ReadCall, sharedVars, envVars
  <2> QED
    BY <1>2, <2>1, CompleteAway DEF ReadCall, Walking
<1>3. ASSUME NEW f \in Files, NEW flt \in Filters, SetFilterCall(t, f, flt) PROVE CompleteInv'
  <2>1. UNCHANGED pcb /\ SoftcsKept
    BY <1>3, SoftcsSame DEF SetFilterCall, sharedVars, envVars
  <2> QED
    BY <1>3, <2>1, CompleteAway DEF SetFilterCall, Walking
<1>4. ASSUME NEW f \in Files, Reset(t, f) PROVE CompleteInv'
  <2> DEFINE s == [sc[f] EXCEPT !.done = FALSE, !.walks = 0]
  <2>1. s.filter = sc[f].filter /\ s.cred = sc[f].cred
    BY DEF FileInv, Softcs
  <2>2. sc' = [sc EXCEPT ![f] = s] /\ UNCHANGED <<pcb, pc, loc>>
    BY <1>4 DEF Reset, envVars
  <2> HIDE DEF s
  <2> QED
    BY <2>1, <2>2, SoftcsStored, CompleteSame
<1> QED
  BY <1>1, <1>2, <1>3, <1>4 DEF Call

\* Giving back a struct file that no read holds.
LEMMA ReleaseKeeps ==
  ASSUME HeldInv, DevInv, NEW f \in Files, ReleaseFile(f),
         \A u \in Threads : pc[u] \in Walking => loc[u].fd # f
  PROVE  /\ UNCHANGED pcb
         /\ \A u \in Threads : pc[u] \in Walking => sc'[loc[u].fd] = sc[loc[u].fd]
BY WalkingHeld DEF ReleaseFile, envVars, DevInv, FileInv

LEMMA CompleteOpenStep ==
  ASSUME CompleteInv, HeldInv, DevInv, NEW t \in Threads, OpenStep(t)
  PROVE  CompleteInv'
<1> USE DEF DevInv
<1> DEFINE f == loc[t].fd
<1>1. f \in Files
  BY DEF OpenStep, OpenDecide, OpenUndo, OpenDone, ThreadInv
<1>2. CASE OpenDecide(t)
  <2> DEFINE s == [sc[f] EXCEPT !.old = 0]
  <2>1. s.filter = sc[f].filter /\ s.cred = sc[f].cred
    BY <1>1 DEF FileInv, Softcs
  <2>2. sc' = [sc EXCEPT ![f] = s] /\ UNCHANGED <<pcb, pc, loc>>
    BY <1>2 DEF OpenDecide, envVars
  <2> HIDE DEF s
  <2> QED
    BY <1>1, <2>1, <2>2, SoftcsStored, CompleteSame
<1>3. CASE OpenUndo(t)
  <2>1. \A u \in Threads : pc[u] \in Walking => loc[u].fd # f
    BY <1>3, WalkingHeld DEF OpenUndo
  <2>2. /\ UNCHANGED pcb
        /\ \A u \in Threads : pc[u] \in Walking => sc'[loc[u].fd] = sc[loc[u].fd]
    BY <1>1, <1>3, <2>1, ReleaseKeeps DEF OpenUndo
  <2> QED
    BY <1>3, <2>2, CompleteMove DEF OpenUndo, Return, Walking
<1>4. CASE OpenDone(t)
  <2>1. UNCHANGED pcb /\ SoftcsKept
    BY <1>4, SoftcsSame DEF OpenDone, envVars
  <2> QED
    BY <1>4, <2>1, CompleteAway DEF OpenDone, Return, Walking
<1> QED
  BY <1>2, <1>3, <1>4 DEF OpenStep

LEMMA CompleteIoctlStep ==
  ASSUME CompleteInv, HeldInv, DevInv, NEW t \in Threads, IoctlStep(t)
  PROVE  CompleteInv'
<1> USE DEF DevInv
<1>1. ASSUME NEW k \in Differing, SetFilterCopy(t, k) PROVE CompleteInv'
  <2> SUFFICES ASSUME NEW u \in Threads, pc[u] \in Walking PROVE CompleteOK(u)'
    BY <1>1 DEF CompleteInv, CompleteOK, SetFilterCopy
  <2> DEFINE d == Disturbed({loc[t].fd}, Generations)
  <2>1. u # t /\ loc[t].fd \in Files /\ loc[u] \in CallLocals
    BY <1>1 DEF SetFilterCopy, Walking, ThreadInv
  <2>2. loc'[u] = d[u]
    <3>1. d \in [Threads -> CallLocals]
      BY DisturbedTyped
    <3>2. loc' = [d EXCEPT ![t].todo = @ \ {k}]
      BY <1>1 DEF SetFilterCopy
    <3> HIDE DEF d
    <3> QED
      BY <2>1, <3>1, <3>2
  <2>3. UNCHANGED <<pc, pcb>>
    BY <1>1 DEF SetFilterCopy, envVars
  <2>4. CASE loc[u].fd = loc[t].fd
    <3>1. loc'[u] = [loc[u] EXCEPT !.stable = @ \ Generations]
      BY <2>2, <2>4 DEF Disturbed
    <3>2. loc'[u].stable = {} /\ WalkLocals(loc'[u]) = WalkLocals(loc[u])
      BY <2>1, <3>1 DEF CallLocals, WalkLocals
    <3> QED
      BY <2>3, <3>2, CompleteKept DEF CompleteInv
  <2>5. CASE loc[u].fd # loc[t].fd
    <3>1. loc'[u] = loc[u]
      BY <2>2, <2>5 DEF Disturbed
    <3>2. sc'[loc[u].fd] = sc[loc[u].fd]
      BY <1>1, <2>1, <2>5, WalkingHeld DEF SetFilterCopy, FileInv
    <3> QED
      BY <2>3, <3>1, <3>2, CompleteKept DEF CompleteInv
  <2> QED
    BY <2>4, <2>5
<1>2. CASE SetFilterReturn(t)
  <2>1. UNCHANGED pcb /\ SoftcsKept
    BY <1>2, SoftcsSame DEF SetFilterReturn, sharedVars, envVars
  <2> QED
    BY <1>2, <2>1, CompleteAway DEF SetFilterReturn, Return, Walking
<1> QED
  BY <1>1, <1>2 DEF IoctlStep

\* The network stack changes one socket, and the walks forget its verdict; or
\* it adds one that no walk has seen.
LEMMA CompleteEnvironment ==
  ASSUME CompleteInv, FreshInv, DevInv, Environment
  PROVE  CompleteInv'
<1> USE DEF DevInv
<1>1. UNCHANGED <<sc, pc>>
  BY DEF Environment, PcbAlloc, PcbFree, PcbChange, SetTunable, Tick
<1>2. ASSUME NEW g \in Generations, loc' = Disturbed(Files, {g}),
             \A h \in Generations \ {g} : pcb'[h] = pcb[h]
      PROVE  CompleteInv'
  <2> SUFFICES ASSUME NEW u \in Threads PROVE CompleteOK(u)'
    BY DEF CompleteInv
  <2>1. CASE pc[u] \in Walking
    <3>1. loc[u].fd \in Files /\ loc[u] \in CallLocals
      BY <2>1 DEF ThreadInv, Walking
    <3>2. loc'[u] = [loc[u] EXCEPT !.stable = @ \ {g}]
      BY <1>2, <3>1 DEF Disturbed
    <3>3. /\ loc'[u].stable = loc[u].stable \ {g} /\ loc[u].stable \subseteq Generations
          /\ WalkLocals(loc'[u]) = WalkLocals(loc[u])
      BY <3>1, <3>2 DEF CallLocals, WalkLocals
    <3> QED
      BY <1>1, <1>2, <3>3, CompleteKept DEF CompleteInv
  <2>2. CASE pc[u] \notin Walking
    BY <1>1, <2>2 DEF CompleteOK
  <2> QED
    BY <2>1, <2>2
<1>3. ASSUME NEW k \in Kinds, PcbAlloc(k) PROVE CompleteInv'
  <2> SUFFICES ASSUME NEW u \in Threads, pc[u] \in Walking PROVE CompleteOK(u)'
    BY <1>1 DEF CompleteInv, CompleteOK
  <2>1. gencnt + 1 \in Generations /\ gencnt + 1 > gencnt
    BY <1>3, DevAssumption DEF PcbAlloc, EnvTypes, Generations
  <2>2. gencnt + 1 \notin loc[u].stable
    BY <2>1 DEF FreshInv, CompleteInv, CompleteOK, Live
  <2>3. \A g \in loc[u].stable : pcb'[g] = pcb[g]
    BY <1>3, <2>2 DEF PcbAlloc, EnvTypes, CompleteInv, CompleteOK, Live
  <2>4. UNCHANGED loc
    BY <1>3 DEF PcbAlloc
  <2> QED
    BY <1>1, <2>3, <2>4, CompleteKept DEF CompleteInv
<1>4. ASSUME NEW g \in Generations, PcbFree(g) \/ \E k \in Kinds : PcbChange(g, k)
      PROVE  CompleteInv'
  BY <1>2, <1>4 DEF PcbFree, PcbChange, EnvTypes
<1>5. CASE Tick \/ \E k \in TunableNames : \E n \in TunableValues[k] : SetTunable(k, n)
  BY <1>1, <1>5, SoftcsSame, CompleteSame DEF Tick, SetTunable
<1> QED
  BY <1>3, <1>4, <1>5 DEF Environment

\* The steps of a read before its loop and after it.
LEMMA CompleteOuterStep ==
  ASSUME CompleteInv, HeldInv, DevInv, NEW t \in Threads,
         \/ ReadEof(t) \/ ReadClaim(t) \/ ReadDecide(t) \/ ReadThrottle(t) \/ ReadStart(t)
         \/ ReadFinish(t) \/ ReadFlush(t) \/ ReadLeave(t)
  PROVE  CompleteInv'
<1> USE DEF DevInv
<1>1. SoftcsKept
  <2>1. CASE ReadStart(t) \/ ReadFinish(t)
    <3> DEFINE f == loc[t].fd
    <3>1. f \in Files /\ sc[f] \in Softcs
      BY <2>1 DEF ReadStart, ReadFinish, ThreadInv, FileInv
    <3>2. sc' = [sc EXCEPT ![f] = sc'[f]] /\ sc'[f].filter = sc[f].filter /\ sc'[f].cred = sc[f].cred
      BY <2>1, <3>1 DEF ReadStart, ReadFinish, FileInv, Softcs
    <3> QED
      BY <3>1, <3>2, SoftcsStored
  <2>2. CASE UNCHANGED sc
    BY <2>2, SoftcsSame
  <2> QED
    BY <2>1, <2>2 DEF ReadEof, ReadClaim, ReadDecide, ReadThrottle, ReadFlush, ReadLeave, sharedVars
<1>2. UNCHANGED pcb
  BY DEF ReadEof, ReadClaim, ReadDecide, ReadThrottle, ReadStart, ReadFinish, ReadFlush,
         ReadLeave, sharedVars, envVars
<1>3. \E l : l \notin Walking /\ Goto(t, l)
  <2>1. CASE ReadFlush(t)
    BY <2>1 DEF ReadFlush, Goto, ThreadInv, Walking
  <2>2. CASE ~ ReadFlush(t)
    BY <2>2 DEF ReadEof, ReadClaim, ReadDecide, ReadThrottle, ReadStart, ReadFinish,
                ReadLeave, Return, Enter, Walking
  <2> QED
    BY <2>1, <2>2
<1>4. loc' = [loc EXCEPT ![t] = loc'[t]]
  BY DEF ReadEof, ReadClaim, ReadDecide, ReadThrottle, ReadStart, ReadFinish, ReadFlush,
         ReadLeave, Return, Enter, ThreadInv
<1> QED
  BY <1>1, <1>2, <1>3, <1>4, CompleteAway DEF Enter

---------------------------------------------------------------------------
(* The loop.                                                               *)

\* A step of thread t in which nothing shared changes.
LEMMA CompleteLocal ==
  ASSUME CompleteInv, ThreadInv, NEW t \in Threads, NEW l, NEW r, Enter(t, l, r),
         UNCHANGED sharedVars, CompleteOK(t)'
  PROVE  CompleteInv'
<1>1. UNCHANGED <<pcb, sc>>
  BY DEF sharedVars, envVars
<1> QED
  BY <1>1, CompleteMove

LEMMA CompleteSnapshot ==
  ASSUME CompleteInv, WalkInv, DevInv, NEW t \in Threads, ReadSnapshot(t)
  PROVE  CompleteInv'
<1> DEFINE r == [loc[t] EXCEPT !.gencnt = gencnt, !.pos = MaxGen + 1, !.stable = Live]
<1>1. Enter(t, "reading", r) /\ UNCHANGED sharedVars
  BY DEF ReadSnapshot, Enter
<1>2. loc[t].end = "none" /\ loc[t] \in CallLocals
  BY DEF ReadSnapshot, WalkInv, WalkOK, BeforeWalk, DevInv, ThreadInv
<1>3. loc'[t] = r /\ UNCHANGED pcb
  BY <1>1 DEF Enter, DevInv, ThreadInv, sharedVars, envVars
<1>4. r.stable = Live /\ r.pos = MaxGen + 1 /\ r.end = "none"
  BY <1>2 DEF CallLocals
<1> HIDE DEF r
<1>5. \A g \in Live : ~ (MaxGen + 1 <= g)
  BY DevAssumption DEF Live, Generations
<1>6. Live' = Live
  BY <1>3 DEF Live
<1>7. CompleteOK(t)'
  BY <1>3, <1>4, <1>5, <1>6 DEF CompleteOK
<1> QED
  BY <1>1, <1>7, CompleteLocal DEF DevInv

\* A step that ends the loop with the ending e: "eof" if nothing is ahead.
LEMMA CompleteEnd ==
  ASSUME CompleteInv, DevInv, NEW t \in Threads, NEW e, NEW b, pc[t] = "reading",
         Enter(t, "read_out", [loc[t] EXCEPT !.batch = b, !.end = e]), UNCHANGED sharedVars,
         e = "eof" => Ahead(t) = {}
  PROVE  CompleteInv'
<1> DEFINE r == [loc[t] EXCEPT !.batch = b, !.end = e]
<1>1. loc'[t] = r /\ UNCHANGED <<pcb, sc>> /\ loc[t] \in CallLocals
  BY DEF Enter, DevInv, ThreadInv, sharedVars, envVars
<1>2. /\ r.fd = loc[t].fd /\ r.out = loc[t].out /\ r.pos = loc[t].pos
      /\ r.gencnt = loc[t].gencnt /\ r.stable = loc[t].stable /\ r.end = e
  BY <1>1 DEF CallLocals
<1> HIDE DEF r
<1>3. /\ loc[t].stable \subseteq Live
      /\ \A g \in loc[t].stable :
           loc[t].pos <= g => (VerdictOf(t, g) = "emit" <=> g \in Emitted(t))
  BY DEF CompleteInv, CompleteOK, Walking
<1>4. Ahead(t) = {} => \A g \in loc[t].stable : loc[t].pos <= g
  <2>1. loc[t].pos \in Int /\ Live \subseteq Int
    BY <1>1 DEF CallLocals, Live, Generations
  <2> QED
    BY <1>3, <2>1 DEF Ahead
<1>5. Live' = Live /\ Emitted(t)' = Emitted(t)
        /\ \A g : VerdictOf(t, g)' = VerdictOf(t, g)
  BY <1>1, <1>2 DEF Live, Emitted, VerdictOf
<1>6. CompleteOK(t)'
  BY <1>1, <1>2, <1>3, <1>4, <1>5 DEF CompleteOK
<1> QED
  BY <1>6, CompleteLocal DEF DevInv

\* The elements of a sequence; appending adds one.
Elements(s) == {s[i] : i \in DOMAIN s}

LEMMA AppendElements ==
  ASSUME NEW S, NEW s \in Seq(S), NEW x \in S
  PROVE  Elements(Append(s, x)) = Elements(s) \cup {x}
<1> DEFINE u == Append(s, x)
<1>1. Len(s) \in Nat /\ DOMAIN s = 1 .. Len(s) /\ DOMAIN u = 1 .. Len(s) + 1
  OBVIOUS
<1>2. (\A i \in DOMAIN s : u[i] = s[i]) /\ u[Len(s) + 1] = x
  OBVIOUS
<1> HIDE DEF u
<1>3. DOMAIN u = DOMAIN s \cup {Len(s) + 1}
  BY <1>1
<1> QED
  BY <1>2, <1>3 DEF u, Elements

\* A visit of the next socket: it is emitted exactly if its verdict says so.
LEMMA CompleteVisit ==
  ASSUME CompleteInv, WalkInv, DevInv, NEW t \in Threads, Visiting(t), NEW r \in CallLocals,
         Enter(t, "reading", r), UNCHANGED sharedVars,
         r.fd = loc[t].fd, r.gencnt = loc[t].gencnt, r.stable = loc[t].stable,
         r.end = loc[t].end, r.pos = NextPcb(t),
         r.out = IF VerdictOf(t, NextPcb(t)) = "emit" THEN Append(loc[t].out, NextPcb(t))
                 ELSE loc[t].out
  PROVE  CompleteInv'
<1> DEFINE p == NextPcb(t)
<1>1. pc[t] = "reading" /\ loc'[t] = r /\ UNCHANGED <<pcb, sc>>
  BY DEF Visiting, Enter, DevInv, ThreadInv, sharedVars, envVars
<1>2. /\ p \in Generations /\ p \in Int /\ p < loc[t].pos
      /\ \A g \in Ahead(t) : g <= p
  BY NextPcbIs DEF Visiting, DevInv
<1>3. /\ loc[t].stable \subseteq Live
      /\ \A g \in loc[t].stable :
           loc[t].pos <= g => (VerdictOf(t, g) = "emit" <=> g \in Emitted(t))
  BY <1>1 DEF CompleteInv, CompleteOK, Walking
<1>4. p \notin Emitted(t)
  BY <1>1, <1>2, InLoop DEF OrderOK, Emitted
<1>5. Emitted(t)' = IF VerdictOf(t, p) = "emit" THEN Emitted(t) \cup {p} ELSE Emitted(t)
  <2>1. loc[t].out \in Seq(Generations)
    BY <1>1, InLoop
  <2>2. CASE VerdictOf(t, p) = "emit"
    <3>1. r.out = Append(loc[t].out, p)
      BY <2>2
    <3>2. Elements(Append(loc[t].out, p)) = Elements(loc[t].out) \cup {p}
      <4> HIDE DEF p
      <4> QED
        BY <1>2, <2>1, AppendElements
    <3>3. Emitted(t) = Elements(loc[t].out) /\ Emitted(t)' = Elements(r.out)
      BY <1>1, Zenon DEF Emitted, Elements
    <3> HIDE DEF p
    <3>4. Emitted(t)' = Emitted(t) \cup {p}
      BY <3>1, <3>2, <3>3, Zenon
    <3> QED
      BY <2>2, <3>4, Zenon DEF p
  <2>3. CASE VerdictOf(t, p) # "emit"
    BY <1>1, <2>3 DEF Emitted
  <2> QED
    BY <2>2, <2>3
<1>6. Live' = Live /\ \A g : VerdictOf(t, g)' = VerdictOf(t, g)
  BY <1>1 DEF Live, VerdictOf
<1>7. \A g \in loc[t].stable : p <= g => (g = p \/ (loc[t].pos <= g /\ g # p))
  <2>1. loc[t].pos \in Int /\ Live \subseteq Int
    BY <1>1, InLoop DEF Live, Generations
  <2> SUFFICES ASSUME NEW g \in loc[t].stable, p <= g, g # p PROVE loc[t].pos <= g
    BY <1>2
  <2>2. g \in Live /\ g \in Int
    BY <1>3, <2>1
  <2>3. CASE g < loc[t].pos
    BY <1>2, <2>2, <2>3 DEF Ahead
  <2> QED
    BY <2>1, <2>2, <2>3
<1>8. loc[t].end = "none"
  BY <1>1, InLoop
<1> HIDE DEF p
<1>9. \A g \in loc[t].stable :
        p <= g => (VerdictOf(t, g)' = "emit" <=> g \in Emitted(t)')
  BY <1>3, <1>4, <1>5, <1>6, <1>7
<1>10. CompleteOK(t)'
  BY <1>1, <1>3, <1>6, <1>8, <1>9 DEF CompleteOK, p
<1> QED
  BY <1>10, CompleteLocal DEF DevInv

LEMMA CompleteLoopStep ==
  ASSUME CompleteInv, WalkInv, DevInv, NEW t \in Threads,
         \/ LoopBreak(t) \/ (\E why \in Aborts : VisitAborted(t, why))
         \/ VisitSkip(t) \/ VisitEmit(t)
  PROVE  CompleteInv'
<1>1. pc[t] = "reading" /\ UNCHANGED sharedVars
  BY DEF LoopBreak, VisitAborted, VisitSkip, VisitEmit, Examining, Visiting
<1>2. loc[t] \in CallLocals
  BY <1>1, InLoop
<1>3. CASE LoopBreak(t)
  <2> DEFINE e == IF Ahead(t) = {} THEN "eof" ELSE "full"
  <2>1. [loc[t] EXCEPT !.batch = loc[t].batch, !.end = e] = [loc[t] EXCEPT !.end = e]
    BY <1>2 DEF CallLocals
  <2>2. Enter(t, "read_out", [loc[t] EXCEPT !.end = e])
    BY <1>3 DEF LoopBreak, Enter
  <2>3. e = "eof" => Ahead(t) = {}
    OBVIOUS
  <2> HIDE DEF e
  <2> QED
    BY <1>1, <2>1, <2>2, <2>3, CompleteEnd
<1>4. ASSUME NEW why \in Aborts, VisitAborted(t, why) PROVE CompleteInv'
  <2>1. Enter(t, "read_out", [loc[t] EXCEPT !.batch = Counted(t, why), !.end = why])
    BY <1>4 DEF VisitAborted, Enter
  <2>2. why # "eof"
    BY DEF Aborts
  <2> QED
    BY <1>1, <2>1, <2>2, CompleteEnd
<1>5. CASE VisitSkip(t) \/ VisitEmit(t)
  <2> DEFINE r == loc'[t]
  <2>1. Visiting(t) /\ UNCHANGED pc
    BY <1>5 DEF VisitSkip, VisitEmit, Examining
  <2>2. DevInv'
    BY <1>5, VisitSkipInv, VisitEmitInv
  <2>3. r \in CallLocals
    BY <2>2 DEF DevInv, ThreadInv
  <2>4. loc' = [loc EXCEPT ![t] = r]
    BY <1>5 DEF VisitSkip, VisitEmit, DevInv, ThreadInv
  <2>5. /\ r.fd = loc[t].fd /\ r.gencnt = loc[t].gencnt /\ r.stable = loc[t].stable
        /\ r.end = loc[t].end /\ r.pos = NextPcb(t)
        /\ r.out = IF VerdictOf(t, NextPcb(t)) = "emit" THEN Append(loc[t].out, NextPcb(t))
                   ELSE loc[t].out
    <3>1. CASE VisitSkip(t)
      BY <1>2, <3>1 DEF VisitSkip, DevInv, ThreadInv, CallLocals
    <3>2. CASE VisitEmit(t)
      BY <1>2, <3>2 DEF VisitEmit, DevInv, ThreadInv, CallLocals
    <3> QED
      BY <1>5, <3>1, <3>2
  <2>6. Enter(t, "reading", r)
    BY <1>1, <2>1, <2>4 DEF Enter, Goto, DevInv, ThreadInv
  <2> HIDE DEF r
  <2> QED
    BY <1>1, <2>1, <2>3, <2>5, <2>6, CompleteVisit
<1> QED
  BY <1>3, <1>4, <1>5

---------------------------------------------------------------------------
ReadsInv == DevInv /\ WalkInv /\ HeldInv /\ FreshInv /\ CompleteInv

LEMMA CompleteNext == ReadsInv /\ [Next]_vars => CompleteInv'
<1> SUFFICES ASSUME ReadsInv, [Next]_vars PROVE CompleteInv'
  OBVIOUS
<1> USE DEF ReadsInv
<1>1. ASSUME NEW t \in Threads, ReadStep(t) PROVE CompleteInv'
  BY <1>1, CompleteOuterStep, CompleteSnapshot, CompleteLoopStep DEF ReadStep
<1>2. ASSUME NEW f \in Files, Close(f) PROVE CompleteInv'
  BY <1>2, SoftcsSame, CompleteSame DEF Close, envVars, DevInv
<1>3. ASSUME NEW f \in Files, Dtor(f) PROVE CompleteInv'
  <2>1. /\ UNCHANGED pcb
        /\ \A u \in Threads : pc[u] \in Walking => sc'[loc[u].fd] = sc[loc[u].fd]
    BY <1>3, ReleaseKeeps DEF Dtor
  <2> SUFFICES ASSUME NEW u \in Threads PROVE CompleteOK(u)'
    BY DEF CompleteInv
  <2> QED
    BY <1>3, <2>1, CompleteKept DEF Dtor, CompleteInv
<1>4. CASE UNCHANGED vars
  BY <1>4, SoftcsSame, CompleteSame DEF vars, envVars, DevInv
<1> QED
  BY <1>1, <1>2, <1>3, <1>4, CompleteCall, CompleteOpenStep, CompleteIoctlStep,
     CompleteEnvironment DEF Next, ThreadStep

LEMMA ReadsInvariant == Spec => []ReadsInv
<1>1. Init => ReadsInv
  BY InitInv, WalkInit
  DEF Init, ReadsInv, HeldInv, FreshInv, CompleteInv, CompleteOK, Using, Walking
<1>2. ReadsInv /\ [Next]_vars => ReadsInv'
  BY NextInv, WalkNext, HeldNext, FreshNext, CompleteNext DEF ReadsInv
<1> QED
  BY <1>1, <1>2, PTL DEF Spec

\* A read that reaches the end of the table has emitted, of the sockets that
\* lived through it undisturbed, those and only those that the filter and the
\* opener's credential let through, whatever the other sockets, the other
\* threads and the destructors of other files did meanwhile.
THEOREM ReadsAreComplete == Spec => []SnapshotComplete
<1>1. ReadsInv => SnapshotComplete
  BY DEF ReadsInv, CompleteInv, CompleteOK, SnapshotComplete, Walking
<1> QED
  BY <1>1, ReadsInvariant, PTL

---------------------------------------------------------------------------
(* The global counters.  A flush moves a batch into them one field at a    *)
(* time, so they balance only together with the batches being flushed.     *)
(* The sum over the threads is a table of partial sums S along some        *)
(* enumeration e of the threads: S[0] is the imbalance of the global       *)
(* counters, each thread adds that of its batch, and the last is zero.     *)

Imbalance(b) == b["visited"] - b["emitted"] - Skipped(b) - Aborted(b)

Enumerates(e, n) ==
  /\ e \in [1 .. n -> Threads]
  /\ \A i, j \in 1 .. n : e[i] = e[j] => i = j
  /\ \A t \in Threads : \E i \in 1 .. n : e[i] = t

PartialSums(S, e, n) ==
  /\ S \in [0 .. n -> Int]
  /\ S[0] = Imbalance(stats) /\ S[n] = 0
  /\ \A i \in 1 .. n : S[i] = S[i - 1] + Imbalance(loc[e[i]].batch)

SumInv == \E n \in Nat : \E e, S : Enumerates(e, n) /\ PartialSums(S, e, n)

\* Only a thread that is flushing has a batch out of balance.
QuietInv == \A t \in Threads : pc[t] # "flush" => Imbalance(loc[t].batch) = 0

BalanceInv == SumInv /\ QuietInv

LEMMA ImbalanceTyped ==
  ASSUME NEW b \in [StatFields -> Nat]
  PROVE  Imbalance(b) \in Int /\ (Imbalance(b) = 0 <=> Balanced(b))
BY DEF Imbalance, Balanced, Skipped, Aborted, StatFields, Reasons, Aborts

LEMMA ImbalanceZero ==
  ASSUME NEW b \in [StatFields -> Nat], \A k \in StatFields : b[k] = 0
  PROVE  Imbalance(b) = 0
BY DEF Imbalance, Skipped, Aborted, StatFields, Reasons, Aborts

LEMMA ZeroStatsBalance == Imbalance(ZeroStats) = 0
BY ZeroStatsTyped, ImbalanceZero DEF ZeroStats

LEMMA BatchesTyped ==
  ASSUME DevInv, NEW t \in Threads
  PROVE  loc[t].batch \in [StatFields -> Nat] /\ Imbalance(loc[t].batch) \in Int
BY ImbalanceTyped DEF DevInv, ThreadInv, CallLocals

\* What storing v in counter k of b does to its imbalance.
LEMMA StoredField ==
  ASSUME NEW b \in [StatFields -> Nat], NEW k \in StatFields, NEW v \in Nat
  PROVE  Imbalance([b EXCEPT ![k] = v])
           = Imbalance(b) + IF k = "visited" THEN v - b[k] ELSE b[k] - v
<1> DEFINE c == [b EXCEPT ![k] = v]
           d == v - b[k]
<1>1. \A i \in StatFields : b[i] \in Nat
  OBVIOUS
<1>2. \A i \in StatFields : c[i] = IF i = k THEN b[i] + d ELSE b[i]
  OBVIOUS
<1>3. d \in Int /\ (IF k = "visited" THEN v - b[k] ELSE b[k] - v) = IF k = "visited" THEN d ELSE -d
  OBVIOUS
<1> HIDE DEF c, d
<1>4. c["visited"] = b["visited"] + IF k = "visited" THEN d ELSE 0
  BY <1>1, <1>2, <1>3 DEF StatFields
<1>5. c["emitted"] = b["emitted"] + IF k = "emitted" THEN d ELSE 0
  BY <1>1, <1>2, <1>3 DEF StatFields
<1>6. Aborted(c) = Aborted(b) + IF k \in Aborts THEN d ELSE 0
  BY <1>1, <1>2, <1>3 DEF Aborted, StatFields, Aborts
<1>7. Skipped(c) = Skipped(b) + IF k \in Reasons THEN d ELSE 0
  BY <1>1, <1>2, <1>3 DEF Skipped, StatFields, Reasons
<1>8. Skipped(b) \in Int /\ Aborted(b) \in Int /\ b["emitted"] \in Int /\ b["visited"] \in Int
  BY <1>1 DEF Skipped, Aborted, StatFields, Reasons, Aborts
<1>9. \/ k = "visited" /\ k # "emitted" /\ k \notin Reasons /\ k \notin Aborts
      \/ k # "visited" /\ k = "emitted" /\ k \notin Reasons /\ k \notin Aborts
      \/ k # "visited" /\ k # "emitted" /\ k \in Reasons /\ k \notin Aborts
      \/ k # "visited" /\ k # "emitted" /\ k \notin Reasons /\ k \in Aborts
  BY DEF StatFields, Reasons, Aborts
<1>10. Imbalance(c) = Imbalance(b) + IF k = "visited" THEN d ELSE -d
  BY <1>3, <1>4, <1>5, <1>6, <1>7, <1>8, <1>9 DEF Imbalance
<1> QED
  BY <1>3, <1>10 DEF c

\* Moving counter k of c to that of b moves its part of the imbalance.
LEMMA MovedField ==
  ASSUME NEW b \in [StatFields -> Nat], NEW c \in [StatFields -> Nat], NEW k \in StatFields
  PROVE  \E d \in Int : /\ Imbalance([b EXCEPT ![k] = @ + c[k]]) = Imbalance(b) + d
                        /\ Imbalance([c EXCEPT ![k] = 0]) = Imbalance(c) - d
<1> DEFINE v == b[k] + c[k]
           d == IF k = "visited" THEN c[k] ELSE -c[k]
<1>1. b[k] \in Nat /\ c[k] \in Nat /\ v \in Nat /\ d \in Int
  OBVIOUS
<1>2. Imbalance([b EXCEPT ![k] = v])
        = Imbalance(b) + IF k = "visited" THEN v - b[k] ELSE b[k] - v
  BY <1>1, StoredField
<1>3. Imbalance([c EXCEPT ![k] = 0])
        = Imbalance(c) + IF k = "visited" THEN 0 - c[k] ELSE c[k] - 0
  BY <1>1, StoredField
<1>4. Imbalance(b) \in Int /\ Imbalance(c) \in Int
  BY ImbalanceTyped
<1>5. /\ Imbalance([b EXCEPT ![k] = v]) = Imbalance(b) + d
      /\ Imbalance([c EXCEPT ![k] = 0]) = Imbalance(c) - d
  BY <1>1, <1>2, <1>3, <1>4
<1> QED
  BY <1>1, <1>5

\* Steps that leave the global counters alone, and change or let go of no
\* batch but a balanced one, which stays balanced.
LEMMA BalanceKept ==
  ASSUME BalanceInv, UNCHANGED stats,
         \A u \in Threads :
           \/ loc'[u].batch = loc[u].batch /\ (pc'[u] = pc[u] \/ pc[u] # "flush")
           \/ Imbalance(loc[u].batch) = 0 /\ Imbalance(loc'[u].batch) = 0
  PROVE  BalanceInv'
<1>1. \A u \in Threads : /\ Imbalance(loc'[u].batch) = Imbalance(loc[u].batch)
                         /\ pc'[u] # "flush" => Imbalance(loc'[u].batch) = 0
  BY DEF BalanceInv, QuietInv
<1>2. PICK n \in Nat : \E e, S : Enumerates(e, n) /\ PartialSums(S, e, n)
  BY DEF BalanceInv, SumInv
<1>3. PICK e, S : Enumerates(e, n) /\ PartialSums(S, e, n)
  BY <1>2
<1>4. \A i \in 1 .. n : e[i] \in Threads
  BY <1>3 DEF Enumerates
<1>5. (S \in [0 .. n -> Int] /\ S[0] = Imbalance(stats) /\ S[n] = 0
        /\ \A i \in 1 .. n : S[i] = S[i - 1] + Imbalance(loc[e[i]].batch))
  BY <1>3 DEF PartialSums
<1>6. \A i \in 1 .. n : S[i] = S[i - 1] + Imbalance(loc'[e[i]].batch)
  BY <1>1, <1>4, <1>5
<1>7. PartialSums(S, e, n)'
  BY <1>5, <1>6 DEF PartialSums
<1> QED
  BY <1>1, <1>3, <1>7 DEF BalanceInv, SumInv, QuietInv, Enumerates

\* Moving d from the batch of thread e[j] to the global counters raises the
\* partial sums before the j-th by d.
LEMMA BalanceMoved ==
  ASSUME BalanceInv, DevInv, NEW t \in Threads, NEW d \in Int, pc[t] = "flush", UNCHANGED pc,
         Imbalance(stats') = Imbalance(stats) + d,
         Imbalance(loc'[t].batch) = Imbalance(loc[t].batch) - d,
         \A u \in Threads \ {t} : loc'[u].batch = loc[u].batch
  PROVE  BalanceInv'
<1>1. PICK n \in Nat : \E e, S : Enumerates(e, n) /\ PartialSums(S, e, n)
  BY DEF BalanceInv, SumInv
<1>2. PICK e, S : Enumerates(e, n) /\ PartialSums(S, e, n)
  BY <1>1
<1>3. PICK j \in 1 .. n : e[j] = t
  BY <1>2 DEF Enumerates
<1> DEFINE T == [i \in 0 .. n |-> IF i < j THEN S[i] + d ELSE S[i]]
<1>4. \A i \in 1 .. n : e[i] \in Threads /\ (i # j => e[i] # t)
  BY <1>2, <1>3 DEF Enumerates
<1>5. S \in [0 .. n -> Int] /\ S[0] = Imbalance(stats) /\ S[n] = 0
  BY <1>2 DEF PartialSums
<1>6. \A i \in 1 .. n : T[i] = T[i - 1] + Imbalance(loc'[e[i]].batch)
  <2> SUFFICES ASSUME NEW i \in 1 .. n PROVE T[i] = T[i - 1] + Imbalance(loc'[e[i]].batch)
    OBVIOUS
  <2>1. /\ i \in Int /\ i - 1 \in 0 .. n /\ i \in 0 .. n /\ j \in Int
        /\ S[i] \in Int /\ S[i - 1] \in Int
    BY <1>5
  <2>2. S[i] = S[i - 1] + Imbalance(loc[e[i]].batch) /\ Imbalance(loc[e[i]].batch) \in Int
    BY <1>2, <1>4, BatchesTyped DEF PartialSums
  <2>3. CASE i = j
    <3>1. T[i] = S[i] /\ T[i - 1] = S[i - 1] + d
      BY <2>1, <2>3
    <3>2. Imbalance(loc'[e[i]].batch) = Imbalance(loc[e[i]].batch) - d
      BY <1>3, <2>3
    <3> QED
      BY <2>1, <2>2, <3>1, <3>2
  <2>4. CASE i # j
    <3>1. Imbalance(loc'[e[i]].batch) = Imbalance(loc[e[i]].batch)
      BY <1>4, <2>4
    <3>2. (i < j <=> i - 1 < j)
      BY <2>1, <2>4
    <3>3. /\ T[i] = S[i] + (IF i < j THEN d ELSE 0)
          /\ T[i - 1] = S[i - 1] + (IF i < j THEN d ELSE 0)
      BY <2>1, <3>2
    <3> QED
      BY <2>1, <2>2, <3>1, <3>3
  <2> QED
    BY <2>3, <2>4
<1>7. T \in [0 .. n -> Int] /\ T[0] = Imbalance(stats') /\ T[n] = 0
  BY <1>5
<1> HIDE DEF T
<1>8. PartialSums(T, e, n)'
  BY <1>6, <1>7 DEF PartialSums
<1>9. QuietInv'
  BY DEF BalanceInv, QuietInv
<1> QED
  BY <1>2, <1>8, <1>9 DEF BalanceInv, SumInv, Enumerates

LEMMA BalanceFlush ==
  ASSUME BalanceInv, DevInv, NEW t \in Threads, ReadFlush(t)
  PROVE  BalanceInv'
<1> DEFINE k == StatOrder[Min(Unflushed(t))]
           c == loc[t].batch
<1>1. k \in StatFields
  BY FlushedField DEF ReadFlush
<1>2. /\ pc[t] = "flush" /\ UNCHANGED pc
      /\ stats' = [stats EXCEPT ![k] = @ + c[k]]
      /\ loc' = [loc EXCEPT ![t].batch[k] = 0]
  BY DEF ReadFlush
<1>3. /\ stats \in [StatFields -> Nat] /\ c \in [StatFields -> Nat]
      /\ loc \in [Threads -> CallLocals]
  BY DEF DevInv, ReadInv, ReadTypes, ThreadInv, CallLocals
<1> HIDE DEF k
<1>4. /\ loc'[t].batch = [c EXCEPT ![k] = 0]
      /\ \A u \in Threads \ {t} : loc'[u].batch = loc[u].batch
  BY <1>2, <1>3 DEF CallLocals
<1>5. PICK d \in Int : /\ Imbalance([stats EXCEPT ![k] = @ + c[k]]) = Imbalance(stats) + d
                       /\ Imbalance([c EXCEPT ![k] = 0]) = Imbalance(c) - d
  BY <1>1, <1>3, MovedField
<1> QED
  BY <1>2, <1>4, <1>5, BalanceMoved

\* A thread at t that is not flushing enters label l with locals r.
LEMMA BalanceEnter ==
  ASSUME BalanceInv, DevInv, NEW t \in Threads, NEW l, NEW r, Enter(t, l, r),
         UNCHANGED stats, Imbalance(loc[t].batch) = 0, Imbalance(r.batch) = 0
  PROVE  BalanceInv'
<1>1. \A u \in Threads \ {t} : loc'[u] = loc[u] /\ pc'[u] = pc[u]
  BY DEF Enter, Goto, DevInv, ThreadInv
<1>2. loc'[t] = r
  BY DEF Enter, DevInv, ThreadInv
<1> QED
  BY <1>1, <1>2, BalanceKept

LEMMA BalanceReturn ==
  ASSUME BalanceInv, DevInv, NEW t \in Threads, Return(t), UNCHANGED stats,
         Imbalance(loc[t].batch) = 0
  PROVE  BalanceInv'
<1>1. AtRest.batch = ZeroStats
  BY DEF AtRest, Locals
<1> QED
  BY <1>1, ZeroStatsBalance, BalanceEnter DEF Return

\* Steps that touch no batch.
LEMMA BalanceSilent ==
  ASSUME BalanceInv, UNCHANGED <<stats, pc>>,
         \A u \in Threads : loc'[u].batch = loc[u].batch
  PROVE  BalanceInv'
BY BalanceKept

LEMMA BalanceCall ==
  ASSUME BalanceInv, DevInv, NEW t \in Threads, Call(t)
  PROVE  BalanceInv'
<1>1. \A f : Locals(f, 0).batch = ZeroStats
  BY DEF Locals
<1>2. ASSUME NEW f \in Files, NEW c \in Creds, OpenClaim(t, f, c) PROVE BalanceInv'
  <2>1. UNCHANGED stats /\ Imbalance(loc[t].batch) = 0
    BY <1>2 DEF OpenClaim, readVars, BalanceInv, QuietInv
  <2> QED
    BY <1>1, <1>2, <2>1, ZeroStatsBalance, BalanceEnter DEF OpenClaim
<1>3. ASSUME NEW f \in Files, NEW n \in BufSizes, ReadCall(t, f, n) PROVE BalanceInv'
  <2>1. UNCHANGED stats /\ Imbalance(loc[t].batch) = 0
    BY <1>3 DEF ReadCall, sharedVars, readVars, BalanceInv, QuietInv
  <2>2. Locals(f, n).batch = ZeroStats
    BY DEF Locals
  <2> QED
    BY <1>3, <2>1, <2>2, ZeroStatsBalance, BalanceEnter DEF ReadCall
<1>4. ASSUME NEW f \in Files, NEW flt \in Filters, SetFilterCall(t, f, flt) PROVE BalanceInv'
  <2> DEFINE r == [Locals(f, 0) EXCEPT !.filter = flt, !.todo = Differing]
  <2>1. UNCHANGED stats /\ Imbalance(loc[t].batch) = 0
    BY <1>4 DEF SetFilterCall, sharedVars, readVars, BalanceInv, QuietInv
  <2>2. r.batch = ZeroStats
    BY DEF Locals
  <2>3. Enter(t, "set_filter", r)
    BY <1>4 DEF SetFilterCall
  <2> HIDE DEF r
  <2> QED
    BY <2>1, <2>2, <2>3, ZeroStatsBalance, BalanceEnter
<1>5. ASSUME NEW f \in Files, Reset(t, f) PROVE BalanceInv'
  BY <1>5, BalanceSilent DEF Reset, readVars
<1> QED
  BY <1>2, <1>3, <1>4, <1>5 DEF Call

LEMMA BalanceOpenStep ==
  ASSUME BalanceInv, DevInv, NEW t \in Threads, OpenStep(t)
  PROVE  BalanceInv'
<1>1. UNCHANGED stats /\ Imbalance(loc[t].batch) = 0
  BY DEF OpenStep, OpenDecide, OpenUndo, OpenDone, ReleaseFile, readVars, BalanceInv, QuietInv
<1>2. CASE OpenDecide(t)
  BY <1>1, <1>2, BalanceSilent DEF OpenDecide
<1>3. CASE OpenUndo(t) \/ OpenDone(t)
  BY <1>1, <1>3, BalanceReturn DEF OpenUndo, OpenDone
<1> QED
  BY <1>2, <1>3 DEF OpenStep

LEMMA BalanceIoctlStep ==
  ASSUME BalanceInv, DevInv, NEW t \in Threads, IoctlStep(t)
  PROVE  BalanceInv'
<1>1. ASSUME NEW k \in Differing, SetFilterCopy(t, k) PROVE BalanceInv'
  <2> DEFINE d == Disturbed({loc[t].fd}, Generations)
  <2>1. d \in [Threads -> CallLocals] /\ \A u \in Threads : d[u].batch = loc[u].batch
    BY DisturbedTyped, DisturbedWalk DEF DevInv
  <2>2. loc' = [d EXCEPT ![t].todo = @ \ {k}] /\ UNCHANGED <<stats, pc>>
    BY <1>1 DEF SetFilterCopy, readVars
  <2> HIDE DEF d
  <2>3. \A u \in Threads : loc'[u].batch = d[u].batch
    BY <2>1, <2>2 DEF CallLocals
  <2> QED
    BY <2>1, <2>2, <2>3, BalanceSilent
<1>2. CASE SetFilterReturn(t)
  <2>1. UNCHANGED stats /\ Imbalance(loc[t].batch) = 0
    BY <1>2 DEF SetFilterReturn, sharedVars, readVars, BalanceInv, QuietInv
  <2> QED
    BY <1>2, <2>1, BalanceReturn DEF SetFilterReturn
<1> QED
  BY <1>1, <1>2 DEF IoctlStep

LEMMA BalanceEnvironment ==
  ASSUME BalanceInv, DevInv, Environment
  PROVE  BalanceInv'
<1>1. UNCHANGED <<stats, pc>>
  BY DEF Environment, PcbAlloc, PcbFree, PcbChange, SetTunable, Tick, readVars
<1>2. UNCHANGED loc \/ \E g \in Generations : loc' = Disturbed(Files, {g})
  BY DEF Environment, PcbAlloc, PcbFree, PcbChange, SetTunable, Tick
<1>3. ASSUME NEW g \in Generations, loc' = Disturbed(Files, {g}), NEW u \in Threads
      PROVE  loc'[u].batch = loc[u].batch
  BY <1>3, DisturbedWalk DEF DevInv
<1>4. \A u \in Threads : loc'[u].batch = loc[u].batch
  BY <1>2, <1>3
<1> QED
  BY <1>1, <1>4, BalanceSilent

\* A visit is charged to one counter: the batch stays balanced.
LEMMA BalanceVisit ==
  ASSUME BalanceInv, WalkInv, DevInv, NEW t \in Threads, pc[t] = "reading",
         NEW k \in StatFields \ {"visited"}, NEW l, NEW r, Enter(t, l, r),
         r.batch = Counted(t, k), UNCHANGED stats
  PROVE  BalanceInv'
<1>1. /\ loc[t].batch \in [StatFields -> Nat] /\ Balanced(loc[t].batch)
      /\ Counted(t, k) \in [StatFields -> Nat]
  BY InLoop, CountedTyped DEF BatchOK, DevInv
<1>2. Balanced(Counted(t, k))
  BY <1>1, CountedSums
<1>3. Imbalance(loc[t].batch) = 0 /\ Imbalance(r.batch) = 0
  BY <1>1, <1>2, ImbalanceTyped
<1> QED
  BY <1>3, BalanceEnter

LEMMA BalanceLoopStep ==
  ASSUME BalanceInv, WalkInv, DevInv, NEW t \in Threads,
         (\E why \in Aborts : VisitAborted(t, why)) \/ VisitSkip(t) \/ VisitEmit(t)
  PROVE  BalanceInv'
<1>1. /\ pc[t] = "reading" /\ UNCHANGED stats /\ loc[t] \in CallLocals
      /\ loc \in [Threads -> CallLocals] /\ pc \in [Threads -> Labels]
  BY DEF VisitAborted, VisitSkip, VisitEmit, Examining, Visiting, sharedVars, readVars,
         DevInv, ThreadInv
<1>2. UNCHANGED pc => Goto(t, "reading")
  BY <1>1 DEF Goto
<1>3. ASSUME NEW why \in Aborts, VisitAborted(t, why) PROVE BalanceInv'
  <2> DEFINE r == [loc[t] EXCEPT !.batch = Counted(t, why), !.end = why]
  <2>1. r.batch = Counted(t, why) /\ why \in StatFields \ {"visited"}
    BY <1>1 DEF CallLocals, Aborts, StatFields
  <2>2. Enter(t, "read_out", r)
    BY <1>1, <1>3 DEF VisitAborted, Enter
  <2> HIDE DEF r
  <2> QED
    BY <1>1, <2>1, <2>2, BalanceVisit
<1>4. CASE VisitSkip(t)
  <2> DEFINE k == VerdictOf(t, NextPcb(t))
             r == [loc[t] EXCEPT !.batch = Counted(t, k), !.pos = NextPcb(t),
                                 !.late = Lateness(t)]
  <2>1. k \in StatFields \ {"visited"}
    BY <1>4, VerdictRange DEF VisitSkip, VerdictOf, StatFields, Reasons
  <2>2. r.batch = Counted(t, k)
    BY <1>1 DEF CallLocals
  <2>3. Enter(t, "reading", r)
    BY <1>1, <1>2, <1>4 DEF VisitSkip, Enter
  <2> HIDE DEF r, k
  <2> QED
    BY <1>1, <2>1, <2>2, <2>3, BalanceVisit
<1>5. CASE VisitEmit(t)
  <2> DEFINE r == [loc[t] EXCEPT !.batch = Counted(t, "emitted"), !.pos = NextPcb(t),
                                 !.late = Lateness(t), !.resid = @ - 1,
                                 !.out = Append(@, NextPcb(t))]
  <2>1. r.batch = Counted(t, "emitted") /\ "emitted" \in StatFields \ {"visited"}
    BY <1>1 DEF CallLocals, StatFields
  <2>2. Enter(t, "reading", r)
    BY <1>1, <1>2, <1>5 DEF VisitEmit, Enter
  <2> HIDE DEF r
  <2> QED
    BY <1>1, <2>1, <2>2, BalanceVisit
<1> QED
  BY <1>3, <1>4, <1>5

LEMMA BalanceReadStep ==
  ASSUME BalanceInv, WalkInv, DevInv, NEW t \in Threads, ReadStep(t)
  PROVE  BalanceInv'
<1>1. /\ loc \in [Threads -> CallLocals] /\ pc \in [Threads -> Labels]
      /\ loc[t].batch \in [StatFields -> Nat]
  BY BatchesTyped DEF DevInv, ThreadInv
<1>2. CASE \/ ReadClaim(t) \/ ReadDecide(t) \/ ReadThrottle(t) \/ ReadStart(t)
           \/ ReadSnapshot(t) \/ LoopBreak(t)
  <2>1. UNCHANGED stats /\ pc[t] # "flush" /\ \E l : Goto(t, l)
    BY <1>2 DEF ReadClaim, ReadDecide, ReadThrottle, ReadStart, ReadSnapshot, LoopBreak,
                sharedVars, readVars
  <2>2. \A u \in Threads : loc'[u].batch = loc[u].batch
    <3>1. loc' = [loc EXCEPT ![t] = loc'[t]] /\ loc'[t].batch = loc[t].batch
      BY <1>1, <1>2 DEF ReadClaim, ReadDecide, ReadThrottle, ReadStart, ReadSnapshot, LoopBreak,
                        CallLocals
    <3> QED
      BY <1>1, <3>1
  <2>3. \A u \in Threads \ {t} : pc'[u] = pc[u]
    BY <1>1, <2>1 DEF Goto
  <2> QED
    BY <2>1, <2>2, <2>3, BalanceKept
<1>3. CASE ReadFinish(t)
  <2> DEFINE r == [Locals(loc[t].fd, 0) EXCEPT !.batch = loc[t].batch]
  <2>1. UNCHANGED stats /\ Imbalance(loc[t].batch) = 0 /\ Enter(t, "flush", r)
    BY <1>3 DEF ReadFinish, readVars, BalanceInv, QuietInv
  <2>2. r.batch = loc[t].batch
    BY DEF Locals
  <2> HIDE DEF r
  <2> QED
    BY <2>1, <2>2, BalanceEnter
<1>4. CASE ReadEof(t) \/ ReadLeave(t)
  <2>1. UNCHANGED stats /\ Return(t)
    BY <1>4 DEF ReadEof, ReadLeave, sharedVars, readVars
  <2>2. Imbalance(loc[t].batch) = 0
    <3>1. CASE pc[t] # "flush"
      BY <3>1 DEF BalanceInv, QuietInv
    <3>2. CASE pc[t] = "flush"
      <4>1. Unflushed(t) = {}
        BY <1>4, <3>2 DEF ReadEof, ReadLeave
      <4>2. \A k \in StatFields : \E i \in DOMAIN StatOrder : StatOrder[i] = k
        <5>1. DOMAIN StatOrder = 1 .. 11
          BY DEF StatOrder
        <5>2. /\ StatOrder[1] = "emitted" /\ StatOrder[2] = "visited"
              /\ StatOrder[3] = "gencnt" /\ StatOrder[4] = "cred" /\ StatOrder[5] = "ipver"
              /\ StatOrder[6] = "state" /\ StatOrder[7] = "port" /\ StatOrder[8] = "addr"
              /\ StatOrder[9] = "uiomove_errors" /\ StatOrder[10] = "timed_out"
              /\ StatOrder[11] = "interrupted"
          BY DEF StatOrder
        <5> QED
          BY <5>1, <5>2 DEF StatFields, Reasons, Aborts
      <4>3. \A k \in StatFields : loc[t].batch[k] = 0
        BY <4>1, <4>2 DEF Unflushed
      <4> QED
        BY <1>1, <4>3, ImbalanceZero
    <3> QED
      BY <3>1, <3>2
  <2> QED
    BY <2>1, <2>2, BalanceReturn
<1> QED
  BY <1>2, <1>3, <1>4, BalanceLoopStep, BalanceFlush DEF ReadStep

LEMMA BalanceNext == DevInv /\ WalkInv /\ BalanceInv /\ [Next]_vars => BalanceInv'
<1> SUFFICES ASSUME DevInv, WalkInv, BalanceInv, [Next]_vars PROVE BalanceInv'
  OBVIOUS
<1>1. ASSUME NEW f \in Files, Close(f) \/ Dtor(f) PROVE BalanceInv'
  BY <1>1, BalanceSilent DEF Close, Dtor, ReleaseFile, readVars
<1>2. CASE UNCHANGED vars
  BY <1>2, BalanceSilent DEF vars, readVars
<1> QED
  BY <1>1, <1>2, BalanceCall, BalanceOpenStep, BalanceReadStep, BalanceIoctlStep,
     BalanceEnvironment DEF Next, ThreadStep

LEMMA BalanceInit == Init => BalanceInv
<1> SUFFICES ASSUME Init PROVE BalanceInv
  OBVIOUS
<1>1. \A t \in Threads : Imbalance(loc[t].batch) = 0
  BY ZeroStatsBalance DEF Init, AtRest, Locals
<1>2. PICK n \in Nat : ExistsBijection(1 .. n, Threads)
  BY FS_NatBijection, DevAssumption
<1>3. PICK e : e \in Bijection(1 .. n, Threads)
  BY <1>2 DEF ExistsBijection
<1>4. Enumerates(e, n)
  BY <1>3 DEF Enumerates, Bijection, Injection, Surjection, IsInjective
<1> DEFINE S == [i \in 0 .. n |-> 0]
<1>5. S \in [0 .. n -> Int] /\ S[0] = 0 /\ S[n] = 0
  OBVIOUS
<1>6. \A i \in 1 .. n : S[i] = S[i - 1] + Imbalance(loc[e[i]].batch)
  BY <1>1, <1>4 DEF Enumerates
<1>7. PartialSums(S, e, n)
  BY <1>5, <1>6, ZeroStatsBalance DEF PartialSums, Init
<1> HIDE DEF S
<1> QED
  BY <1>1, <1>4, <1>7 DEF BalanceInv, SumInv, QuietInv

\* Partial sums that no batch changes are all equal.
LEMMA FlatSums ==
  ASSUME NEW n \in Nat, NEW S \in [0 .. n -> Int], S[n] = 0, \A i \in 1 .. n : S[i] = S[i - 1]
  PROVE  S[0] = 0
<1> DEFINE Z == {i \in 0 .. n : S[i] = 0}
<1>1. n \in Z /\ Z \in SUBSET Int
  OBVIOUS
<1>2. IsFiniteSet(Z)
  <2>1. IsFiniteSet(0 .. n)
    BY FS_Interval
  <2> QED
    BY <2>1, FS_Subset
<1>3. Min(Z) \in Z /\ \A i \in Z : Min(Z) <= i
  BY <1>1, <1>2, MinOf
<1>4. PICK m \in Z : \A i \in Z : m <= i
  BY <1>3
<1>5. ASSUME m # 0 PROVE FALSE
  <2>1. m \in 1 .. n /\ m - 1 \in 0 .. n /\ m - 1 < m
    BY <1>5
  <2>2. m - 1 \in Z
    BY <2>1
  <2> QED
    BY <1>4, <2>1, <2>2
<1> QED
  BY <1>5

\* However flushes of several readers interleave field by field, once no read
\* is in its loop or flushing every visit counted is charged to one counter.
THEOREM CountersBalance == Spec => []StatsBalanced
<1>1. DevInv /\ BalanceInv => StatsBalanced
  <2> SUFFICES ASSUME DevInv, BalanceInv,
                      \A t \in Threads : pc[t] \notin Walking \cup {"flush"}
               PROVE  Balanced(stats)
    BY DEF StatsBalanced
  <2>1. PICK n \in Nat : \E e, S : Enumerates(e, n) /\ PartialSums(S, e, n)
    BY DEF BalanceInv, SumInv
  <2>2. PICK e, S : Enumerates(e, n) /\ PartialSums(S, e, n)
    BY <2>1
  <2>3. \A i \in 1 .. n : Imbalance(loc[e[i]].batch) = 0
    BY <2>2 DEF Enumerates, BalanceInv, QuietInv
  <2>4. S \in [0 .. n -> Int] /\ S[n] = 0 /\ S[0] = Imbalance(stats)
    BY <2>2 DEF PartialSums
  <2>5. \A i \in 1 .. n : S[i] = S[i - 1]
    <3> SUFFICES ASSUME NEW i \in 1 .. n PROVE S[i] = S[i - 1]
      OBVIOUS
    <3>1. S[i] = S[i - 1] + 0
      BY <2>2, <2>3 DEF PartialSums
    <3>2. i - 1 \in 0 .. n
      OBVIOUS
    <3>3. S[i - 1] \in Int
      BY <2>4, <3>2
    <3> QED
      BY <3>1, <3>3
  <2>6. Imbalance(stats) = 0
    BY <2>4, <2>5, FlatSums
  <2> QED
    BY <2>6, ImbalanceTyped DEF DevInv, ReadInv, ReadTypes
<1>2. Init => BalanceInv
  BY BalanceInit
<1>3. (DevInv /\ WalkInv) /\ BalanceInv /\ [Next]_vars => BalanceInv'
  BY BalanceNext
<1> QED
  BY <1>1, <1>2, <1>3, WalkInvariant, PTL DEF Spec

---------------------------------------------------------------------------
(* A file only its opener uses: one walk per reset, and reads apart.       *)

PreWalk == {"read_checked", "read_claiming", "read_admitted", "read_start"}
InWalk  == {"read_snapshot"} \cup Walking

OwnerInv == \A t \in Threads : Using(pc[t]) => sc[loc[t].fd].opener = t

\* A walk since the last reset is over, or some thread is in it; no thread is
\* on its way to a second one.
WalksInv ==
  /\ \A f \in Files :
       /\ sc[f].walks <= 1
       /\ sc[f].walks = 1 /\ ~ sc[f].done =>
            \E t \in Threads : pc[t] \in InWalk /\ loc[t].fd = f
  /\ \A t \in Threads : pc[t] \in PreWalk => sc[loc[t].fd].walks = 0

\* sc_last_read is in the past, and a read past the throttle is n after it.
SpacedInv(n) ==
  /\ \A f \in Files : sc[f].last_read <= clock
  /\ \A t \in Threads :
       /\ loc[t].now <= clock
       /\ pc[t] = "read_start" /\ sc[loc[t].fd].last_read # 0 =>
            loc[t].now - sc[loc[t].fd].last_read >= n

SameSoftc(f) == /\ sc'[f].opener = sc[f].opener /\ sc'[f].done = sc[f].done
                /\ sc'[f].walks = sc[f].walks /\ sc'[f].last_read = sc[f].last_read

SameThread(u) == pc'[u] = pc[u] /\ loc'[u].fd = loc[u].fd /\ loc'[u].now = loc[u].now

\* A step of thread t that stays in its call or leaves it, outside the walk.
QuietMove(t) ==
  /\ Using(pc'[t]) => Using(pc[t]) /\ loc'[t].fd = loc[t].fd
  /\ pc'[t] \in PreWalk => pc[t] \in PreWalk
  /\ pc[t] \in InWalk => pc'[t] \in InWalk /\ loc'[t].fd = loc[t].fd
  /\ loc'[t].now \in {0, loc[t].now}
  /\ pc'[t] # "read_start"

QuietStep(t) ==
  /\ \A f \in Files : SameSoftc(f)
  /\ \A u \in Threads \ {t} : SameThread(u)
  /\ QuietMove(t)
  /\ UNCHANGED clock

LEMMA FdsTyped ==
  ASSUME ThreadInv, NEW t \in Threads, pc[t] \in PreWalk \cup InWalk \/ Using(pc[t])
  PROVE  loc[t].fd \in Files /\ Using(pc[t])
BY DEF ThreadInv, PreWalk, InWalk, Walking, Using

LEMMA OwnerKept ==
  ASSUME OwnerInv, DevInv, \A f \in Files : sc'[f].opener = sc[f].opener,
         \A u \in Threads : Using(pc'[u]) => Using(pc[u]) /\ loc'[u].fd = loc[u].fd
  PROVE  OwnerInv'
BY FdsTyped DEF OwnerInv, DevInv

LEMMA WalksKept ==
  ASSUME WalksInv, DevInv,
         \A f \in Files : sc'[f].walks = sc[f].walks /\ sc'[f].done = sc[f].done,
         \A u \in Threads :
           /\ pc'[u] \in PreWalk => pc[u] \in PreWalk /\ loc'[u].fd = loc[u].fd
           /\ pc[u] \in InWalk => pc'[u] \in InWalk /\ loc'[u].fd = loc[u].fd
  PROVE  WalksInv'
<1>1. \A f \in Files :
        /\ sc'[f].walks <= 1
        /\ sc'[f].walks = 1 /\ ~ sc'[f].done =>
             \E t \in Threads : pc'[t] \in InWalk /\ loc'[t].fd = f
  BY DEF WalksInv
<1>2. \A t \in Threads : pc'[t] \in PreWalk => sc'[loc'[t].fd].walks = 0
  BY FdsTyped DEF WalksInv, DevInv
<1> QED
  BY <1>1, <1>2 DEF WalksInv

LEMMA QuietKeeps ==
  ASSUME DevInv, NEW t \in Threads, QuietStep(t), NEW n \in Nat
  PROVE  /\ OwnerInv => OwnerInv'
         /\ WalksInv => WalksInv'
         /\ SpacedInv(n) => SpacedInv(n)'
<1>1. OwnerInv => OwnerInv'
  BY OwnerKept DEF QuietStep, QuietMove, SameThread, SameSoftc
<1>2. WalksInv => WalksInv'
  <2>1. \A u \in Threads :
           /\ pc'[u] \in PreWalk => pc[u] \in PreWalk /\ loc'[u].fd = loc[u].fd
           /\ pc[u] \in InWalk => pc'[u] \in InWalk /\ loc'[u].fd = loc[u].fd
    BY DEF QuietStep, QuietMove, SameThread, PreWalk, Using
  <2> QED
    BY <2>1, WalksKept DEF QuietStep, SameSoftc
<1>3. ASSUME SpacedInv(n) PROVE SpacedInv(n)'
  <2>1. 0 <= clock /\ clock' = clock
    BY DEF QuietStep, DevInv, EnvTypes
  <2>2. \A f \in Files : sc'[f].last_read <= clock'
    BY <1>3, <2>1 DEF SpacedInv, QuietStep, SameSoftc
  <2>3. \A u \in Threads : loc'[u].now <= clock'
    BY <1>3, <2>1 DEF SpacedInv, QuietStep, QuietMove, SameThread
  <2>4. ASSUME NEW u \in Threads, pc'[u] = "read_start", sc'[loc'[u].fd].last_read # 0
        PROVE  loc'[u].now - sc'[loc'[u].fd].last_read >= n
    <3>1. u # t /\ SameThread(u)
      BY <2>4 DEF QuietStep, QuietMove
    <3>2. pc[u] = "read_start" /\ loc[u].fd \in Files
      BY <2>4, <3>1, FdsTyped DEF SameThread, PreWalk, DevInv
    <3>3. sc'[loc'[u].fd].last_read = sc[loc[u].fd].last_read /\ loc'[u].now = loc[u].now
      BY <3>1, <3>2 DEF SameThread, QuietStep, SameSoftc
    <3> QED
      BY <1>3, <2>4, <3>2, <3>3 DEF SpacedInv
  <2> QED
    BY <2>2, <2>3, <2>4 DEF SpacedInv
<1> QED
  BY <1>1, <1>2, <1>3

LEMMA QuietReturn ==
  ASSUME DevInv, NEW t \in Threads, Return(t), pc[t] \notin InWalk, UNCHANGED <<sc, clock>>
  PROVE  QuietStep(t)
<1>1. pc'[t] = "idle" /\ loc'[t] = AtRest /\ AtRest.now = 0
  BY DEF Return, Enter, Goto, DevInv, ThreadInv, AtRest, Locals
<1>2. \A u \in Threads \ {t} : SameThread(u)
  BY DEF Return, Enter, Goto, DevInv, ThreadInv, SameThread
<1>3. QuietMove(t)
  BY <1>1 DEF QuietMove, Using, PreWalk
<1> QED
  BY <1>2, <1>3 DEF QuietStep, SameSoftc

\* Steps that change neither t's file nor its now.
LEMMA QuietStay ==
  ASSUME DevInv, NEW t \in Threads, UNCHANGED <<sc, clock>>, NEW l, Goto(t, l),
         loc' = [loc EXCEPT ![t] = loc'[t]], loc'[t].fd = loc[t].fd, loc'[t].now = loc[t].now,
         Using(pc[t]), l # "read_start", l \in PreWalk => pc[t] \in PreWalk,
         pc[t] \in InWalk => l \in InWalk
  PROVE  QuietStep(t)
<1>1. pc'[t] = l
  BY DEF Goto, DevInv, ThreadInv
<1>2. \A u \in Threads \ {t} : SameThread(u)
  BY DEF Goto, DevInv, ThreadInv, SameThread
<1> QED
  BY <1>1, <1>2 DEF QuietStep, QuietMove, SameSoftc

LEMMA QuietOpens ==
  ASSUME DevInv, NEW t \in Threads, OpenDecide(t) \/ OpenDone(t)
  PROVE  QuietStep(t)
<1>1. CASE OpenDecide(t)
  <2>1. \A f \in Files : SameSoftc(f)
    BY <1>1 DEF OpenDecide, DevInv, FileInv, Softcs, SameSoftc
  <2>2. UNCHANGED <<pc, loc, clock>> /\ pc[t] = "open"
    BY <1>1 DEF OpenDecide, envVars
  <2> QED
    BY <2>1, <2>2 DEF QuietStep, QuietMove, SameThread, Using, InWalk, Walking
<1>2. CASE OpenDone(t)
  BY <1>2, QuietReturn DEF OpenDone, envVars, InWalk, Walking
<1> QED
  BY <1>1, <1>2

LEMMA QuietReads ==
  ASSUME DevInv, NEW t \in Threads,
         \/ ReadEof(t) \/ ReadClaim(t) \/ ReadDecide(t) \/ ReadSnapshot(t) \/ LoopBreak(t)
         \/ (\E why \in Aborts : VisitAborted(t, why)) \/ VisitSkip(t) \/ VisitEmit(t)
         \/ ReadFlush(t) \/ ReadLeave(t)
  PROVE  QuietStep(t)
<1>1. /\ UNCHANGED <<sc, clock>> /\ Using(pc[t]) /\ loc[t] \in CallLocals
      /\ loc \in [Threads -> CallLocals] /\ pc \in [Threads -> Labels]
  BY DEF ReadEof, ReadClaim, ReadDecide, ReadSnapshot, LoopBreak, VisitAborted, VisitSkip,
         VisitEmit, Examining, Visiting, ReadFlush, ReadLeave, sharedVars, envVars, Using,
         DevInv, ThreadInv
<1>2. CASE ReadEof(t) \/ ReadLeave(t)
  BY <1>1, <1>2, QuietReturn DEF ReadEof, ReadLeave, InWalk, Walking
<1>3. CASE ReadClaim(t) \/ ReadDecide(t) \/ ReadSnapshot(t) \/ LoopBreak(t)
  <2>1. PICK l : /\ Goto(t, l) /\ l # "read_start" /\ (l \in PreWalk => pc[t] \in PreWalk)
                 /\ pc[t] \in InWalk => l \in InWalk
    BY <1>3 DEF ReadClaim, ReadDecide, ReadSnapshot, LoopBreak, PreWalk, InWalk, Walking
  <2>2. loc' = [loc EXCEPT ![t] = loc'[t]] /\ loc'[t].fd = loc[t].fd
        /\ loc'[t].now = loc[t].now
    BY <1>1, <1>3 DEF ReadClaim, ReadDecide, ReadSnapshot, LoopBreak, CallLocals
  <2> QED
    BY <1>1, <2>1, <2>2, QuietStay
<1>4. CASE (\E why \in Aborts : VisitAborted(t, why)) \/ VisitSkip(t) \/ VisitEmit(t)
             \/ ReadFlush(t)
  <2>1. PICK l : /\ Goto(t, l) /\ l # "read_start" /\ l \notin PreWalk
                 /\ pc[t] \in InWalk => l \in InWalk
    <3>1. \/ pc[t] = "reading" /\ Goto(t, "read_out")
          \/ pc[t] \in {"reading", "flush"} /\ UNCHANGED pc
      BY <1>4 DEF VisitAborted, VisitSkip, VisitEmit, Examining, Visiting, ReadFlush
    <3>2. UNCHANGED pc => Goto(t, pc[t])
      BY <1>1 DEF Goto
    <3> QED
      BY <3>1, <3>2 DEF PreWalk, InWalk, Walking
  <2>2. loc' = [loc EXCEPT ![t] = loc'[t]] /\ loc'[t].fd = loc[t].fd
        /\ loc'[t].now = loc[t].now
    <3>1. CASE \E why \in Aborts : VisitAborted(t, why)
      BY <1>1, <3>1 DEF VisitAborted, CallLocals
    <3>2. CASE VisitSkip(t)
      BY <1>1, <3>2 DEF VisitSkip, CallLocals
    <3>3. CASE VisitEmit(t)
      BY <1>1, <3>3 DEF VisitEmit, CallLocals
    <3>4. CASE ReadFlush(t)
      BY <1>1, <3>4 DEF ReadFlush, CallLocals
    <3> QED
      BY <1>4, <3>1, <3>2, <3>3, <3>4
  <2> QED
    BY <1>1, <2>1, <2>2, QuietStay
<1> QED
  BY <1>2, <1>3, <1>4

LEMMA DisturbedNow ==
  ASSUME ThreadInv, NEW F, NEW S, NEW u \in Threads
  PROVE  Disturbed(F, S)[u].now = loc[u].now /\ Disturbed(F, S)[u].fd = loc[u].fd
BY DEF Disturbed, ThreadInv, CallLocals

LEMMA QuietIoctl ==
  ASSUME DevInv, NEW t \in Threads, IoctlStep(t)
  PROVE  QuietStep(t)
<1>1. ASSUME NEW k \in Differing, SetFilterCopy(t, k) PROVE QuietStep(t)
  <2> DEFINE d == Disturbed({loc[t].fd}, Generations)
  <2>1. /\ d \in [Threads -> CallLocals]
        /\ \A u \in Threads : d[u].fd = loc[u].fd /\ d[u].now = loc[u].now
    BY DisturbedTyped, DisturbedNow DEF DevInv
  <2>2. /\ loc' = [d EXCEPT ![t].todo = @ \ {k}] /\ UNCHANGED <<clock, pc>>
        /\ pc[t] = "set_filter"
    BY <1>1 DEF SetFilterCopy, envVars
  <2> HIDE DEF d
  <2>3. \A u \in Threads : SameThread(u)
    BY <2>1, <2>2 DEF CallLocals, SameThread
  <2>4. \A f \in Files : SameSoftc(f)
    BY <1>1 DEF SetFilterCopy, DevInv, FileInv, Softcs, SameSoftc
  <2>5. QuietMove(t)
    BY <2>2, <2>3 DEF SameThread, QuietMove, Using, PreWalk, InWalk, Walking
  <2> QED
    BY <2>2, <2>3, <2>4, <2>5 DEF QuietStep
<1>2. CASE SetFilterReturn(t)
  BY <1>2, QuietReturn DEF SetFilterReturn, sharedVars, envVars, InWalk, Walking
<1> QED
  BY <1>1, <1>2 DEF IoctlStep

\* Steps of nobody in a call: the sockets, the sysctls and time.
LEMMA IdleKeeps ==
  ASSUME DevInv, UNCHANGED sc, \A u \in Threads : SameThread(u),
         clock' \in Nat, clock <= clock', NEW n \in Nat
  PROVE  /\ OwnerInv => OwnerInv'
         /\ WalksInv => WalksInv'
         /\ SpacedInv(n) => SpacedInv(n)'
<1>1. OwnerInv => OwnerInv'
  BY OwnerKept DEF SameThread
<1>2. WalksInv => WalksInv'
  BY WalksKept DEF SameThread
<1>3. ASSUME SpacedInv(n) PROVE SpacedInv(n)'
  <2>1. clock \in Nat /\ \A f \in Files : sc[f].last_read \in Nat
    BY DEF DevInv, EnvTypes, FileInv, Softcs
  <2>2. \A u \in Threads : loc[u].now \in Nat
    BY DEF DevInv, ThreadInv, CallLocals
  <2>3. \A f \in Files : sc'[f].last_read <= clock'
    BY <1>3, <2>1 DEF SpacedInv
  <2>4. \A u \in Threads : loc'[u].now <= clock'
    BY <1>3, <2>1, <2>2 DEF SpacedInv, SameThread
  <2> QED
    BY <1>3, <2>3, <2>4 DEF SpacedInv, SameThread
<1> QED
  BY <1>1, <1>2, <1>3

\* A file no call is using gets a new softc, or loses the one it had.
LEMMA ReplacedSoftc ==
  ASSUME DevInv, NEW f \in Files, sc'[f].walks = 0, sc'[f].last_read = 0,
         \A g \in Files \ {f} : SameSoftc(g),
         \A u \in Threads : Using(pc[u]) => loc[u].fd # f,
         \A u \in Threads : \/ SameThread(u)
                            \/ ~ Using(pc[u]) /\ ~ Using(pc'[u]) /\ loc'[u].now = 0,
         UNCHANGED clock, NEW n \in Nat
  PROVE  /\ OwnerInv => OwnerInv'
         /\ WalksInv => WalksInv'
         /\ SpacedInv(n) => SpacedInv(n)'
<1>1. \A u \in Threads : Using(pc'[u]) => /\ SameThread(u) /\ Using(pc[u])
                                          /\ loc[u].fd \in Files \ {f}
  BY FdsTyped DEF SameThread, DevInv
<1>2. \A u \in Threads : /\ pc[u] \in PreWalk \cup InWalk => Using(pc[u])
                         /\ pc'[u] \in PreWalk \cup InWalk => Using(pc'[u])
  BY DEF PreWalk, InWalk, Walking, Using
<1>3. OwnerInv => OwnerInv'
  BY <1>1 DEF OwnerInv, SameThread, SameSoftc
<1>4. ASSUME WalksInv PROVE WalksInv'
  <2>1. \A g \in Files : sc'[g].walks <= 1
    BY <1>4 DEF WalksInv, SameSoftc
  <2>2. ASSUME NEW g \in Files, sc'[g].walks = 1, ~ sc'[g].done
        PROVE  \E t \in Threads : pc'[t] \in InWalk /\ loc'[t].fd = g
    <3>1. g # f /\ sc[g].walks = 1 /\ ~ sc[g].done
      BY <2>2 DEF SameSoftc
    <3>2. PICK t \in Threads : pc[t] \in InWalk /\ loc[t].fd = g
      BY <1>4, <3>1 DEF WalksInv
    <3> QED
      BY <1>2, <3>2 DEF SameThread
  <2>3. \A u \in Threads : pc'[u] \in PreWalk => sc'[loc'[u].fd].walks = 0
    BY <1>1, <1>2, <1>4 DEF WalksInv, SameThread, SameSoftc
  <2> QED
    BY <2>1, <2>2, <2>3 DEF WalksInv
<1>5. ASSUME SpacedInv(n) PROVE SpacedInv(n)'
  <2>1. clock \in Nat /\ clock' = clock
    BY DEF DevInv, EnvTypes
  <2>2. \A g \in Files : sc'[g].last_read <= clock'
    BY <1>5, <2>1 DEF SpacedInv, SameSoftc
  <2>3. \A u \in Threads : loc'[u].now <= clock'
    BY <1>5, <2>1 DEF SpacedInv, SameThread
  <2>4. \A u \in Threads :
          pc'[u] = "read_start" /\ sc'[loc'[u].fd].last_read # 0 =>
            loc'[u].now - sc'[loc'[u].fd].last_read >= n
    BY <1>1, <1>5 DEF SpacedInv, SameThread, SameSoftc, Using
  <2> QED
    BY <2>2, <2>3, <2>4 DEF SpacedInv
<1> QED
  BY <1>3, <1>4, <1>5

\* Thread t enters read() or SET_FILTER on a file of its own.
LEMMA EnteredCall ==
  ASSUME DevInv, ~ Sharing, NEW t \in Threads, NEW f \in Files, pc[t] = "idle", MayUse(t, f),
         UNCHANGED <<sc, clock>>, \A u \in Threads \ {t} : SameThread(u),
         loc'[t].fd = f, loc'[t].now = 0,
         pc'[t] \in {"read_eof", "set_filter"} \/ (pc'[t] = "read_checked" /\ ~ sc[f].done),
         NEW n \in Nat
  PROVE  /\ OwnerInv => OwnerInv'
         /\ OwnerInv /\ WalksInv => WalksInv'
         /\ SpacedInv(n) => SpacedInv(n)'
<1>1. sc[f].opener = t
  BY DEF MayUse
<1>2. OwnerInv => OwnerInv'
  BY <1>1 DEF OwnerInv, SameThread
<1>3. ASSUME OwnerInv, WalksInv PROVE WalksInv'
  <2>1. ASSUME NEW g \in Files, sc[g].walks = 1, ~ sc[g].done
        PROVE  \E u \in Threads \ {t} : pc[u] \in InWalk /\ loc[u].fd = g
    BY <1>3, <2>1 DEF WalksInv, InWalk, Walking
  <2>2. \A g \in Files : sc'[g].walks = 1 /\ ~ sc'[g].done =>
          \E u \in Threads : pc'[u] \in InWalk /\ loc'[u].fd = g
    BY <2>1 DEF SameThread
  <2>3. ~ sc[f].done => sc[f].walks = 0
    <3>1. ASSUME ~ sc[f].done, sc[f].walks = 1 PROVE FALSE
      <4>1. PICK u \in Threads \ {t} : pc[u] \in InWalk /\ loc[u].fd = f
        BY <2>1, <3>1
      <4>2. Using(pc[u])
        BY <4>1 DEF InWalk, Walking, Using
      <4> QED
        BY <1>1, <1>3, <4>1, <4>2 DEF OwnerInv
    <3>2. sc[f].walks \in Nat /\ sc[f].walks <= 1
      BY <1>3 DEF WalksInv, DevInv, FileInv, Softcs
    <3> QED
      BY <3>1, <3>2
  <2>4. \A u \in Threads : pc'[u] \in PreWalk => sc'[loc'[u].fd].walks = 0
    BY <1>3, <2>3 DEF WalksInv, SameThread, PreWalk
  <2> QED
    BY <1>3, <2>2, <2>4 DEF WalksInv
<1>4. ASSUME SpacedInv(n) PROVE SpacedInv(n)'
  <2>1. clock \in Nat /\ clock' = clock /\ 0 <= clock
    BY DEF DevInv, EnvTypes
  <2> QED
    BY <1>4, <2>1 DEF SpacedInv, SameThread
<1> QED
  BY <1>2, <1>3, <1>4

LEMMA OwnedCall ==
  ASSUME DevInv, HeldInv, ~ Sharing, NEW t \in Threads, Call(t), NEW n \in Nat
  PROVE  /\ OwnerInv => OwnerInv'
         /\ OwnerInv /\ WalksInv => WalksInv'
         /\ SpacedInv(n) => SpacedInv(n)'
<1> DEFINE Keeps == /\ OwnerInv => OwnerInv'
                    /\ OwnerInv /\ WalksInv => WalksInv'
                    /\ SpacedInv(n) => SpacedInv(n)'
<1>1. \A f, m : Locals(f, m).fd = f /\ Locals(f, m).now = 0
  BY DEF Locals
<1>2. loc \in [Threads -> CallLocals] /\ pc \in [Threads -> Labels]
  BY DEF DevInv, ThreadInv
<1>3. ASSUME NEW f \in Files, NEW c \in Creds, OpenClaim(t, f, c) PROVE Keeps
  <2>1. sc'[f] = NewSoftc(c, t, active_fds) /\ \A g \in Files \ {f} : sc'[g] = sc[g]
    BY <1>3 DEF OpenClaim, DevInv, FileInv
  <2>2. sc'[f].walks = 0 /\ sc'[f].last_read = 0 /\ \A g \in Files \ {f} : SameSoftc(g)
    BY <2>1 DEF NewSoftc, SameSoftc
  <2>3. \A u \in Threads : Using(pc[u]) => loc[u].fd # f
    BY <1>3 DEF OpenClaim, HeldInv
  <2>4. pc[t] = "idle" /\ pc'[t] = "open" /\ loc'[t] = Locals(f, 0) /\ UNCHANGED clock
        /\ \A u \in Threads \ {t} : pc'[u] = pc[u] /\ loc'[u] = loc[u]
    BY <1>2, <1>3 DEF OpenClaim, Enter, Goto, envVars
  <2>5. \A u \in Threads : \/ SameThread(u)
                           \/ ~ Using(pc[u]) /\ ~ Using(pc'[u]) /\ loc'[u].now = 0
    BY <1>1, <2>4 DEF SameThread, Using
  <2> QED
    BY <2>2, <2>3, <2>4, <2>5, ReplacedSoftc
<1>4. ASSUME NEW f \in Files, NEW m \in BufSizes, ReadCall(t, f, m) PROVE Keeps
  <2>1. /\ pc[t] = "idle" /\ MayUse(t, f) /\ loc'[t] = Locals(f, m) /\ UNCHANGED <<sc, clock>>
        /\ pc'[t] = IF sc[f].done THEN "read_eof" ELSE "read_checked"
        /\ \A u \in Threads \ {t} : SameThread(u)
    BY <1>2, <1>4 DEF ReadCall, Enter, Goto, sharedVars, envVars, SameThread
  <2> QED
    BY <1>1, <2>1, EnteredCall
<1>5. ASSUME NEW f \in Files, NEW flt \in Filters, SetFilterCall(t, f, flt) PROVE Keeps
  <2> DEFINE r == [Locals(f, 0) EXCEPT !.filter = flt, !.todo = Differing]
  <2>1. r.fd = f /\ r.now = 0
    BY DEF Locals
  <2>2. /\ pc[t] = "idle" /\ MayUse(t, f) /\ loc'[t] = r /\ UNCHANGED <<sc, clock>>
        /\ pc'[t] = "set_filter" /\ \A u \in Threads \ {t} : SameThread(u)
    BY <1>2, <1>5 DEF SetFilterCall, Enter, Goto, sharedVars, envVars, SameThread
  <2> HIDE DEF r
  <2> QED
    BY <2>1, <2>2, EnteredCall
<1>6. ASSUME NEW f \in Files, Reset(t, f) PROVE Keeps
  <2>1. /\ sc'[f].walks = 0 /\ sc'[f].opener = sc[f].opener
        /\ sc'[f].last_read = sc[f].last_read /\ \A g \in Files \ {f} : sc'[g] = sc[g]
    BY <1>6 DEF Reset, DevInv, FileInv, Softcs
  <2>2. UNCHANGED <<pc, loc, clock>>
    BY <1>6 DEF Reset, envVars
  <2>3. OwnerInv => OwnerInv'
    BY <2>1, <2>2, OwnerKept
  <2>4. WalksInv => WalksInv'
    BY <2>1, <2>2, FdsTyped DEF WalksInv, DevInv
  <2>5. SpacedInv(n) => SpacedInv(n)'
    <3>1. \A g \in Files : sc'[g].last_read = sc[g].last_read
      BY <2>1
    <3>2. \A u \in Threads : pc[u] = "read_start" => loc[u].fd \in Files
      BY FdsTyped DEF PreWalk, DevInv
    <3> QED
      BY <2>2, <3>1, <3>2 DEF SpacedInv
  <2> QED
    BY <2>3, <2>4, <2>5
<1> QED
  BY <1>3, <1>4, <1>5, <1>6 DEF Call

LEMMA OwnedRelease ==
  ASSUME DevInv, HeldInv, NEW n \in Nat,
         (\E t \in Threads : OpenUndo(t)) \/ (\E f \in Files : Dtor(f))
  PROVE  /\ OwnerInv => OwnerInv'
         /\ WalksInv => WalksInv'
         /\ SpacedInv(n) => SpacedInv(n)'
<1> DEFINE Keeps == /\ OwnerInv => OwnerInv'
                    /\ WalksInv => WalksInv'
                    /\ SpacedInv(n) => SpacedInv(n)'
<1>1. ASSUME NEW f \in Files, ReleaseFile(f)
      PROVE  /\ sc'[f].walks = 0 /\ sc'[f].last_read = 0 /\ UNCHANGED clock
             /\ \A g \in Files \ {f} : SameSoftc(g)
  BY <1>1 DEF ReleaseFile, DevInv, FileInv, NoSoftc, NewSoftc, SameSoftc, envVars
<1>2. ASSUME NEW t \in Threads, OpenUndo(t) PROVE Keeps
  <2> DEFINE f == loc[t].fd
  <2>1. pc[t] = "open" /\ f \in Files /\ file[f] \in {"refused", "admitted"}
        /\ ReleaseFile(f) /\ Return(t)
    BY <1>2 DEF OpenUndo, DevInv, ThreadInv
  <2>2. \A u \in Threads : Using(pc[u]) => loc[u].fd # f
    BY <2>1 DEF HeldInv
  <2>3. pc'[t] = "idle" /\ loc'[t].now = 0 /\ \A u \in Threads \ {t} : SameThread(u)
    BY <2>1 DEF Return, Enter, Goto, AtRest, Locals, SameThread, DevInv, ThreadInv
  <2>4. \A u \in Threads : \/ SameThread(u)
                           \/ ~ Using(pc[u]) /\ ~ Using(pc'[u]) /\ loc'[u].now = 0
    BY <2>1, <2>3 DEF Using
  <2> HIDE DEF f
  <2> QED
    BY <1>1, <2>1, <2>2, <2>4, ReplacedSoftc
<1>3. ASSUME NEW f \in Files, Dtor(f) PROVE Keeps
  BY <1>1, <1>3, ReplacedSoftc DEF Dtor, SameThread
<1> QED
  BY <1>2, <1>3

\* Two reads on one file are reads of its opener.
LEMMA OneOnFile ==
  ASSUME OwnerInv, NEW t \in Threads, NEW u \in Threads, Using(pc[t]), Using(pc[u]),
         loc[u].fd = loc[t].fd
  PROVE  u = t
BY DEF OwnerInv

LEMMA OwnedThrottle ==
  ASSUME DevInv, NEW t \in Threads, ReadThrottle(t), NEW n \in Nat,
         \A m \in TunableValues["min_read_interval_ms"] : n <= m
  PROVE  /\ OwnerInv => OwnerInv'
         /\ WalksInv => WalksInv'
         /\ SpacedInv(n) => SpacedInv(n)'
<1> DEFINE f == loc[t].fd
           early == /\ tunable["min_read_interval_ms"] > 0 /\ sc[f].last_read # 0
                    /\ clock - sc[f].last_read < tunable["min_read_interval_ms"]
<1>1. /\ UNCHANGED <<sc, clock>> /\ pc[t] = "read_admitted" /\ loc[t] \in CallLocals
      /\ pc'[t] = IF early THEN "read_throttled" ELSE "read_start"
      /\ loc'[t].fd = f /\ loc'[t].now = clock
      /\ \A u \in Threads \ {t} : SameThread(u)
  BY DEF ReadThrottle, sharedVars, envVars, Goto, DevInv, ThreadInv, CallLocals, SameThread
<1>2. f \in Files /\ Using(pc[t])
  BY <1>1, FdsTyped DEF PreWalk, DevInv
<1>3. \A u \in Threads : /\ Using(pc'[u]) => Using(pc[u]) /\ loc'[u].fd = loc[u].fd
                         /\ pc'[u] \in PreWalk => pc[u] \in PreWalk /\ loc'[u].fd = loc[u].fd
                         /\ pc[u] \in InWalk => pc'[u] \in InWalk /\ loc'[u].fd = loc[u].fd
  BY <1>1, <1>2 DEF SameThread, PreWalk, InWalk, Walking
<1>4. ASSUME SpacedInv(n) PROVE SpacedInv(n)'
  <2>1. clock \in Nat /\ sc[f].last_read \in Nat /\ tunable["min_read_interval_ms"] \in Nat
        /\ n <= tunable["min_read_interval_ms"] /\ sc[f].last_read <= clock
    BY <1>2, <1>4, TunableTyped DEF DevInv, EnvTypes, FileInv, Softcs, TunableNames, SpacedInv
  <2>2. ~ early /\ sc[f].last_read # 0 => clock - sc[f].last_read >= n
    BY <2>1
  <2> HIDE DEF f, early
  <2>3. \A g \in Files : sc'[g].last_read <= clock'
    BY <1>1, <1>4 DEF SpacedInv
  <2>4. \A u \in Threads : loc'[u].now <= clock'
    BY <1>1, <1>4, <2>1 DEF SpacedInv, SameThread
  <2>5. \A u \in Threads :
          pc'[u] = "read_start" /\ sc'[loc'[u].fd].last_read # 0 =>
            loc'[u].now - sc'[loc'[u].fd].last_read >= n
    BY <1>1, <1>4, <2>2 DEF SpacedInv, SameThread
  <2> QED
    BY <2>3, <2>4, <2>5 DEF SpacedInv
<1> QED
  BY <1>1, <1>3, <1>4, OwnerKept, WalksKept

LEMMA OwnedStart ==
  ASSUME DevInv, OwnerInv, NEW t \in Threads, ReadStart(t), NEW n \in Nat
  PROVE  /\ OwnerInv'
         /\ WalksInv => WalksInv'
         /\ SpacedInv(n) => SpacedInv(n)'
<1> DEFINE f == loc[t].fd
<1>1. /\ UNCHANGED clock /\ pc[t] = "read_start" /\ pc'[t] = "read_snapshot"
      /\ loc'[t].fd = f /\ loc'[t].now = loc[t].now
      /\ \A u \in Threads \ {t} : SameThread(u)
  BY DEF ReadStart, envVars, Goto, DevInv, ThreadInv, CallLocals, SameThread
<1>2. f \in Files /\ Using(pc[t])
  BY <1>1, FdsTyped DEF PreWalk, DevInv
<1>3. /\ sc'[f].last_read = loc[t].now /\ sc'[f].walks = sc[f].walks + 1
      /\ sc'[f].opener = sc[f].opener
      /\ \A g \in Files \ {f} : sc'[g] = sc[g]
  BY <1>2 DEF ReadStart, DevInv, FileInv, Softcs
<1>4. \A u \in Threads \ {t} : Using(pc[u]) => loc[u].fd # f
  BY <1>2, OneOnFile
<1>5. \A u \in Threads \ {t} : pc[u] \in PreWalk => loc[u].fd \in Files \ {f}
  BY <1>4, FdsTyped DEF DevInv
<1> HIDE DEF f
<1>6. OwnerInv'
  <2>1. \A u \in Threads : Using(pc'[u]) => Using(pc[u]) /\ loc'[u].fd = loc[u].fd
    BY <1>1, <1>2 DEF SameThread, f
  <2> QED
    BY <1>3, <2>1, OwnerKept
<1>7. ASSUME WalksInv PROVE WalksInv'
  <2>1. sc[f].walks = 0
    BY <1>1, <1>7 DEF WalksInv, PreWalk, f
  <2>2. \A g \in Files : sc'[g].walks <= 1
    BY <1>3, <1>7, <2>1 DEF WalksInv
  <2>3. ASSUME NEW g \in Files, sc'[g].walks = 1, ~ sc'[g].done
        PROVE  \E u \in Threads : pc'[u] \in InWalk /\ loc'[u].fd = g
    <3>1. CASE g = f
      BY <1>1, <3>1 DEF InWalk
    <3>2. CASE g # f
      <4>1. PICK u \in Threads : pc[u] \in InWalk /\ loc[u].fd = g
        BY <1>3, <1>7, <2>3, <3>2 DEF WalksInv
      <4>2. u # t
        BY <3>2, <4>1 DEF f
      <4> QED
        BY <1>1, <4>1, <4>2 DEF SameThread
    <3> QED
      BY <3>1, <3>2
  <2>4. ASSUME NEW u \in Threads, pc'[u] \in PreWalk PROVE sc'[loc'[u].fd].walks = 0
    <3>1. u # t /\ SameThread(u)
      BY <1>1, <2>4 DEF PreWalk
    <3>2. pc[u] \in PreWalk /\ loc[u].fd \in Files \ {f} /\ loc'[u].fd = loc[u].fd
      BY <1>5, <2>4, <3>1 DEF SameThread
    <3> QED
      BY <1>3, <1>7, <3>2 DEF WalksInv
  <2> QED
    BY <2>2, <2>3, <2>4 DEF WalksInv
<1>8. ASSUME SpacedInv(n) PROVE SpacedInv(n)'
  <2>1. \A g \in Files : sc'[g].last_read <= clock'
    BY <1>1, <1>3, <1>8 DEF SpacedInv
  <2>2. \A u \in Threads : loc'[u].now <= clock'
    BY <1>1, <1>8 DEF SpacedInv, SameThread
  <2>3. ASSUME NEW u \in Threads, pc'[u] = "read_start", sc'[loc'[u].fd].last_read # 0
        PROVE  loc'[u].now - sc'[loc'[u].fd].last_read >= n
    <3>1. u # t /\ SameThread(u)
      BY <1>1, <2>3
    <3>2. pc[u] = "read_start" /\ loc[u].fd \in Files \ {f}
      BY <1>5, <2>3, <3>1 DEF SameThread, PreWalk
    <3> QED
      BY <1>3, <1>8, <2>3, <3>1, <3>2 DEF SpacedInv, SameThread
  <2> QED
    BY <2>1, <2>2, <2>3 DEF SpacedInv
<1> QED
  BY <1>6, <1>7, <1>8

LEMMA OwnedFinish ==
  ASSUME DevInv, NEW t \in Threads, ReadFinish(t), NEW n \in Nat
  PROVE  /\ OwnerInv => OwnerInv'
         /\ WalksInv => WalksInv'
         /\ SpacedInv(n) => SpacedInv(n)'
<1> DEFINE f == loc[t].fd
           r == [Locals(f, 0) EXCEPT !.batch = loc[t].batch]
<1>1. r.fd = f /\ r.now = 0
  BY DEF Locals
<1>2. /\ UNCHANGED clock /\ pc[t] = "read_out" /\ pc'[t] = "flush" /\ loc'[t] = r
      /\ \A u \in Threads \ {t} : SameThread(u)
  BY DEF ReadFinish, envVars, Enter, Goto, DevInv, ThreadInv, SameThread
<1> HIDE DEF r
<1>3. f \in Files /\ Using(pc[t])
  BY <1>2, FdsTyped DEF InWalk, Walking, DevInv
<1>4. /\ sc'[f].done /\ sc'[f].walks = sc[f].walks /\ sc'[f].opener = sc[f].opener
      /\ sc'[f].last_read = sc[f].last_read
      /\ \A g \in Files \ {f} : sc'[g] = sc[g]
  BY <1>3 DEF ReadFinish, DevInv, FileInv, Softcs
<1>5. \A u \in Threads : Using(pc'[u]) => Using(pc[u]) /\ loc'[u].fd = loc[u].fd
  BY <1>1, <1>2, <1>3 DEF SameThread
<1>6. \A u \in Threads : pc'[u] \in PreWalk => u # t /\ SameThread(u) /\ loc[u].fd \in Files
  <2>1. \A u \in Threads : pc'[u] \in PreWalk => u # t /\ SameThread(u)
    BY <1>2 DEF PreWalk
  <2> QED
    BY <2>1, FdsTyped DEF SameThread, DevInv
<1>7. OwnerInv => OwnerInv'
  BY <1>4, <1>5, OwnerKept
<1>8. ASSUME WalksInv PROVE WalksInv'
  <2>1. \A g \in Files : sc'[g].walks <= 1
    BY <1>4, <1>8 DEF WalksInv
  <2>2. ASSUME NEW g \in Files, sc'[g].walks = 1, ~ sc'[g].done
        PROVE  \E u \in Threads : pc'[u] \in InWalk /\ loc'[u].fd = g
    <3>1. g # f /\ sc[g].walks = 1 /\ ~ sc[g].done
      BY <1>4, <2>2
    <3>2. PICK u \in Threads : pc[u] \in InWalk /\ loc[u].fd = g
      BY <1>8, <3>1 DEF WalksInv
    <3> QED
      BY <1>2, <3>1, <3>2 DEF SameThread
  <2>3. \A u \in Threads : pc'[u] \in PreWalk => sc'[loc'[u].fd].walks = 0
    BY <1>4, <1>6, <1>8 DEF WalksInv, SameThread
  <2> QED
    BY <2>1, <2>2, <2>3 DEF WalksInv
<1>9. ASSUME SpacedInv(n) PROVE SpacedInv(n)'
  <2>1. 0 <= clock
    BY DEF DevInv, EnvTypes
  <2>2. \A g \in Files : sc'[g].last_read <= clock'
    BY <1>2, <1>4, <1>9 DEF SpacedInv
  <2>3. \A u \in Threads : loc'[u].now <= clock'
    BY <1>1, <1>2, <1>9, <2>1 DEF SpacedInv, SameThread
  <2>4. \A u \in Threads :
          pc'[u] = "read_start" /\ sc'[loc'[u].fd].last_read # 0 =>
            loc'[u].now - sc'[loc'[u].fd].last_read >= n
    BY <1>4, <1>6, <1>9 DEF SpacedInv, SameThread, PreWalk
  <2> QED
    BY <2>2, <2>3, <2>4 DEF SpacedInv
<1> QED
  BY <1>7, <1>8, <1>9

LEMMA OwnedEnvironment ==
  ASSUME DevInv, NEW n \in Nat, Environment \/ (\E f \in Files : Close(f)) \/ UNCHANGED vars
  PROVE  /\ OwnerInv => OwnerInv'
         /\ WalksInv => WalksInv'
         /\ SpacedInv(n) => SpacedInv(n)'
<1>1. UNCHANGED <<sc, pc>>
  BY DEF Environment, PcbAlloc, PcbFree, PcbChange, SetTunable, Tick, Close, vars
<1>2. UNCHANGED loc \/ \E g \in Generations : loc' = Disturbed(Files, {g})
  BY DEF Environment, PcbAlloc, PcbFree, PcbChange, SetTunable, Tick, Close, vars
<1>3. clock' \in Nat /\ clock <= clock'
  <2>1. clock \in Nat
    BY DEF DevInv, EnvTypes
  <2>2. clock' = clock \/ clock' = clock + 1
    BY DEF Environment, PcbAlloc, PcbFree, PcbChange, SetTunable, Tick, Close, vars, envVars
  <2> QED
    BY <2>1, <2>2
<1>4. ASSUME NEW g \in Generations, loc' = Disturbed(Files, {g}), NEW u \in Threads
      PROVE  loc'[u].fd = loc[u].fd /\ loc'[u].now = loc[u].now
  BY <1>4, DisturbedNow DEF DevInv
<1>5. \A u \in Threads : SameThread(u)
  BY <1>1, <1>2, <1>4 DEF SameThread
<1> QED
  BY <1>1, <1>3, <1>5, IdleKeeps

LEMMA OwnedStep ==
  ASSUME DevInv, OwnerInv, NEW t \in Threads, ReadStep(t) \/ IoctlStep(t), NEW n \in Nat,
         \A m \in TunableValues["min_read_interval_ms"] : n <= m
  PROVE  /\ OwnerInv'
         /\ WalksInv => WalksInv'
         /\ SpacedInv(n) => SpacedInv(n)'
<1>1. CASE ReadThrottle(t)
  BY <1>1, OwnedThrottle
<1>2. CASE ReadStart(t)
  BY <1>2, OwnedStart
<1>3. CASE ReadFinish(t)
  BY <1>3, OwnedFinish
<1>4. CASE QuietStep(t)
  BY <1>4, QuietKeeps
<1> QED
  BY <1>1, <1>2, <1>3, <1>4, QuietReads, QuietIoctl DEF ReadStep

\* With n below every interval the administrator may set.
LEMMA OwnedNext ==
  ASSUME ~ Sharing, NEW n \in Nat,
         \A m \in TunableValues["min_read_interval_ms"] : n <= m
  PROVE  /\ DevInv /\ HeldInv /\ OwnerInv /\ [Next]_vars => OwnerInv'
         /\ DevInv /\ HeldInv /\ OwnerInv /\ WalksInv /\ [Next]_vars => WalksInv'
         /\ DevInv /\ HeldInv /\ OwnerInv /\ SpacedInv(n) /\ [Next]_vars => SpacedInv(n)'
<1> SUFFICES ASSUME DevInv, HeldInv, OwnerInv, [Next]_vars
             PROVE  /\ OwnerInv'
                    /\ WalksInv => WalksInv'
                    /\ SpacedInv(n) => SpacedInv(n)'
  OBVIOUS
<1> DEFINE Keeps == /\ OwnerInv'
                    /\ WalksInv => WalksInv'
                    /\ SpacedInv(n) => SpacedInv(n)'
<1>1. ASSUME NEW t \in Threads, Call(t) PROVE Keeps
  BY <1>1, OwnedCall
<1>2. ASSUME NEW t \in Threads, OpenStep(t) PROVE Keeps
  <2>1. CASE OpenUndo(t)
    BY <2>1, OwnedRelease
  <2>2. CASE QuietStep(t)
    BY <2>2, QuietKeeps
  <2> QED
    BY <1>2, <2>1, <2>2, QuietOpens DEF OpenStep
<1>3. ASSUME NEW t \in Threads, ReadStep(t) \/ IoctlStep(t) PROVE Keeps
  BY <1>3, OwnedStep
<1>4. ASSUME NEW f \in Files, Dtor(f) PROVE Keeps
  BY <1>4, OwnedRelease
<1>5. CASE Environment \/ (\E f \in Files : Close(f)) \/ UNCHANGED vars
  BY <1>5, OwnedEnvironment
<1>6. \/ \E t \in Threads : Call(t) \/ OpenStep(t) \/ ReadStep(t) \/ IoctlStep(t)
      \/ \E f \in Files : Dtor(f)
      \/ Environment \/ (\E f \in Files : Close(f)) \/ UNCHANGED vars
  BY DEF Next, ThreadStep
<1>7. CASE \E t \in Threads : Call(t) \/ OpenStep(t) \/ ReadStep(t) \/ IoctlStep(t)
  <2>1. PICK t \in Threads : Call(t) \/ OpenStep(t) \/ (ReadStep(t) \/ IoctlStep(t))
    BY <1>7
  <2> QED
    BY <1>1, <1>2, <1>3, <2>1
<1>8. CASE \E f \in Files : Dtor(f)
  BY <1>4, <1>8
<1> QED
  BY <1>5, <1>6, <1>7, <1>8

LEMMA OwnedInit == Init => OwnerInv /\ WalksInv /\ \A n \in Nat : SpacedInv(n)
<1> SUFFICES ASSUME Init PROVE OwnerInv /\ WalksInv /\ \A n \in Nat : SpacedInv(n)
  OBVIOUS
<1>1. /\ \A t \in Threads : pc[t] = "idle" /\ loc[t].now = 0
      /\ \A f \in Files : sc[f].walks = 0 /\ sc[f].last_read = 0
      /\ clock = 1
  BY DEF Init, AtRest, Locals, NoSoftc, NewSoftc
<1> QED
  BY <1>1 DEF OwnerInv, WalksInv, SpacedInv, Using, PreWalk

LEMMA HeldInvariant == Spec => [](DevInv /\ HeldInv)
<1>1. ReadsInv => DevInv /\ HeldInv
  BY DEF ReadsInv
<1> QED
  BY <1>1, ReadsInvariant, PTL

\* If every thread reads files of its own, at most one read walks the table
\* for a file between two resets: the unlocked test of sc_done is enough.
THEOREM OneWalkUntilReset == ASSUME ~ Sharing PROVE Spec => []OneWalkPerReset
<1>1. Init => OwnerInv /\ WalksInv
  BY OwnedInit
<1>2. (DevInv /\ HeldInv) /\ (OwnerInv /\ WalksInv) /\ [Next]_vars => (OwnerInv /\ WalksInv)'
  <2>1. \A m \in TunableValues["min_read_interval_ms"] : 0 <= m
    BY DevAssumption DEF TunableNames
  <2> QED
    BY <2>1, OwnedNext
<1>3. WalksInv => OneWalkPerReset
  BY DEF WalksInv, OneWalkPerReset
<1> QED
  BY <1>1, <1>2, <1>3, HeldInvariant, PTL DEF Spec

\* Under an interval of n that nobody changes, and threads that read files of
\* their own, each read of a file starts at least n after the one before.
THEOREM ReadsAreSpaced ==
  ASSUME ~ Sharing, NEW n \in Nat, TunableValues["min_read_interval_ms"] = {n}
  PROVE  Spec => ReadsSpaced
<1> DEFINE Inv == OwnerInv /\ SpacedInv(n)
<1>1. Init => Inv
  BY OwnedInit
<1>2. (DevInv /\ HeldInv) /\ Inv /\ [Next]_vars => Inv'
  BY OwnedNext
<1>3. (DevInv /\ HeldInv) /\ Inv =>
        \A t \in Threads :
          LET last == sc[loc[t].fd].last_read IN
          (pc[t] = "read_start" /\ pc'[t] = "read_snapshot" /\ last # 0)
            => loc[t].now - last >= tunable["min_read_interval_ms"]
  <2> SUFFICES ASSUME DevInv, SpacedInv(n), NEW t \in Threads, pc[t] = "read_start",
                      sc[loc[t].fd].last_read # 0
               PROVE  loc[t].now - sc[loc[t].fd].last_read >= tunable["min_read_interval_ms"]
    OBVIOUS
  <2>1. tunable["min_read_interval_ms"] = n
    BY TunableTyped DEF TunableNames, DevInv
  <2> QED
    BY <2>1 DEF SpacedInv
<1> HIDE DEF Inv
<1> QED
  BY <1>1, <1>2, <1>3, HeldInvariant, PTL DEF Spec, ReadsSpaced
============================================================================
