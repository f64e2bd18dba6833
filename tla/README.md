# A verification development for bsd-xtcp

TLA+ modules, TLC configurations and TLAPS proofs about the `tcpstats` kernel
module and the programs around it. Line numbers are those of the sources under
`src/`; `tcp_statsdev.c` stands for `src/kmod/tcpstats/tcp_statsdev.c`, and a
Rust file is named where its program is plain from the context.

1. [The system](#1-the-system)
2. [Modules and how they correspond to the code](#2-modules-and-how-they-correspond-to-the-code)
3. [What the runs check and show](#3-what-the-runs-check-and-show)
4. [Bounds](#4-bounds)
5. [Fairness](#5-fairness)
6. [What is proved](#6-what-is-proved)
7. [Where the code and its documents disagree](#7-where-the-code-and-its-documents-disagree)
8. [What is not modelled](#8-what-is-not-modelled)
9. [Plan](#9-plan)

## 1. The system

bsd-xtcp reports every TCP socket of a FreeBSD (or macOS) host. A kernel module
walks the kernel's table of TCP control blocks (inpcbs) and copies one record
per socket to whoever reads its character device; userland programs read the
device, convert the records and publish them.

| component | state it keeps | operations | who it talks to |
|---|---|---|---|
| **device** `tcp_statsdev.c` 791-824, 1050-1486 | per open file: `sc_filter`, `sc_done`, `sc_last_read`, `sc_cred`; global: `active_fds`, `active_readers`, `opens_total`, `reads_total`, statistics, four tunables | open, read, ioctl (`SET_FILTER`, `RESET`, `VERSION`), destructor, sysctl writes | devfs (destructor), the TCP stack's inpcb table, several threads that share a descriptor |
| **filter pipeline** 1175-1366 | none | decide what happens to one socket | called by read for each socket |
| **profiles** 340-789, 1493-1680 | list of profiles and its sx lock, a device and a sysctl for each, `last_error` | create, update, delete (by two sysctls), open of the profile's device, load, unload | the device (shares `active_fds` and the read path), the parser, devfs |
| **filter parser** `tcp_statsdev_filter.c` | none | filter string to `struct tcpstats_filter` | profile sysctls |
| **tcpstats-reader** `src/src` | the collection loop, the sequence number | collect from the device (FreeBSD) or from a generation-checked sysctl (macOS), convert, print | the device, `kern.file` |
| **tcpstats-exporter** `utils/tcpstats-exporter` | time of the last request, active requests, count of requests | GET /metrics | HTTP clients, tcpstats-reader's library |
| **tcp-echo** `utils/tcp-echo` | token bucket, shutdown flag, connection statistics | client, server, ramp-up, shutdown | its peer over TCP |
| **test harness** `tests/kmod-integration` | process groups, soak state | start, kill, wait for ports, compare counters | all of the above |

What is hard in it, and where:

* *Lock-free admission.* `active_fds` and `active_readers` are an atomic
  fetch-and-add, a comparison with a tunable that an administrator may be
  writing, and an atomic subtraction on each of the many ways out. A place
  forgotten on one path is gone until the module is reloaded; one given back
  twice lets the counter wrap. *Right* means: the counter is the number of
  holders, and never more clients are inside than the limit.
* *A walk of a table that changes.* The read takes no lock on the table: it
  remembers a generation, then visits sockets one at a time while others are
  created and freed. *Right* means: nothing twice, nothing newer than the
  snapshot, everything that stayed, and an end.
* *Five ways out of the loop*, each with its own accounting.
* *A shared descriptor.* `sc_done`, `sc_last_read` and `sc_filter` are read and
  written by every thread that has the descriptor, without a lock.
* *Destruction.* A file closed under a read; a profile deleted under an open or
  by another administrator; a module unloaded under a sysctl. *Right* means: the
  list, its counter and the devices agree, and what an open copies belongs to
  the profile it found.
* *One mask, two directives.* `exclude=` and `include_state=` edit the same
  field, and notice each other by different traces. *Right* means: what a
  string means does not depend on the order of its directives.
* *Text.* IPv6 groups before and after `::`, prefixes that end inside a byte,
  tagged records of varying length, a list that was cut.
* *Old counts.* Buffers are sized from a count taken before the read; lists are
  read again when two generations differ; two kernel tables read one after the
  other are joined by address. *Right* means: a snapshot is of one instant, a
  record's process holds that socket, and what is missing is missing for a
  reason.
* *Polled flags and joins.* tcp-echo ends by a flag every thread polls, and by
  joins of threads that may be blocked on the peer. *Right* means: both
  processes stop when told, after the last byte was counted.
* *A refill without compare-and-swap* in the token bucket, and a rate limit and a
  concurrency limit around a loop that serves one request at a time.

The hazards, each at its line and with the properties that guard it, are listed
in `PROJECT.json`.

## 2. Modules and how they correspond to the code

```
kernel module
  AdmissionGate <------ implemented by (twice) ------ TcpstatsDev --EXTENDS--> TcpstatsMatch
     |        ^                                          |                        ^
  MCAdmission |                                      MCTcpstatsDev         EXTENDS |
  Gate        |                                                               FilterParse   V6Text
              |     TcpstatsProfiles <- MCTcpstatsProfiles                        ^           ^
              |                                                                   MCFilterParse
userland      |
  Exporter ---+   RateLimiter   TcpEcho   Reader   RawRecord <- Pcblist    <- Records <- MCRecords
     ^                 ^                     ^               <- KldRecords <-
  MCExporter     MCRateLimiter           MCReader

proofs
  AdmissionGateProofs, TcpstatsDevProofs, TcpstatsProfilesProofs, FilterParseProofs,
  TcpEchoProofs (and RateLimiter), ExporterProofs, ReaderProofs, RecordsProofs
```

### The kernel module

**AdmissionGate** is the abstract specification of an admission counter: a
client adds one and remembers the old value (`Claim`), compares it with the
limit (`Decide`), and takes its one back when refused or done (`Release`), while
anyone may write the limit (`SetLimit`). The code has this counter three times:
`active_fds` (801-805), `active_readers` (1082-1086), and the exporter's
`ACTIVE_REQUESTS`.

**TcpstatsMatch** is the filter pipeline as operators. `Fails(r, ...)` is the
check charged to skip counter `r`, `Verdict` the first one that fails in the
order of the code (generation, version, state, credential, ports, addresses) or
`"emit"`. `MatchV6Prefix` is the byte-wise comparison of lines 829-855.
A mask is the set of its one bits, a port array the sequence of its slots.

**FilterParse** is `tsf_parse_filter_string`. A string is a sequence of
directives; each kind has a guard, what the code accepts (`PortListOk`,
`ExcludeOk`, ...), and an action, what it stores in the temporary filter
(`ParsePortList`, `ParseExclude`, ...). `Refuse` is every error return, `Finish`
the validation across directives and the copy to the caller. A directive comes
with its items: what splits the text at blanks, equal signs and commas, and
reads the digits of a port, is abstracted; a port text that is no number is
item 0. `IsDirective` says what splitting gives. The filter it builds is the one
`TcpstatsMatch` takes, so a string's meaning can be asked of the pipeline itself:
`Mistaken`, `Clash`, `Speaks` and `Meets` say what a string means without the
parser, over the strings (`Inputs`) and sockets (`Sockets`) that the module is
given. `Speaks(d, s)` is false of an address directive and a socket of the other
family, and of an unspecified address with a prefix; `Disputed` are the strings
the documents refuse and the code takes, or takes in one order only.

**V6Text** is the loop of `tsf_parse_ipv6_addr` over characters (789-883): a
turn reads a `::` (`DoubleColon`), or an optional colon and one group
(`Group`); when the text or the array of groups ends, `TextEnds` puts the
zeros in.

**TcpstatsDev** is the device. Its state and the code's:

| TLA+ | code |
|---|---|
| `tunable` | `tcpstats_max_open_fds`, `..._max_concurrent_readers`, `..._max_read_duration_ms`, `..._min_read_interval_ms` |
| `active_fds`, `opens_total`, `active_readers`, `reads_total`, `stats` | the globals of those names |
| `file[f]` | the life of the struct file: `free`, then inside open (`claiming`, `refused`, `admitted`), `open`, `closing` |
| `sc[f]` | `struct tcpstats_softc`; the fields `opener`, `walks` and `complete` are history |
| `pc[t]`, `loc[t]` | where a thread is in a system call, and its locals; `out`, `stable`, `filter0` and `late` are history |
| `pcb`, `gencnt`, `clock` | the inpcb table by generation, `V_tcbinfo.ipi_gencnt`, `getsbinuptime()` |

Every access that another thread can observe is a step of its own:

| actions | code |
|---|---|
| `OpenClaim`, `OpenDecide`, `OpenUndo`, `OpenDone` | `tcpstats_open` 791-824: fetch-and-add; comparison; EMFILE or a failing `devfs_set_cdevpriv`; success. `tcpstats_profile_open` 371-406 takes the same steps |
| `Close`, `Dtor` | the last `close(2)`; `tcpstats_dtor` 1468-1477, once no thread is in a call on the file |
| `ReadCall`, `ReadEof` | the test of `sc_done`, 1078 |
| `ReadClaim`, `ReadDecide`, `ReadThrottle`, `ReadStart` | 1082-1118: the reader limit, the throttle's test, and then the stores of `sc_last_read` and `reads_total` |
| `ReadSnapshot` | 1131 |
| `VisitSkip`, `VisitEmit`, `VisitAborted`, `LoopBreak` | 1133-1388: one socket, or the end of the loop. A visit is one step, since the loop holds the inpcb's lock |
| `ReadFinish`, `ReadFlush`, `ReadLeave` | `sc_done = 1`, 1391; one `atomic_add_64` for each field of the batch, 1405; the final subtraction, 1419 |
| `SetFilterCall`, `SetFilterCopy`, `SetFilterReturn`, `Reset` | `tcpstats_ioctl` 1447-1462; the struct copy stores its fields one at a time, in any order |
| `PcbAlloc`, `PcbFree`, `PcbChange`, `SetTunable`, `Tick` | the network stack, sysctl writes, time |

The inpcb table is modelled from how the loop relies on it: the generation
counter moves on when a socket is created and when one is freed, new sockets go
to the head of the list, and `inp_next()` yields the live sockets behind its
position. A checkpoint that does not end the walk changes nothing
(`kern_yield` only lets others run, which every step does anyway).

The statistics are those of a build with `TCPSTATS_STATS`; without it the batch
and the flush compile to nothing.

What the model abstracts: records are the generation of their socket; sizes are
counted in whole records; times in ticks. Fields of a filter that are the same
in all filters of a run are left out of the copy, which cannot be observed. A
visit reads `sc_filter` once although the code reads its fields one after the
other (a mixture of two filters arises in the model between visits, since the
copy is field by field, not within one visit). The filter that a profile's
device starts with is not distinguished from one installed by `SET_FILTER`.

**TcpstatsProfiles** is the list of named profiles. A profile is a block of
memory: `prof[b]` is what it holds, `dev[b]` the state of its device (`new`
until `si_drv1` is set, `active`, `draining`), `list` and `nprofiles` what the
lock `xlock` guards, `oid[n]` the block that `arg1` of `profiles.<n>` points to.
Administrators run `call[t]`, opens of a profile's device `opener[o]`, the
unload `mod`.

| actions | code |
|---|---|
| `CallProfileSet`, `CallProfile` | the sysctl handlers are entered, 505 and 599 |
| `BeginUpdate`, `EndUpdate` | the struct copy into the profile under the lock; in two steps because an open looks at it without |
| `Refused` | nothing under that name, or `TCPSTATS_MAX_PROFILES` reached |
| `MakeDev`, `MakeDevFails`, `MakeDevPanics`, `Insert`, `Register` | creation 713-757: `make_dev_credf`, which makes the device, finds no memory for it, or panics because the name is taken; then `si_drv1` and the list, the sysctl after the unlock |
| `Detach`, `DestroyDev`, `EndDestroy`, `FreeProfile` | deletion: `tcpstats_profile_destroy_unlocked` 465-483: off the list, lock dropped, `destroy_dev()` which waits for threads in the device's methods, `free()` |
| `ReadBack`, `ReadReturns` | the read side of `profiles.<n>` |
| `OpenBegins`, `OpenCopies`, `OpenReturns` | `tcpstats_profile_open` 371-406, without the lock |
| `UnloadDetaches` ... `UnloadEnds` | `MOD_UNLOAD` 1670-1680, 768-788 |
| `Fault` | an open through a device whose `si_drv1` is not set reads the filter through a null pointer, 393; or `make_dev_credf` has panicked, 729: the model stops there |

### The programs

**RateLimiter** is `rate.rs`: the refill thread's load and store, and each
writer's load, exchange and retry, are steps of their own.

**TcpEcho** is both processes of tcp-echo over the kernel's sockets: the main
threads (`Connect`, `ConnectFails`, `ConnectAborts`, `ClientJoins`, `Bind`,
`BindFails`, `ServerJoins`, ...), one writer and one reader for a connection,
one listener for a port, one echo thread for an accepted connection, the report
thread, the watchdog and the signal handlers. A look at the shutdown flag and
the blocking call after it are two steps. The sockets are two bounded buffers
with orderly close and reset; the network may lose a connection and every
system call of the start-up may fail. `sent` is history.

**Exporter** is the request loop of `main.rs`: `Take`, the rate limit
(`RateRefuse`, `RatePass`), the concurrency limit (`Claim`, `Compare`,
`Refuse`), `Handle`, `Reply`, `Leave`; requests queue at any time (the HTTP library is
external) and a clock ticks.

**Reader** is the loop of tcpstats-reader (`Start`, `Emit`, `Wake`) and one
collection while sockets open and close: on macOS `AskSize`, the copy of header,
sockets and trailer, `Validate` with its retries (`sysctl.rs`); on FreeBSD
`OpenDevice` with the version, hint and buffer, `ReadSocket`, `ReadReturns`, and
`Enrich` from `kern.file` (`platform/freebsd.rs`).

**RawRecord**, **Pcblist**, **KldRecords** and **Records** are what happens to
the bytes. A value remembers the kernel's record and field it was read from, so
that a field in the wrong place shows. Pcblist is `parse_pcblist_n` over tagged
records at the offsets of `macos_layout.rs`; one step is one turn of its loop.
KldRecords is `parse_kld_records`, `kld_record_to_raw` field by field,
`parse_kern_file` and the join. Records composes either with `raw_to_proto` and
`build_batch` of tcpstats-reader and with `collect` of the exporter.

## 3. What the runs check and show

Runs that pass:

| run | question | properties |
|---|---|---|
| `gate` | Is the counter exact and the limit kept when four clients race and the limit moves, to zero and back? | `CountBalanced`, `InWithinLimit` |
| `filter` | Is a filter string refused exactly when a directive is mistaken or two clash, does its filter pass no socket that fails a directive speaking of it and every socket that meets all, and is an IPv6 text read as what it denotes? | `FilterMeansAll`, `V6TextExact` |
| `dev_gates` | Does every way through open, read, their failures, close and the destructor give back exactly one place? Do batches flushed beside one another add up? Is there one walk per reset when nobody shares? | `FdGateSpec`, `ReaderGateSpec` (refinements of AdmissionGate), `StatsBalanced`, `OneWalkPerReset` |
| `dev_walk` | While sockets come, go and change and time passes: nothing twice, nothing too new, everything that stayed, the right accounts on each exit, the deadline overrun by fewer than `TSF_CHECK_INTERVAL` sockets, the reads of a file spaced? | `SnapshotOrdered`, `SnapshotComplete`, `BatchBalanced`, `LateVisitsBounded`, `ReadsSpaced` |
| `dev_share` | When two threads share a file, while sockets come and go under their walks and the limits are written: does every call return, whoever is refused, throttled, interrupted or in a flush, and is the file destroyed once it was closed? | `CallsReturn`, `ClosedFilesFreed` |
| `profiles` | Do list, counter and devices agree through create, update, both deletes and the unload; does an open copy one profile's filter; is a readback current; does every handler return? | `ProfilesBalanced`, `OpenSeesItsProfile`, `ReadbackIsCurrent`, `HandlersReturn` |
| `limiter` | Does an exchange ever lose or double a token, and do writers go on being served? | `TokensConserved`, `BucketServes` |
| `echo` | Is every byte counted where it is, are the summaries made after the joins, and do both processes stop when told, in whatever order and whatever fails? | `CountedAsSent`, `NothingLost`, `JoinedAtTheEnd`, `StopWhenTold`, `EchoesEnd` |
| `exporter` | Are requests spaced, refused only with cause, counted once and answered; is the concurrency counter a gate? | `RateSpaced`, `RefusalsEarned`, `TotalBalanced`, `ActiveIsAGate` (a refinement of AdmissionGate), `Answered` |
| `reader` | Is an accepted list of one instant, does a collection miss a lasting socket only when the buffer was outgrown, is the joined process the socket's, and does a program with a count end? | `ListIsASnapshot`, `LastingSocketsReported`, `TruncatedOnlyByGrowth`, `JoinIsRight`, `RunEnds` |
| `records` | Are tagged records told apart at every length and cut, is everything measured carried over once, and do reader and exporter count alike? | `ParsedExact`, `CutReported`, `EachMeasuredOnce`, `CountsAgree` |

The run `doc_trailer` is violated, as expected: section 7.

Five of the properties are worth a closer look.

`SnapshotComplete`: a read whose walk reached the end of the table emitted, of
the sockets that were in the table at the snapshot, stayed and did not change,
*exactly* those the filter and the opener's credential let through. Sockets
freed or changed during the walk, and the time after a filter was stored into,
are excluded (`stable`), because no answer about them would be wrong; everything
else is included, whatever order the steps come in. `dev_walk` checks it with one
reader; the theorem of section 6 covers shared files.

`FilterMeansAll` compares the parser and the pipeline together with a reading of
the string that knows nothing of either: which directives are mistaken by
themselves, which pairs clash in whatever order they stand, and which sockets
each directive speaks of and which of those meet it. The filter of an accepted
string passes no socket that fails a directive speaking of it, and passes each
socket of which all its directives speak and that meets them all. Where code and
documents disagree it takes no side (section 7): it says nothing of a socket of
the other family, and nothing of what becomes of a string that is `Disputed`: one
that repeats `format=` or `fields=`, or has an `exclude=` of a comma alone before
an `include_state=`.

`CallsReturn` is about what a read can meet on its way, and `dev_share` has all of
it: with a limit of one, a reader is refused while the other walks, and its mutant
lets it wait there; an interval throttles the reads that come later; signals,
failing copies and full buffers end a walk; sockets are created and freed during
one walk and during two; both threads are in their flushes at once; the file is
closed under either.

`NothingLost` accounts for every byte of a connection that is up; together with
`StopWhenTold` it says that the echo thread may be told to stop at any point
without dropping bytes it has read, and that its write, which has no timeout,
ends nevertheless.

`JoinIsRight` is a promise about two kernel tables read at two times: a record is
given a process only if that process held a socket at that address when
`kern.file` was read, and if the socket still was the record's, then that
socket.

Each property was confirmed to depend on the code: `PROJECT.json` names, for
each, a definition and a plausible slip in it (a forgotten subtraction, `>` for
`>=`, an early exit taken for the end of the table, a lock left held on one way
out, a missing timeout...) under which the run fails. Those variants stand in
the modules above the definition they replace, marked `Mutant`.

The type invariants are proved and need no run.

## 4. Bounds

| run | instance | states | why enough |
|---|---|---|---|
| `gate` | 4 clients, limits 0..2, symmetric | 408 | two inside, one refused and not backed out, one arriving: the most the comparison can confuse |
| `filter` | 29 directives, right and wrong of every kind, in strings of up to 3 (limit 3, and some of 4); every address directive over addresses of 2 bytes of 2 bits with prefixes 0..5; texts of up to 8 characters (two digits, the colon, another) for 3 groups of up to 2 digits | 293 000 | every ordered pair of directives, with a third around it; a prefix that is zero, ends inside a byte, on a boundary, at the end, or is too long; a `::` at the start, inside, at the end, twice, with one group too many |
| `dev_gates` | 2 threads, 3 files, 3 opens, 2 reads, limits 0..2 and 1..2, symmetric | 218 000 | a holder, a refused opener and a racing opener; a reader inside, one refused, one that comes back |
| `dev_walk` | 1 thread, 2 reads, both kinds of socket, two filters, generations 0..3, checkpoints every 2 sockets, buffer of 2 records, deadline 1, interval 2, clock 1..3, the file not shared | 1 613 000 | a socket before, at and behind the iterator; a checkpoint reached and one not reached; a buffer that fills; time passing at every point of both reads |
| `dev_share` | 2 threads, 1 shared file, 2 reads that get past the throttle and any number that do not, generations 0..2, `max_open_fds` 0 or 1, reader limit 1 or 2, interval 1, a clock that stands still, checkpoints at every socket, buffer of 1 record | 284 000 | a reader refused by one inside, one throttled; a table that changes under one walk and under two; both threads in a flush of several fields; a file closed under a read and under an ioctl |
| `profiles` | 2 administrators, 1 opener, 2 names one of which is stored as the other, 2 blocks, room for 1 profile, the unload | 454 000 | a delete racing a delete, an update, an open, a create of the same name and the unload; a block that is freed and used again |
| `limiter` | 3 writers of 2 tokens, rate 5, refills of 2 | 31 000 | two writers that loaded the same count and one that is late; a count at the cap and one short of it |
| `echo` | 1 connection, 2 ports, writes of 2 bytes, buffers of 1 byte, 4 bytes in all, watchdog, every failure | 181 000 | both directions full at once with a byte in the echo thread's hand and one in the writer's; a listener without connections beside one with |
| `exporter` | 3 requests, interval 2, clock 0..4, the program's limit of 2, and 0, which no option sets: a widening, without which the loop's refusal is dead code | 178 000 | a request in hand, one waiting, one yet to come; an interval that passes while one is being answered |
| `reader` | 3 addresses, 4 openings and closings, 2 batches, 1 retry, headroom 1 | 2 500 000 | a socket that closes and another at its address; a list outgrown; one generation mismatch retried and one given up |
| `records` | lists of up to 2 sockets in every order and mixture of kinds, one list cut at every word, pairs of kernel records, `kern.file` of up to 2 entries | 51 000 | a group after a group, records that need padding, a cut inside a tag, a body and a padding |

Names of bounds: `MaxGen` (sockets ever created or freed), `MaxOpens`,
`MaxReads`, `MaxTime` are guards of `PcbAlloc`/`PcbFree`, `OpenClaim`,
`ReadCall` and `Tick`; `MaxBytes` ends a tcp-echo writer's requests for tokens;
`MaxEvents` and `MaxBatches` bound the sockets of Reader and the batches of a
program without a count; `MaxText` the texts of `filter`. The table may hold any
sockets when the module is loaded (`Init`). The theorems of section 6 hold for
all values of the constants.

`MaxRetries`, `Headroom`, `TSF_MAX_PORTS`, `MaxProfiles` and
the like are the code's own limits with small values.

Deadlock is checked where the system never stops by itself (`gate`, `filter`,
the device, `echo`, whose last state says so explicitly). It is not checked
where the system really may stop: `limiter` once the refill thread has ended
and the bucket is empty, `exporter` when no request is left, `profiles` after
the unload or a fault, `reader` when the program has ended, `records` when the
input is used up. There the liveness properties say that nothing stops early.

## 5. Fairness

*Device.* `FairSpec` asks weak fairness of each thread that is in a system call
and of the destructor of each closed file. Both are what the kernel gives: a
thread in a call is runnable in all of the modelled steps (none of them sleeps
on another: the counters are atomics, the inpcb lock is held for one visit, a
failing `uiomove` returns), and devfs runs the destructor when the last
reference goes. Nothing is asked of callers, of close, of the network stack or
of the administrator. `CallsReturn` therefore needs the walk itself to end: it
does because the iterator only moves towards older sockets, however many
appear. That does not hang on the bound `MaxGen`: the position decreases with
each visit. In `dev_share` sockets are created during the walk, and no step waits
for another thread when a reader is refused or throttled or two flushes meet.

*Profiles.* Strong fairness of each handler, because it may have to wait for the
sx lock, which is let go again and again and does not starve its waiters; weak
fairness of opens and of an unload that has begun.

*tcp-echo.* Weak fairness of every thread, including the return of calls with a
timeout. Nobody has to send a signal, nothing has to fail and the token bucket
has to grant nothing. Client and server run on hosts of their own: neither's
fairness speaks of the other.

*Rate limiter.* Weak fairness of the refill thread and of each writer's attempt;
strong fairness of the exchange that finds its count: a weak exchange fails
without cause only now and then, and the scheduler cannot put the refill thread
before every one of a writer's exchanges for ever.

*Exporter, Reader.* Weak fairness of the one thread of the program. Requests,
sockets and the clock come as they like.

## 6. What is proved

For every value of the constants (any number of threads, files, sockets and
filters, any limits), by TLAPS:

| theorem | module | what it says |
|---|---|---|
| `GateTypeCorrect` | AdmissionGateProofs | the counter stays a natural number |
| `GateCountBalanced` | AdmissionGateProofs | `count = Cardinality(Counted)` |
| `GateInWithinLimit` | AdmissionGateProofs | never more inside than the largest limit |
| `LimiterTypeCorrect` | TcpEchoProofs | the bucket holds between nothing and one second of tokens |
| `LimiterConserves` | TcpEchoProofs | `LimiterSpec => []TokensConserved` |
| `TypeCorrect` | TcpstatsDevProofs | `Spec => []TypeOK` |
| `FdsAreGated` | TcpstatsDevProofs | `Spec => FdGateSpec` |
| `ReadersAreGated` | TcpstatsDevProofs | `Spec => ReaderGateSpec` |
| `FdsWithinLimit` | TcpstatsDevProofs | never more files open than the largest `max_open_fds` |
| `ReadersWithinLimit` | TcpstatsDevProofs | never more reads admitted than the largest `max_concurrent_readers` |
| `ReadsAreOrdered` | TcpstatsDevProofs | `Spec => []SnapshotOrdered` |
| `BatchesBalance` | TcpstatsDevProofs | `Spec => []BatchBalanced` |
| `LateVisitsAreBounded` | TcpstatsDevProofs | `Spec => []LateVisitsBounded` |
| `ReadsAreComplete` | TcpstatsDevProofs | `Spec => []SnapshotComplete` |
| `CountersBalance` | TcpstatsDevProofs | `Spec => []StatsBalanced` |
| `OneWalkUntilReset` | TcpstatsDevProofs | `~Sharing`: `Spec => []OneWalkPerReset` |
| `ReadsAreSpaced` | TcpstatsDevProofs | `~Sharing`, a fixed interval: `Spec => ReadsSpaced` |
| `FilterMeansEveryDirective` | FilterParseProofs | `ParseSpec => []FilterMeansAll`, for every set of strings and sockets |
| `ProfilesTypeCorrect` | TcpstatsProfilesProofs | `ProfilesSpec => []ProfilesTypeOK` |
| `TheListIsBalanced` | TcpstatsProfilesProofs | `ProfilesSpec => []ProfilesBalanced` |
| `OpensSeeTheirProfile` | TcpstatsProfilesProofs | `ProfilesSpec => []OpenSeesItsProfile` |
| `ReadbackSaysTheFilter` | TcpstatsProfilesProofs | `ProfilesSpec => ReadbackIsCurrent` |
| `ExporterTypeCorrect` | ExporterProofs | `ExporterSpec => []ExporterTypeOK` |
| `RequestsAreSpaced` | ExporterProofs | `ExporterSpec => []RateSpaced` |
| `RequestsAreCounted` | ExporterProofs | `ExporterSpec => []TotalBalanced` |
| `RefusalsAreEarned` | ExporterProofs | `ExporterSpec => RefusalsEarned` |
| `ActiveRequestsAreGated` | ExporterProofs | `ExporterSpec => ActiveIsAGate` |
| `EchoTypeCorrect` | TcpEchoProofs | `Spec => []EchoTypeOK` |
| `WritesAreCountedAsSent` | TcpEchoProofs | `Spec => []CountedAsSent` |
| `NoByteIsLost` | TcpEchoProofs | `Spec => []NothingLost` |
| `EndsAreJoined` | TcpEchoProofs | `Spec => []JoinedAtTheEnd` |
| `ReaderTypeCorrect` | ReaderProofs | `ReaderSpec => []ReaderTypeOK` |
| `AcceptedListIsASnapshot` | ReaderProofs | `ReaderSpec => []ListIsASnapshot` |
| `LastingSocketsAreThere` | ReaderProofs | `ReaderSpec => []LastingSocketsReported` |
| `TruncationIsGrowth` | ReaderProofs | `ReaderSpec => []TruncatedOnlyByGrowth` |
| `JoinNamesAHolder` | ReaderProofs | `ReaderSpec => JoinIsRight` |
| `BatchIsMeasured` | RecordsProofs | `RecordsSpec => []EachMeasuredOnce` |
| `ListParsedExactly` | RecordsProofs | `RecordsSpec => [](QuietTrailer(list) => ParsedExact)` |
| `CutIsReported` | RecordsProofs | `RecordsSpec => [](QuietTrailer(list) => CutReported)` |
| `SummariesAgree` | RecordsProofs | `RecordsSpec => []CountsAgree` |

*The gate.* "No more inside than the limit" is not inductive: an admission
depends on a value drawn some steps before. The invariant adds the places those
values stand for: `PlacesReserved` says that the clients inside together with
the claims that may still be admitted (`old[c] < MaxLimit`) never exceed the
largest limit. A new claim that draws a value below it finds at most that many
clients counted; everyone in `MayBeIn` is counted. `CountBalanced` ties the
value drawn to the number of clients, which is why both are needed.

*The rate limiter.* What was taken since the last store and what is left make up
what that store put in; a store starts the account anew. The type invariant it
needs says that the refill thread's old count is within the cap too, so that
what it stores is.

*The device.* `TypeOK` contains `active_fds \in Nat` and
`active_readers \in Nat`, so it needs that every subtraction is paid for:
`DevInv` states that `active_fds` is the number of files that are not free and
`active_readers` the number of threads between their addition and their
subtraction, that a thread in a system call is in it on a file, and that the
value a fetch-and-add returned is kept only until it is compared. One lemma for
each action shows that it preserves the invariant.

*The refinement.* Each step of the device is, under the mapping in
`TcpstatsDev`, one step of the gate or none: `OpenClaim` is `Claim`,
`OpenDecide` is `Decide`, `OpenUndo` of either kind and `Dtor` are `Release`,
`SetTunable` of the limit is `SetLimit`. The gate's own theorems are then
instantiated under the same mapping (`FdGateFacts`, `RdGateFacts`), where
`DevAssumption` gives what the gate assumes, and `GateInWithinLimit` becomes a
statement about the device: no more files are open than the largest
`max_open_fds`, no more threads walk the table than the largest
`max_concurrent_readers`.

*The walk.* What a read has emitted says nothing about what it will emit, so
`WalkOK` relates it to the iterator: every record emitted is at or above the
iterator's position and not above the snapshot, and the next socket is below
it. A record is added only for the verdict `"emit"`, which `EmittedIsOld` shows
to imply that the socket is not newer than the snapshot. The batch balances at
each visit, because a verdict is one of the skip counters (`VerdictRange`).
For the deadline, `LateOK` bounds the sockets examined late by
`visited % CheckInterval`: a socket examined after the deadline is at no
checkpoint, so the remainder goes up with it (`NextRemainder`).

*Completeness.* `CompleteOK` says that, of the undisturbed sockets at or above
the iterator, exactly those let through have been emitted; when nothing is
ahead, that is all of them. It is preserved because a socket between the
iterator and the next one is not live (`NextPcbIs`), because a new socket takes
a generation no walk has seen (`FreshInv`), and because no open, failed open or
destructor rewrites the softc of a file a read is using (`HeldInv`). It is
proved for shared files and filters stored under a read as well.

*The global counters.* A flush adds a batch to them one field at a time, so
they are out of balance whenever some thread is in the middle of one.
`BalanceInv` says that their imbalance and those of all batches add up to zero;
a step of a flush takes from one what it gives to the other. The sum over an
unknown number of threads is a table of partial sums along an enumeration of
them: a step of one thread shifts the sums from its place on, and a visit, which
leaves the batch balanced, shifts nothing (`QuietInv`).

*A file of one's own.* `OneWalkPerReset` and `ReadsSpaced` fail where two
threads share a descriptor (section 7), so their theorems assume `~Sharing`:
no thread uses a file another thread opened (`OwnerInv`). Then the unlocked
tests are safe: between a thread's test of `sc_done` and its store nobody walks
for that file (`WalksInv`), and `sc_last_read` is what the throttle compared
(`SpacedInv`). `ReadsSpaced` compares with the interval in force when the read
starts, and an interval raised between the throttle's test and the start of the
read comes too late for it: the theorem is about an interval nobody changes, and
`dev_walk` gives it one value.

*The filter string.* The parser and the pipeline work on bytes under masks, an
address directive means bits. Powers of two are not computed by induction:
`2 ^ n` is the number of subsets of `1 .. n` (`SubsetsOf`), and the subsets of
`1 .. n + 1` with and without their last element are twice as many
(`PowerNext`). From this and division with remainder follow what a byte under a
mask says of its bits (`HighBitsAgree`, `HighBitsAll`) and, each bit of an
address being one of one byte (`EveryBit`), that `MatchV6Prefix` compares the
bits of the prefix (`PrefixMatches`) and `HostBitsClearV6` looks at the ones
behind it (`HostBitsV6`). The parser knows the directives it has taken only by
flags and state mask: `Built(f, D)` says which filter the directives of `D` make,
`AcceptedMeans` that the next one is accepted just if it is not mistaken and
clashes with none of them, `CompatibleMeans` that the last look finds exactly the
clashes left. `ParseInv` puts these together along the loop; `VerdictMeans` says
what a filter that is `Built` passes.

*The profiles.* A profile off the list is still somebody's: `HandlerInv` and
`UnloadInv` say whose (the handler that makes it, the one that detached it, the
unload), and `OneOwner` that it is one of them at most, which is what keeps a
profile from being destroyed or freed twice. The lock's holder is the one that
finds `nprofiles` below the limit and inserts. That an open's profile is not
freed under it follows from its device: `destroy_dev` waits for the open, so a
device with an open in it is active or draining, and a device that is there has
its profile (`DeviceInv`). `OpenInv` follows the open's copy half by half.
`FilterInv`, a filter is what its string says unless an update is under way, is
what a readback needs.

*The exporter.* `QueueInv`: a request is waiting, at hand or answered, and only
one of these, which is why the counter is exact. `ActiveInv`: the value fetched
by a claim is zero, since one thread serves all; so a concurrency limit of zero
refuses everybody and any other nobody, and then every refusal is the rate
limit's.
`LastInv` relates `last_request_time` to the times at which requests got past.

*tcp-echo.* The invariant is one of each connection. `WriterInv` relates the
bytes handed over, counted, and left of the write under way; `BytesInv` adds the
wire in both directions and the byte count in the echo thread's hand; both say
less of a connection that was reset. `ThreadsInv` says which threads a
connection has in each phase of the two main threads, from which the joins
follow. A step of one connection leaves the others alone (`OneConnection`).

*The reader.* `CopyInv`: the generation only grows, so as long as it is the
header's the table is the one the copy began with and the list is the part of it
passed so far; at an equal trailer it is all of it. `WalkInv`: the records are in
the order of the addresses below the next one, no more than the buffer holds,
and include every lasting socket passed. A socket's birth number is never drawn
again (`BirthInv`), so an address that was reused meanwhile is not taken for
the lasting one. For the truncation, records in order are as many sockets as
there are records; at least `Headroom` of a full buffer are not of the table at
the hint.

*The records of FreeBSD.* `KldInv`: while the buffer is parsed, the i-th raw
record is the i-th of the buffer, and while it is joined with `kern.file` each
has an owner or not, the entry found for it being one that names its socket
(`OwnerIsAnEntry`). What is measured reaches the message because the names of a
field in the kernel's record, the raw record and the message are one to one and
onto (`TsrNameOnto`, `RawNameOneToOne`): no two measurements share a field and
none is left without. `BatchInv`: what was written is made of what was collected.

*The list of macOS.* `Progress` says what the parser has at a cursor in the
middle of a list: one record for each group before the one at hand, each exact;
of the group at hand the fields of the records behind the cursor and of no
other. It needs the records to be where the kernel writes them, which is what
`AsWritten` says of a buffer: a record begins
where the one before it ends, so the cursor meets every tag, and an `xsocket_n`
comes first in its group and nowhere else, so it alone tells the groups apart.
Unknown records may lie anywhere and the records of a group in any order.
`QuietTrailer(l)` (the number in the trailer is not one of the kinds the parser
knows) is what separates these theorems from `doc_trailer`: without it
`ParsedExact` is false. The lists of `records` satisfy it, with trailers of two
kinds: one the loop stops at, one it skips like an unknown record.

*The counts.* The summary of the reader and the gauges of the exporter are two
folds over two tables of names. `SummariesAgree` shows that one counts under a
name what the other counts under its translation, and that the total is the sum;
the sum over a table is handled by partial sums over subsets of its domain
(`SumIs`).

*Assumptions.* Those that the modules make of their constants
(`DevAssumption`, `MatchAssumption`, `GateAssumption`, `LimiterAssumption`,
`ProfilesAssumption`, `EchoAssumption`, `ExporterAssumption`,
`ReaderAssumption`, `KldAssumption`, `PcblistAssumption`, `ParseAssumption`):
finite sets of threads, files and requests, each tunable's values bounded, sizes
and rates that are numbers, ports to connect to, directives as splitting a string
gives them (`IsDirective`), sockets in one of the eleven states of TCP, buffers
as the kernels write them (`IsList`, `AsWritten`, and for a list that is not cut
`HasAll`: each group has each record the parser reads, with all its fields).
Every run evaluates them on its instance, `doc_trailer` included. Beside these,
only the two theorems about unshared files (`~Sharing`) and the two about lists
(`QuietTrailer`) have hypotheses.

*What proving changed.* The mapping of `ActiveIsAGate` was a `CASE` whose
guards overlapped, which TLC resolves by the first that holds and TLA+ does not:
it is now a chain of `IF`. That a concurrency limit above zero refuses nobody
was an assumption about a constant; it is now a consequence, for any limit. The
limit of the program is two and no option changes it (`cli.rs:12`): the model
also takes zero, under which alone the branch of `main.rs:63-70` is taken, so
that the refinement covers the place a refused request gives back (`Refuse`).
Reader assumes `MaxEvents` positive, since its first
generation is one.

*Only model-checked:* `V6TextExact`, which compares a loop over the characters of
a text with the numbers and groups the text denotes, a definition by recursion
over it: that is induction over data, out of the provers' reach. So
are the liveness properties (`CallsReturn`, `ClosedFilesFreed`,
`HandlersReturn`, `BucketServes`, `StopWhenTold`, `EchoesEnd`, `Answered`,
`RunEnds`), which rest on fairness and `ENABLED`.

## 7. Where the code and its documents disagree

*The trailer of a macOS list* (run `doc_trailer`). `macos.rs:337` says "A
zero-length record or zero-kind marks the trailer", and the loop ends there. The
trailer is a `struct xinpgen`, whose second word is the number of sockets: it is
zero only in an empty list. With one socket the trailer is taken for an
`XSO_SOCKET` record, and a second, made-up socket is reported; with 2, 4, 16 or
32 its bytes overwrite fields of the last socket. `records` shows that the parser
is right on lists whose trailer has a zero, as the unit tests build them.

The following were met while modelling. They have no run: the properties are
stated for what the code does promise, and the exclusions they name are these.

Device and filter:

* A read that fills its buffer ends the file (`tcp_statsdev.c:1391`):
  `docs/design/05-kernel-module.md:203-205` promises that the next read
  continues. A reader with a small buffer gets part of the table and then end of
  file. `SnapshotComplete` speaks of walks that reached the end of the table.
* Two threads that share a descriptor both walk, and both pass the throttle,
  since `sc_done` and `sc_last_read` are tested before and set later. The man page
  (`tcpstats.4:254-258`, 221-222) says a second read returns EOF and reads are an
  interval apart *per file descriptor*. `OneWalkPerReset` and `ReadsSpaced` are
  about descriptors nobody shares.
* `SET_FILTER` takes effect, field by field, in the read in progress; the man page
  says "on subsequent reads" (`tcpstats.4:252-253`).
* visited = emitted + skipped (`sysctl_counters.rs:10-11`) is off by one for each
  read that was interrupted, timed out or failed in a copy.
* Sockets of the other family pass an address directive. The man page has
  `local_addr` "Match connections with local address matching the given IPv4 CIDR
  or IPv6 prefix" (`tcpstats.4:167-172`), the parser's plan "only loopback sockets"
  for 127.0.0.0/8. A directive fills in the address of its family and leaves the
  other zero, which matches everything (`tcp_statsdev.c:1297-1329`).
  `FilterMeansAll` says nothing of a directive and a socket of the other family
  (`Speaks`).
* `local_addr=::` matches every IPv6 socket whatever its prefix, because zero
  means "any" (`tcp_statsdev.h:173`). `FilterMeansAll` lets an unspecified address
  speak of sockets only with a prefix of zero, where both readings agree.
* A refused client is counted until it has backed out, and can make another be
  refused while fewer clients than the limit are inside; the man page's "when
  exceeded" (97-106) does not say so.
* README.md:44 and docs/status/freebsd.md:304-305 say that signals are checked
  every 256 sockets; `TSF_CHECK_INTERVAL` is 1024.

Filter strings:

* A text that goes on after the eighth IPv6 group is accepted, the rest unread
  (`tcp_statsdev_filter.c:789`), where `docs/design/09-filter-parsing.md:777` says
  "exactly 8 groups"; a run of five to eight digits is read as two groups; `:::1`
  is read as `::1`. `V6TextExact` names the three kinds and excludes every other.
* IPv4-mapped addresses in dotted form (`09-filter-parsing.md:609`) are refused.
* A second `format=` or `fields=` replaces the first (`tcp_statsdev_filter.c:1010`,
  1061), where `09-filter-parsing.md:1047-1048` lists it as a duplicate directive
  that is refused. `FilterMeansAll` leaves such strings out (`Disputed`).
* `exclude=,` excludes nothing and is accepted; before `include_state=` it goes
  unnoticed, after it it is refused. `FilterMeansAll` leaves the first order out.
* Host bits are not looked at for an IPv6 prefix of zero (`fe80::1/0` is accepted,
  as `09-filter-parsing.md:795-797` has it), for an IPv4 prefix of zero they are.

Profiles:

* `profiles.<n>` is registered for ever with a pointer to the profile
  (`tcp_statsdev.c:748-753`). After a delete it points to freed memory or to
  another profile, and a profile created again under the name keeps the old
  sysctl (`09-filter-parsing.md:1534` says that reading it returns the filter).
  `ReadbackIsCurrent` is about sysctls whose pointer still leads to their
  profile.
* `si_drv1` is set after `make_dev_credf` has made the device visible (729, 740):
  an open in between reads through a null pointer.
* The unload destroys the profiles before it removes `profile_set` (1671-1676):
  a profile created in between outlives the module.
* `make_dev_credf` is called without `MAKEDEV_CHECKNAME` (729), so that a name that
  is taken is a panic and not a NULL; the code after it (731-739) handles the NULL
  as an error. A name is taken while another administrator's delete has dropped
  the lock and not yet destroyed the device.
* A name of 32 characters is stored as its first 31 and never found again under
  its own name; a second write of it makes the device again, and panics.
* `destroy_dev()` waits for threads in the device's methods, not for open
  descriptors, as `09-filter-parsing.md:1527` says.
* The harness tests deletion through a sysctl `profile_delete` that the module
  does not have (`named_profiles.rs:10`), so that those tests are skipped.

Programs:

* *tcp-echo.* The refill's load and store undo what was taken in between: those
  tokens are spent twice (`rate.rs:62-63`). `TokensConserved` therefore speaks of
  one store at a time. A payload larger than the rate is never sent. A write
  that reaches its time limit comes back as `WouldBlock` on Unix and ends the
  writer, although the code means to go on (`client.rs:203`).
* *exporter.* One thread serves every request, so the concurrency limit refuses
  nobody (`main.rs:63`; it is two, and no option or variable changes it,
  `cli.rs:12`); a rate of `NaN` passes the
  check that it is positive (`cli.rs:46`) and turns the rate limit off.
* *reader.* `inp_vflag` is read at offset 44, inside the IPv6 remote address at
  32 to 47 (`macos_layout.rs:43`). The delta functions of `convert.rs` are called
  by nobody: counters are absolute.

## 8. What is not modelled

`PROJECT.json` lists every component with its status. Left out for good, having
no control the properties tell apart: the contents of the kernel's records, DTrace
probes, the text of the metrics page, of JSON and of reports, command lines,
build files. The C tests, benchmarks and tools are clients; they were read as
statements of what the code promises.

Left out of components that are modelled: `VERSION_CMD` and the refusal of an
unknown filter version (no state changes); the two duration statistics; devices
destroyed at unload under a read; `last_error` and the listing that a read of
`profile_set` gives; MOD_LOAD; how a filter string is split, and the digits of
ports, prefix lengths and IPv4 addresses; of the macOS reader the sizes a buffer
must have to hold a header (`sysctl.rs:100-126`) and the three other sysctls it
reads; of the conversion the functions no program calls.

The integration harness (process groups, soak cycles) is not modelled: its state
is that of the processes it starts.

## 9. Plan

Written, in this order: AdmissionGate, TcpstatsMatch, TcpstatsDev; RateLimiter,
TcpEcho, Exporter, Reader, RawRecord, Pcblist, KldRecords, Records,
TcpstatsProfiles, FilterParse and V6Text. Proved: every safety invariant and
action property that a run checks, but for `V6TextExact`. What is left:

1. What can be said of the loop of V6Text as an invariant of its steps rather
   than of the whole text: a position inside the text, and never more groups than
   an address has.
2. ProcessGroup: kill, reap and port release of the harness.
