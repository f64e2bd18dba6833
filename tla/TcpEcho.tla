------------------------------ MODULE TcpEcho ------------------------------
(***************************************************************************)
(* tcp-echo: the client process, the server process and the connections    *)
(* between them (utils/tcp-echo/src/client.rs, server.rs, shutdown.rs,     *)
(* stats.rs).  The token bucket has a module of its own, RateLimiter: here  *)
(* it grants a writer its tokens, or not yet, as it likes.                 *)
(*                                                                         *)
(* Client threads: the main thread opens the connections one after the     *)
(* other, waits for the shutdown flag, joins every connection's writer and *)
(* reader and prints the final summary; the refill thread and the duration *)
(* watchdog run beside it and are joined by nobody.  Server threads: the   *)
(* main thread binds the ports and joins the listeners and the report      *)
(* thread; one listener for each port accepts and at the end joins the     *)
(* echo threads of its connections.                                        *)
(*                                                                         *)
(* Between them, the kernel's sockets, as far as the programs see them:    *)
(* two bounded buffers, orderly close, reset, and a network that may fail. *)
(* A thread's look at its shutdown flag and the blocking call after it are *)
(* two steps; its look at the flag and a call that returns at once are one.*)
(***************************************************************************)
EXTENDS Naturals

CONSTANTS
  NConns,    \* --connections: connection numbers are 0 .. NConns - 1
  NPorts,    \* how many ports --ports lists: port indices are 0 .. NPorts - 1
  Payload,   \* --payload-size: the bytes of one write_all
  Cap,       \* bytes a connection holds in one direction
  MaxBytes,  \* bound: a writer stops asking for tokens after that many bytes
  Timed,     \* --duration is not zero: the watchdog runs
  Failures   \* the network and the system calls of start-up may fail

Conns == 0 .. NConns - 1
Ports == 0 .. NPorts - 1

ASSUME EchoAssumption ==
  /\ NConns \in Nat \ {0} /\ NPorts \in Nat \ {0} /\ Cap \in Nat \ {0}
  /\ Payload \in Nat \ {0} /\ MaxBytes \in Nat
  /\ Timed \in BOOLEAN /\ Failures \in BOOLEAN

VARIABLES
  shut,      \* shut.client, shut.server: SHUTDOWN of each process
  client,    \* the client's main thread: where it is, connections tried
  server,    \* the server's main thread: where it is, ports bound
  writer,    \* writer[c]: where the writer is, bytes left of its write_all
  reader,    \* reader[c]: where the reader is
  listener,  \* listener[p]
  reporter,  \* the server's report thread
  echo,      \* echo[c]: where the echo thread is, the bytes it read and has left
  link,      \* link[c]: "none", "up" or "reset"
  side,      \* the sockets: side[c].client is "open", "fin" (shut for writing)
             \* or "closed"; side[c].server is "backlog", "open" or "closed"
  wire,      \* wire[c].up, .down: bytes written to the socket and not yet read
  stats,     \* ConnectionStats of both registries: client and server counters
  sent       \* history: bytes the kernel took from each writer

netVars  == <<link, side, wire>>
mainVars == <<shut, client, server, listener, reporter>>
vars == <<mainVars, writer, reader, echo, netVars, stats, sent>>

PortOf(c) == c % NPorts
Lesser(a, b) == IF a < b THEN a ELSE b
Running(process) == process.pc \notin {"done", "failed"}

EchoTypeOK ==
  /\ shut \in [{"client", "server"} -> BOOLEAN]
  /\ client \in [pc : {"ramp", "abort", "join", "done", "failed"}, tried : 0..NConns]
  /\ server \in [pc : {"bind", "join", "done", "failed"}, bound : 0..NPorts]
  /\ writer \in [Conns -> [pc : {"off", "loop", "write", "exit"}, left : 0..Payload]]
  /\ reader \in [Conns -> {"off", "loop", "read", "exit"}]
  /\ listener \in [Ports -> {"none", "accept", "join", "exit", "panic"}]
  /\ reporter \in {"off", "loop", "exit"}
  /\ echo \in [Conns -> [pc : {"off", "loop", "read", "write", "exit"},
                         n : 0..Cap, left : 0..Cap]]
  /\ link \in [Conns -> {"none", "up", "reset"}]
  /\ side \in [Conns -> [client : {"open", "fin", "closed"},
                         server : {"backlog", "open", "closed"}]]
  /\ wire \in [Conns -> [up : 0..Cap, down : 0..Cap]]
  /\ stats \in [Conns -> [cw : 0..MaxBytes, cr : 0..MaxBytes,
                          sw : 0..MaxBytes, sr : 0..MaxBytes]]
  /\ sent \in [Conns -> 0..MaxBytes]

Init ==
  /\ shut = [p \in {"client", "server"} |-> FALSE]
  /\ client = [pc |-> "ramp", tried |-> 0]
  /\ server = [pc |-> "bind", bound |-> 0]
  /\ writer = [c \in Conns |-> [pc |-> "off", left |-> 0]]
  /\ reader = [c \in Conns |-> "off"]
  /\ listener = [p \in Ports |-> "none"]
  /\ reporter = "off"
  /\ echo = [c \in Conns |-> [pc |-> "off", n |-> 0, left |-> 0]]
  /\ link = [c \in Conns |-> "none"]
  /\ side = [c \in Conns |-> [client |-> "open", server |-> "backlog"]]
  /\ wire = [c \in Conns |-> [up |-> 0, down |-> 0]]
  /\ stats = [c \in Conns |-> [cw |-> 0, cr |-> 0, sw |-> 0, sr |-> 0]]
  /\ sent = [c \in Conns |-> 0]

---------------------------------------------------------------------------
(* The kernel's sockets. *)

\* What a reset connection held is dropped.
Reset(c) ==
  /\ link' = [link EXCEPT ![c] = "reset"]
  /\ wire' = [wire EXCEPT ![c] = [up |-> 0, down |-> 0]]

\* The sockets in `reset` are closed with a reset, of the ones in `orderly` the
\* ones that have unread data too: what flows to this end.
Close(end, orderly, reset, flow) ==
  LET broken == reset \cup {c \in orderly : wire[c][flow] > 0} IN
  /\ side' = [c \in Conns |-> IF c \in orderly \cup reset
                              THEN [side[c] EXCEPT ![end] = "closed"] ELSE side[c]]
  /\ link' = [c \in Conns |-> IF c \in broken THEN "reset" ELSE link[c]]
  /\ wire' = [c \in Conns |-> IF c \in broken THEN [up |-> 0, down |-> 0] ELSE wire[c]]

CloseClient(C) == Close("client", C, {}, "down")

\* A listening socket that is closed resets what it never accepted.
CloseServer(C, backlog) == Close("server", C, backlog, "up")

\* The connections the process at one end has.
Backlog(p) == {c \in Conns : PortOf(c) = p /\ link[c] # "none" /\ side[c].server = "backlog"}
Accepted == {c \in Conns : side[c].server = "open"}
Connected == {c \in Conns : link[c] # "none" /\ side[c].client # "closed"}

\* A connection is lost under both ends.
NetworkFails(c) ==
  /\ Failures
  /\ link[c] = "up"
  /\ Reset(c)
  /\ UNCHANGED <<mainVars, writer, reader, echo, side, stats, sent>>

---------------------------------------------------------------------------
(* The client's main thread and the shutdown flags. *)

\* The signal handler of either process.
Signal(process) ==
  /\ ~shut[process]
  /\ shut' = [shut EXCEPT ![process] = TRUE]
  /\ UNCHANGED <<client, server, listener, reporter, writer,
                 reader, echo, netVars, stats, sent>>

\* The duration watchdog.
Watchdog == Timed /\ Running(client) /\ Signal("client")

Listening(p) == listener[p] \in {"accept", "join"} /\ Running(server)

\* connect_timeout succeeds: the connection is registered, its threads start.
Connect(c) ==
  /\ client.pc = "ramp" /\ client.tried = c /\ ~shut.client
  /\ Listening(PortOf(c))
  /\ client' = [client EXCEPT !.tried = c + 1]
  /\ link' = [link EXCEPT ![c] = "up"]
  /\ writer' = [writer EXCEPT ![c].pc = "loop"]
  /\ reader' = [reader EXCEPT ![c] = "loop"]
  /\ UNCHANGED <<shut, server, listener, reporter, echo, side,
                 wire, stats, sent>>

\* It fails: the failure is logged and the ramp goes on without it.
ConnectFails(c) ==
  /\ client.pc = "ramp" /\ client.tried = c /\ ~shut.client
  /\ Failures \/ ~Listening(PortOf(c))
  /\ client' = [client EXCEPT !.tried = c + 1]
  /\ UNCHANGED <<shut, server, listener, reporter, writer,
                 reader, echo, netVars, stats, sent>>

\* Cloning the stream or spawning a thread fails: run returns the error, with
\* or without a writer on the connection it was setting up ...
ConnectAborts(c) ==
  /\ Failures
  /\ client.pc = "ramp" /\ client.tried = c /\ ~shut.client
  /\ Listening(PortOf(c))
  /\ client' = [pc |-> "abort", tried |-> c + 1]
  /\ link' = [link EXCEPT ![c] = "up"]
  /\ \E pc \in {"off", "loop"} : writer' = [writer EXCEPT ![c].pc = pc]
  /\ UNCHANGED <<shut, server, listener, reporter, reader, echo, side,
                 wire, stats, sent>>

\* ... and the process ends with every socket it has.
ClientAborts ==
  /\ client.pc = "abort"
  /\ client' = [client EXCEPT !.pc = "failed"]
  /\ CloseClient(Connected)
  /\ UNCHANGED <<shut, server, listener, reporter, writer,
                 reader, echo, stats, sent>>

\* The ramp and the wait after it both end at the flag.
ClientStopsWaiting ==
  /\ client.pc = "ramp" /\ shut.client
  /\ client' = [client EXCEPT !.pc = "join"]
  /\ UNCHANGED <<shut, server, listener, reporter, writer,
                 reader, echo, netVars, stats, sent>>

\* Every writer and reader is joined; the final summary is printed and the
\* process ends, whatever its refill, report and watchdog threads do.
ClientJoins ==
  /\ client.pc = "join"
  /\ \A c \in Conns : writer[c].pc \in {"off", "exit"}
  /\ \A c \in Conns : reader[c] \in {"off", "exit"}
  /\ client' = [client EXCEPT !.pc = "done"]
  /\ UNCHANGED <<shut, server, listener, reporter, writer,
                 reader, echo, netVars, stats, sent>>

ClientMain ==
  \/ \E c \in Conns : Connect(c) \/ ConnectFails(c) \/ ConnectAborts(c)
  \/ ClientAborts
  \/ ClientStopsWaiting
  \/ ClientJoins

---------------------------------------------------------------------------
(* writer_loop of connection c. *)

\* The flag is down and the bucket grants the tokens of one write.  When it
\* does not, the writer sleeps 10 ms and looks again: nothing changes.
WriterBegins(c) ==
  /\ Running(client)
  /\ writer[c].pc = "loop" /\ ~shut.client
  /\ sent[c] + Payload <= MaxBytes
  /\ writer' = [writer EXCEPT ![c] = [pc |-> "write", left |-> Payload]]
  /\ UNCHANGED <<mainVars, reader, echo, netVars, stats, sent>>

\* write_all hands the socket a part of what is left.
WriterSends(c) ==
  /\ writer[c].pc = "write" /\ link[c] = "up" /\ side[c].server # "closed"
  /\ \E n \in 1 .. Lesser(writer[c].left, Cap - wire[c].up) :
       /\ writer' = [writer EXCEPT ![c].left = @ - n]
       /\ wire' = [wire EXCEPT ![c].up = @ + n]
       /\ sent' = [sent EXCEPT ![c] = @ + n]
  /\ UNCHANGED <<mainVars, reader, echo, link, side, stats>>

\* The server has closed its end: the socket takes the bytes, a reset answers.
WriterSendsInVain(c) ==
  /\ writer[c].pc = "write" /\ writer[c].left > 0
  /\ link[c] = "up" /\ side[c].server = "closed"
  /\ writer' = [writer EXCEPT ![c].left = 0]
  /\ sent' = [sent EXCEPT ![c] = @ + writer[c].left]
  /\ Reset(c)
  /\ UNCHANGED <<mainVars, reader, echo, side, stats>>

\* write_all returned Ok.
WriterCounts(c) ==
  /\ writer[c].pc = "write" /\ writer[c].left = 0
  /\ writer' = [writer EXCEPT ![c].pc = "loop"]
  /\ stats' = [stats EXCEPT ![c].cw = @ + Payload]
  /\ UNCHANGED <<mainVars, reader, echo, netVars, sent>>

\* The writer leaves its loop: it shuts its half down and drops its clone of
\* the stream, the last one if the reader has left.
WriterLeaves(c) ==
  /\ writer' = [writer EXCEPT ![c] = [pc |-> "exit", left |-> 0]]
  /\ IF reader[c] = "exit"
     THEN CloseClient({c})
     ELSE side' = [side EXCEPT ![c].client = "fin"] /\ UNCHANGED <<link, wire>>
  /\ UNCHANGED <<mainVars, reader, echo, stats, sent>>

\* Mutant: the socket has no write timeout.
WriteFailsOnReset(c) ==
  /\ writer[c].pc = "write" /\ writer[c].left > 0
  /\ link[c] = "reset"
  /\ WriterLeaves(c)

\* The socket stayed full for the five seconds of the write timeout (which
\* Unix reports as WouldBlock) or is reset.
WriteFails(c) ==
  /\ writer[c].pc = "write" /\ writer[c].left > 0
  /\ link[c] = "reset" \/ wire[c].up = Cap
  /\ WriterLeaves(c)

\* Mutant: the write is counted although it timed out.
WriteTimesOutCounted(c) ==
  /\ writer[c].pc = "write" /\ writer[c].left > 0 /\ link[c] = "reset"
  /\ writer' = [writer EXCEPT ![c] = [pc |-> "loop", left |-> 0]]
  /\ stats' = [stats EXCEPT ![c].cw = @ + Payload]
  /\ UNCHANGED <<mainVars, reader, echo, netVars, sent>>

\* The connection's own timeout is the one error kind that is not fatal.
WriteTimesOut(c) ==
  /\ writer[c].pc = "write" /\ writer[c].left > 0 /\ link[c] = "reset"
  /\ writer' = [writer EXCEPT ![c] = [pc |-> "loop", left |-> 0]]
  /\ UNCHANGED <<mainVars, reader, echo, netVars, stats, sent>>

WriterStops(c) == writer[c].pc = "loop" /\ shut.client /\ WriterLeaves(c)

WriterGoesOn(c) ==
  /\ Running(client)
  /\ \/ WriterSends(c) \/ WriterSendsInVain(c) \/ WriterCounts(c)
     \/ WriteFails(c) \/ WriteTimesOut(c) \/ WriterStops(c)

---------------------------------------------------------------------------
(* reader_loop of connection c. *)

ReaderLeaves(c) ==
  /\ reader' = [reader EXCEPT ![c] = "exit"]
  /\ IF writer[c].pc = "exit"
     THEN CloseClient({c}) ELSE UNCHANGED netVars
  /\ UNCHANGED <<mainVars, writer, echo, stats, sent>>

\* The look at the flag: a read begins, or the reader leaves at once,
\* whatever is still to be read.
ReaderLooks(c) ==
  /\ reader[c] = "loop"
  /\ \/ shut.client /\ ReaderLeaves(c)
     \/ /\ ~shut.client
        /\ reader' = [reader EXCEPT ![c] = "read"]
        /\ UNCHANGED <<mainVars, writer, echo, netVars, stats, sent>>

ReaderReads(c) ==
  /\ reader[c] = "read" /\ link[c] = "up"
  /\ \E n \in 1 .. wire[c].down :
       /\ wire' = [wire EXCEPT ![c].down = @ - n]
       /\ stats' = [stats EXCEPT ![c].cr = @ + n]
  /\ reader' = [reader EXCEPT ![c] = "loop"]
  /\ UNCHANGED <<mainVars, writer, echo, link, side, sent>>

\* End of file or an error.
ReadEnds(c) ==
  /\ reader[c] = "read"
  /\ link[c] = "reset" \/ (wire[c].down = 0 /\ side[c].server = "closed")
  /\ ReaderLeaves(c)

\* The read timeout of 500 ms.
ReadTimesOut(c) ==
  /\ reader[c] = "read" /\ link[c] = "up"
  /\ wire[c].down = 0 /\ side[c].server # "closed"
  /\ reader' = [reader EXCEPT ![c] = "loop"]
  /\ UNCHANGED <<mainVars, writer, echo, netVars, stats, sent>>

Reader(c) ==
  /\ Running(client)
  /\ ReaderLooks(c) \/ ReaderReads(c) \/ ReadEnds(c) \/ ReadTimesOut(c)

---------------------------------------------------------------------------
(* The server's main, listener and report threads. *)

\* The next port is bound and its listener started.
Bind ==
  /\ server.pc = "bind" /\ server.bound < NPorts
  /\ listener' = [listener EXCEPT ![server.bound] = "accept"]
  /\ server' = [server EXCEPT !.bound = @ + 1]
  /\ UNCHANGED <<shut, client, reporter, writer, reader, echo, netVars,
                 stats, sent>>

\* After the last one the report thread starts, and the main thread joins.
StartReporter ==
  /\ server.pc = "bind" /\ server.bound = NPorts
  /\ reporter' = "loop"
  /\ server' = [server EXCEPT !.pc = "join"]
  /\ UNCHANGED <<shut, client, listener, writer, reader, echo, netVars,
                 stats, sent>>

\* The port cannot be bound or the thread not started: run returns the error
\* and the process ends with the listeners and connections it has.
BindFails ==
  /\ Failures
  /\ server.pc = "bind"
  /\ server' = [server EXCEPT !.pc = "failed"]
  /\ CloseServer(Accepted, UNION {Backlog(p) : p \in Ports})
  /\ UNCHANGED <<shut, client, listener, reporter, writer,
                 reader, echo, stats, sent>>

\* A listener looks at the flag and accepts: the connection is registered
\* and its echo thread starts.
Accept(c) ==
  /\ listener[PortOf(c)] = "accept" /\ ~shut.server
  /\ link[c] = "up" /\ side[c].server = "backlog"
  /\ side' = [side EXCEPT ![c].server = "open"]
  /\ echo' = [echo EXCEPT ![c].pc = "loop"]
  /\ UNCHANGED <<mainVars, writer, reader, link, wire, stats, sent>>

ListenerStops(p) ==
  /\ listener[p] = "accept" /\ shut.server
  /\ listener' = [listener EXCEPT ![p] = "join"]
  /\ UNCHANGED <<shut, client, server, reporter, writer, reader,
                 echo, netVars, stats, sent>>

\* The echo thread of a connection just accepted cannot be started: the
\* listener panics.  It drops the connection and its socket, and the echo
\* threads it would have joined go on by themselves.
ListenerPanics(c) ==
  LET p == PortOf(c) IN
  /\ Failures
  /\ listener[p] = "accept" /\ ~shut.server
  /\ link[c] = "up" /\ side[c].server = "backlog"
  /\ listener' = [listener EXCEPT ![p] = "panic"]
  /\ CloseServer({c}, Backlog(p) \ {c})
  /\ UNCHANGED <<shut, client, server, reporter, writer, reader, echo, stats, sent>>

\* Mutant: the socket is dropped and the thread ends without its joins.
ListenerJoinsNobody(p) ==
  /\ listener[p] = "join"
  /\ listener' = [listener EXCEPT ![p] = "exit"]
  /\ CloseServer({}, Backlog(p))
  /\ UNCHANGED <<shut, client, server, reporter, writer, reader, echo, stats, sent>>

\* The echo threads are joined and the socket is dropped.
ListenerJoins(p) ==
  /\ listener[p] = "join"
  /\ \A c \in Conns : PortOf(c) = p => echo[c].pc \in {"off", "exit"}
  /\ listener' = [listener EXCEPT ![p] = "exit"]
  /\ CloseServer({}, Backlog(p))
  /\ UNCHANGED <<shut, client, server, reporter, writer, reader, echo, stats, sent>>

\* The report thread sees the flag, at the latest after one interval.
ReporterStops ==
  /\ reporter = "loop" /\ shut.server
  /\ reporter' = "exit"
  /\ UNCHANGED <<shut, client, server, listener, writer, reader,
                 echo, netVars, stats, sent>>

\* The joins ignore what they return; the final summary is printed and the
\* process ends, with the echo threads of a listener that panicked.
ServerJoins ==
  /\ server.pc = "join"
  /\ \A p \in Ports : listener[p] \in {"exit", "panic"}
  /\ reporter = "exit"
  /\ server' = [server EXCEPT !.pc = "done"]
  /\ CloseServer(Accepted, {})
  /\ UNCHANGED <<shut, client, listener, reporter, writer, reader, echo, stats, sent>>

ServerMain == Bind \/ StartReporter \/ BindFails \/ ServerJoins
Listener(p) ==
  /\ Running(server)
  /\ \/ \E c \in Conns : PortOf(c) = p /\ (Accept(c) \/ ListenerPanics(c))
     \/ ListenerStops(p) \/ ListenerJoins(p)
Reporter == Running(server) /\ ReporterStops

---------------------------------------------------------------------------
(* echo_loop of connection c. *)

EchoLeaves(c) ==
  /\ echo' = [echo EXCEPT ![c] = [pc |-> "exit", n |-> 0, left |-> 0]]
  /\ CloseServer({c}, {})
  /\ UNCHANGED <<mainVars, writer, reader, stats, sent>>

EchoLooks(c) ==
  /\ echo[c].pc = "loop"
  /\ \/ shut.server /\ EchoLeaves(c)
     \/ /\ ~shut.server
        /\ echo' = [echo EXCEPT ![c].pc = "read"]
        /\ UNCHANGED <<mainVars, writer, reader, netVars, stats, sent>>

EchoReads(c) ==
  /\ echo[c].pc = "read" /\ link[c] = "up"
  /\ \E n \in 1 .. wire[c].up :
       /\ wire' = [wire EXCEPT ![c].up = @ - n]
       /\ echo' = [echo EXCEPT ![c] = [pc |-> "write", n |-> n, left |-> n]]
       /\ stats' = [stats EXCEPT ![c].sr = @ + n]
  /\ UNCHANGED <<mainVars, writer, reader, link, side, sent>>

\* write_all, with no write timeout: it waits for room as long as it takes.
EchoWrites(c) ==
  /\ echo[c].pc = "write" /\ link[c] = "up" /\ side[c].client # "closed"
  /\ \E n \in 1 .. Lesser(echo[c].left, Cap - wire[c].down) :
       /\ wire' = [wire EXCEPT ![c].down = @ + n]
       /\ echo' = [echo EXCEPT ![c].left = @ - n]
  /\ UNCHANGED <<mainVars, writer, reader, link, side, stats, sent>>

\* The client has closed its socket: the bytes are taken, a reset answers.
EchoWritesInVain(c) ==
  /\ echo[c].pc = "write" /\ echo[c].left > 0
  /\ link[c] = "up" /\ side[c].client = "closed"
  /\ echo' = [echo EXCEPT ![c].left = 0]
  /\ Reset(c)
  /\ UNCHANGED <<mainVars, writer, reader, side, stats, sent>>

EchoCounts(c) ==
  /\ echo[c].pc = "write" /\ echo[c].left = 0
  /\ stats' = [stats EXCEPT ![c].sw = @ + echo[c].n]
  /\ echo' = [echo EXCEPT ![c] = [pc |-> "loop", n |-> 0, left |-> 0]]
  /\ UNCHANGED <<mainVars, writer, reader, netVars, sent>>

\* Mutant: the flag is looked at between the read and the write.
EchoEndsAtFlag(c) ==
  /\ \/ /\ echo[c].pc = "read"
        /\ \/ link[c] = "reset"
           \/ wire[c].up = 0 /\ side[c].client # "open"
     \/ echo[c].pc = "write" /\ (shut.server \/ (echo[c].left > 0 /\ link[c] = "reset"))
  /\ EchoLeaves(c)

\* Mutant: the end of the file is not told from a read without data.
EchoEndsAtError(c) ==
  /\ echo[c].pc \in {"read", "write"} /\ link[c] = "reset"
  /\ EchoLeaves(c)

\* End of file, or an error of the read or the write.
EchoEnds(c) ==
  /\ \/ /\ echo[c].pc = "read"
        /\ \/ link[c] = "reset"
           \/ wire[c].up = 0 /\ side[c].client # "open"
     \/ echo[c].pc = "write" /\ echo[c].left > 0 /\ link[c] = "reset"
  /\ EchoLeaves(c)

EchoTimesOut(c) ==
  /\ echo[c].pc = "read" /\ link[c] = "up"
  /\ wire[c].up = 0 /\ side[c].client = "open"
  /\ echo' = [echo EXCEPT ![c].pc = "loop"]
  /\ UNCHANGED <<mainVars, writer, reader, netVars, stats, sent>>

Echo(c) ==
  /\ Running(server)
  /\ \/ EchoLooks(c) \/ EchoReads(c) \/ EchoWrites(c) \/ EchoWritesInVain(c)
     \/ EchoCounts(c) \/ EchoEnds(c) \/ EchoTimesOut(c)

---------------------------------------------------------------------------
\* Both processes have ended.
Ended == ~Running(client) /\ ~Running(server) /\ UNCHANGED vars

Next ==
  \/ \E process \in {"client", "server"} : Signal(process)
  \/ Watchdog
  \/ ClientMain \/ ServerMain \/ Reporter
  \/ \E p \in Ports : Listener(p)
  \/ \E c \in Conns : WriterBegins(c) \/ WriterGoesOn(c) \/ Reader(c) \/ Echo(c)
                      \/ NetworkFails(c)
  \/ Ended

Spec == Init /\ [][Next]_vars

\* Every thread runs, and a call with a timeout returns.  Nobody has to send
\* a signal, nothing has to fail, and the bucket has to grant nothing.
FairSpec ==
  /\ Spec
  /\ WF_vars(ClientMain) /\ WF_vars(Watchdog)
  /\ WF_vars(ServerMain) /\ WF_vars(Reporter)
  /\ \A p \in Ports : WF_vars(Listener(p))
  /\ \A c \in Conns : /\ WF_vars(WriterGoesOn(c)) /\ WF_vars(Reader(c)) /\ WF_vars(Echo(c))

---------------------------------------------------------------------------
\* The counter of the client never runs ahead of the socket, and stays behind
\* by one write at most: a write that fails half way is the last one that
\* puts bytes on the connection (client.rs:200-212).
CountedAsSent ==
  \A c \in Conns : stats[c].cw <= sent[c] /\ sent[c] - stats[c].cw <= Payload

\* On a connection that is up, every byte sent is on its way to the server,
\* read by it and still to be echoed, on its way back, or read: the echo
\* thread leaves no byte of a read behind, also when it is told to stop
\* between the read and the write (server.rs:125-135).
NothingLost ==
  \A c \in Conns : link[c] = "up" =>
    /\ sent[c] = stats[c].sr + wire[c].up
    /\ stats[c].sr = stats[c].cr + wire[c].down + echo[c].left

\* The final summary of a process is of counters nobody changes any more: no
\* connection thread of the client is on its way, and on the server none of a
\* port whose listener did not panic; a client that went this way has closed
\* every connection it had (client.rs:173-177, server.rs:56-61 and 106-108).
JoinedAtTheEnd ==
  /\ client.pc = "done" =>
       \A c \in Conns : link[c] # "none" => /\ side[c].client = "closed"
                                            /\ writer[c].pc = "exit"
                                            /\ reader[c] = "exit"
  /\ server.pc = "done" =>
       \A c \in Conns : listener[PortOf(c)] = "exit" => echo[c].pc \in {"off", "exit"}

\* A client told to stop stops, whatever the server does meanwhile, and so
\* does a server (DESIGN.md, Graceful Shutdown): the joins end although the
\* server's write has no timeout, because a client's reader reads until the
\* client closes the socket.
StopWhenTold ==
  /\ shut.client ~> ~Running(client)
  /\ shut.server ~> ~Running(server)

\* When the client is gone, the server's echo threads end by themselves.
EchoesEnd ==
  ~Running(client) ~> \/ ~Running(server)
                      \/ \A c \in Conns : echo[c].pc \in {"off", "exit"}
============================================================================
