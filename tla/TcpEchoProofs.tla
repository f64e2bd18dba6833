--------------------------- MODULE TcpEchoProofs ---------------------------
(***************************************************************************)
(* What tcp-echo's counters say and what its joins leave, for any number   *)
(* of connections and ports and whatever fails.                            *)
(*                                                                         *)
(* The invariant is one of each connection: how the bytes sent, on the     *)
(* wire, read and counted relate while the connection is up, what is left  *)
(* of that once it is reset, and what a thread that has not started or has *)
(* ended implies for the socket.                                           *)
(*                                                                         *)
(* At the end the token bucket the client's writers share: the exchanges   *)
(* of try_acquire take every token at most once between two stores of the  *)
(* refill thread, and the count never leaves 0..Rate.  Neither fact is     *)
(* inductive alone.  A taker about to exchange must have loaded enough (or *)
(* the subtraction would wrap), and the bucket must not have grown since   *)
(* the refill thread loaded it (or what its store gives back would be      *)
(* negative): only the refill thread adds.                                 *)
(***************************************************************************)
EXTENDS TcpEcho, RateLimiter, TLAPS

WriterStates == [pc : {"off", "loop", "write", "exit"}, left : 0..Payload]
ReaderStates == {"off", "loop", "read", "exit"}
EchoStates   == [pc : {"off", "loop", "read", "write", "exit"}, n : 0..Cap, left : 0..Cap]
LinkStates   == {"none", "up", "reset"}
Sides == [client : {"open", "fin", "closed"}, server : {"backlog", "open", "closed"}]
Wires == [up : 0..Cap, down : 0..Cap]
Counters ==
  [cw : 0..MaxBytes, cr : 0..MaxBytes, sw : 0..MaxBytes, sr : 0..MaxBytes]

MainTypes ==
  /\ shut \in [{"client", "server"} -> BOOLEAN]
  /\ client \in [pc : {"ramp", "abort", "join", "done", "failed"}, tried : 0..NConns]
  /\ server \in [pc : {"bind", "join", "done", "failed"}, bound : 0..NPorts]
  /\ listener \in [Ports -> {"none", "accept", "join", "exit", "panic"}]
  /\ reporter \in {"off", "loop", "exit"}

ConnTypes ==
  /\ writer \in [Conns -> WriterStates]
  /\ reader \in [Conns -> ReaderStates]
  /\ echo \in [Conns -> EchoStates]
  /\ link \in [Conns -> LinkStates]
  /\ side \in [Conns -> Sides]
  /\ wire \in [Conns -> Wires]
  /\ stats \in [Conns -> Counters]
  /\ sent \in [Conns -> 0..MaxBytes]

\* Nothing has happened on a connection that was not made.
UnusedInv(c) ==
  link[c] = "none" =>
    /\ writer[c].pc = "off" /\ reader[c] = "off" /\ echo[c].pc = "off"
    /\ wire[c].up = 0 /\ wire[c].down = 0 /\ sent[c] = 0
    /\ stats[c].cw = 0 /\ stats[c].cr = 0 /\ stats[c].sw = 0 /\ stats[c].sr = 0

\* The writer's bytes: a write under way is counted when nothing of it is left,
\* and on a reset connection the writer hands over nothing more.
WriterInv(c) ==
  /\ writer[c].pc = "write" => sent[c] + writer[c].left <= MaxBytes
  /\ stats[c].cw <= sent[c] /\ sent[c] <= stats[c].cw + Payload
  /\ link[c] = "up" /\ writer[c].pc = "loop" => stats[c].cw = sent[c]
  /\ writer[c].pc = "write" /\ (link[c] = "up" \/ writer[c].left = 0) =>
       stats[c].cw + Payload = sent[c] + writer[c].left

\* The bytes on their way there and back.
BytesInv(c) ==
  /\ stats[c].sr <= sent[c] /\ stats[c].cr <= stats[c].sr
  /\ stats[c].sw + echo[c].n <= stats[c].sr
  /\ echo[c].pc # "write" => echo[c].n = 0 /\ echo[c].left = 0
  /\ link[c] = "up" =>
       /\ sent[c] = stats[c].sr + wire[c].up
       /\ stats[c].sr = stats[c].cr + wire[c].down + echo[c].left

\* The threads of a connection: which have been started, which have ended.
ThreadsInv(c) ==
  /\ c >= client.tried => link[c] = "none"
  /\ writer[c].pc = "exit" /\ reader[c] = "exit" => side[c].client = "closed"
  /\ link[c] # "none" /\ client.pc \in {"ramp", "join", "done"} =>
       writer[c].pc # "off" /\ reader[c] # "off"
  /\ client.pc = "done" => writer[c].pc \in {"off", "exit"} /\ reader[c] \in {"off", "exit"}
  /\ side[c].server = "backlog" => echo[c].pc = "off"
  /\ listener[PortOf(c)] = "exit" => echo[c].pc \in {"off", "exit"}

ConnInv(c) == UnusedInv(c) /\ WriterInv(c) /\ BytesInv(c) /\ ThreadsInv(c)

EchoInv == MainTypes /\ ConnTypes /\ \A c \in Conns : ConnInv(c)

---------------------------------------------------------------------------
(* The pieces of the invariant.                                            *)

LEMMA TypesAre == EchoTypeOK <=> MainTypes /\ ConnTypes
BY DEF EchoTypeOK, MainTypes, ConnTypes, WriterStates, ReaderStates, EchoStates,
       LinkStates, Sides, Wires, Counters

LEMMA PortsAre == \A c \in Conns : c \in Nat /\ PortOf(c) \in Ports
<1> SUFFICES ASSUME NEW c \in Conns
             PROVE  c \in Nat /\ PortOf(c) \in Ports
  OBVIOUS
<1>1. c \in Nat /\ NPorts \in Nat /\ NPorts > 0
  BY EchoAssumption DEF Conns
<1> QED
  BY <1>1 DEF PortOf, Ports

\* The fields of a connection.
LEMMA ConnFields ==
  ASSUME ConnTypes, NEW c \in Conns
  PROVE  /\ writer[c] \in WriterStates /\ writer[c].pc \in {"off", "loop", "write", "exit"}
         /\ writer[c].left \in Nat /\ writer[c].left <= Payload
         /\ reader[c] \in ReaderStates
         /\ echo[c] \in EchoStates /\ echo[c].pc \in {"off", "loop", "read", "write", "exit"}
         /\ echo[c].n \in Nat /\ echo[c].n <= Cap /\ echo[c].left \in Nat /\ echo[c].left <= Cap
         /\ link[c] \in LinkStates /\ side[c] \in Sides
         /\ wire[c] \in Wires /\ wire[c].up \in Nat /\ wire[c].up <= Cap
         /\ wire[c].down \in Nat /\ wire[c].down <= Cap
         /\ stats[c] \in Counters /\ stats[c].cw \in Nat /\ stats[c].cr \in Nat
         /\ stats[c].sw \in Nat /\ stats[c].sr \in Nat
         /\ sent[c] \in Nat /\ sent[c] <= MaxBytes
<1> USE EchoAssumption
<1>1. writer[c] \in WriterStates /\ reader[c] \in ReaderStates /\ echo[c] \in EchoStates
  BY DEF ConnTypes
<1>2. link[c] \in LinkStates /\ side[c] \in Sides /\ wire[c] \in Wires
  BY DEF ConnTypes
<1>3. stats[c] \in Counters /\ sent[c] \in 0 .. MaxBytes
  BY DEF ConnTypes
<1> QED
  BY <1>1, <1>2, <1>3 DEF WriterStates, EchoStates, Wires, Counters

\* Steps of one connection leave the others alone.
Others(c) ==
  \A d \in Conns \ {c} :
    /\ writer'[d] = writer[d] /\ reader'[d] = reader[d] /\ echo'[d] = echo[d]
    /\ link'[d] = link[d] /\ side'[d] = side[d] /\ wire'[d] = wire[d]
    /\ stats'[d] = stats[d] /\ sent'[d] = sent[d]

LEMMA OneConnection ==
  ASSUME EchoInv, NEW c \in Conns, UNCHANGED mainVars, ConnTypes', Others(c), ConnInv(c)'
  PROVE  EchoInv'
<1>1. MainTypes'
  BY DEF EchoInv, MainTypes, mainVars
<1>2. ASSUME NEW d \in Conns, d # c
      PROVE  ConnInv(d)'
  <2>1. /\ writer'[d] = writer[d] /\ reader'[d] = reader[d] /\ echo'[d] = echo[d]
        /\ link'[d] = link[d] /\ side'[d] = side[d] /\ wire'[d] = wire[d]
        /\ stats'[d] = stats[d] /\ sent'[d] = sent[d]
    BY <1>2 DEF Others
  <2>2. ConnInv(d)
    BY DEF EchoInv
  <2> QED
    BY <2>1, <2>2 DEF ConnInv, UnusedInv, WriterInv, BytesInv, ThreadsInv, mainVars
<1> QED
  BY <1>1, <1>2 DEF EchoInv

---------------------------------------------------------------------------
(* Closing and resetting.                                                  *)

\* The socket of one end is closed, the other is not touched.
Closes(end, c) ==
  /\ end = "client" => side'[c].client = "closed" /\ side'[c].server = side[c].server
  /\ end = "server" => side'[c].server = "closed" /\ side'[c].client = side[c].client

\* What happens to the sockets of a connection when one is closed: it may be
\* reset, and otherwise holds what it held.
Weakens(c) ==
  /\ link'[c] = "none" <=> link[c] = "none"
  /\ link'[c] # "reset" => link'[c] = link[c] /\ wire'[c] = wire[c]

\* The counts of a connection that is left alone or reset.
LEMMA CountsWeaken ==
  ASSUME EchoInv, NEW c \in Conns, Weakens(c),
         writer'[c] = writer[c], reader'[c] = reader[c], echo'[c] = echo[c],
         stats'[c] = stats[c], sent'[c] = sent[c]
  PROVE  UnusedInv(c)' /\ WriterInv(c)' /\ BytesInv(c)'
<1>1. UnusedInv(c) /\ WriterInv(c) /\ BytesInv(c)
  BY DEF EchoInv, ConnInv
<1> QED
  BY <1>1 DEF UnusedInv, WriterInv, BytesInv, Weakens

\* What closing the sockets in S at one end does, whatever it resets.
Closed(end, S) ==
  /\ link' \in [Conns -> LinkStates] /\ wire' \in [Conns -> Wires] /\ side' \in [Conns -> Sides]
  /\ \A c \in Conns : Weakens(c)
  /\ \A c \in S : Closes(end, c)
  /\ \A c \in Conns \ S : side'[c] = side[c] /\ link'[c] = link[c] /\ wire'[c] = wire[c]

LEMMA CloseIs ==
  ASSUME EchoInv, NEW end, end \in {"client", "server"}, NEW flow, flow \in {"up", "down"},
         NEW orderly, orderly \subseteq Conns, NEW dropped, dropped \subseteq Conns,
         \A c \in dropped : link[c] # "none"
  PROVE  Close(end, orderly, dropped, flow) => Closed(end, orderly \cup dropped)
<1> SUFFICES ASSUME Close(end, orderly, dropped, flow)
             PROVE  Closed(end, orderly \cup dropped)
  OBVIOUS
<1> DEFINE broken == dropped \cup {c \in orderly : wire[c][flow] > 0}
<1>0. ConnTypes
  BY DEF EchoInv
<1>1. /\ side' = [c \in Conns |-> IF c \in orderly \cup dropped
                                 THEN [side[c] EXCEPT ![end] = "closed"] ELSE side[c]]
      /\ link' = [c \in Conns |-> IF c \in broken THEN "reset" ELSE link[c]]
      /\ wire' = [c \in Conns |-> IF c \in broken THEN [up |-> 0, down |-> 0] ELSE wire[c]]
  BY DEF Close
<1>2. \A c \in broken : link[c] # "none"
  <2>1. \A c \in orderly : link[c] = "none" => wire[c].up = 0 /\ wire[c].down = 0
    BY DEF EchoInv, ConnInv, UnusedInv
  <2> QED
    BY <2>1
<1>3. broken \subseteq orderly \cup dropped
  OBVIOUS
<1> HIDE DEF broken
<1>4. \A s \in Sides : [s EXCEPT ![end] = "closed"] \in Sides
  BY DEF Sides
<1>5. side' \in [Conns -> Sides]
  BY <1>0, <1>1, <1>4 DEF ConnTypes
<1>6. link' \in [Conns -> LinkStates]
  BY <1>0, <1>1 DEF ConnTypes, LinkStates
<1>7. wire' \in [Conns -> Wires]
  <2>1. [up |-> 0, down |-> 0] \in Wires
    BY EchoAssumption DEF Wires
  <2> QED
    BY <1>0, <1>1, <2>1 DEF ConnTypes
<1>8. \A c \in Conns : Weakens(c)
  BY <1>1, <1>2 DEF Weakens
<1>9. \A c \in orderly \cup dropped : Closes(end, c)
  BY <1>0, <1>1 DEF Closes, ConnTypes, Sides
<1> QED
  BY <1>1, <1>3, <1>5, <1>6, <1>7, <1>8, <1>9 DEF Closed

\* One socket of one connection is closed.
LEMMA CloseOne ==
  ASSUME EchoInv, NEW c \in Conns
  PROVE  /\ CloseClient({c}) => Closed("client", {c})
         /\ CloseServer({c}, {}) => Closed("server", {c})
<1>1. {c} \cup {} = {c} /\ {c} \subseteq Conns /\ {} \subseteq Conns
      /\ \A d \in {} : link[d] # "none"
  OBVIOUS
<1>2. Close("client", {c}, {}, "down") => Closed("client", {c} \cup {})
  BY <1>1, CloseIs
<1>3. Close("server", {c}, {}, "up") => Closed("server", {c} \cup {})
  BY <1>1, CloseIs
<1> QED
  BY <1>1, <1>2, <1>3 DEF CloseClient, CloseServer

LEMMA ResetIs ==
  ASSUME EchoInv, NEW c \in Conns, link[c] # "none", Reset(c)
  PROVE  /\ link' \in [Conns -> LinkStates] /\ wire' \in [Conns -> Wires]
         /\ link'[c] = "reset" /\ wire'[c].up = 0 /\ wire'[c].down = 0
         /\ Weakens(c)
         /\ \A d \in Conns \ {c} : link'[d] = link[d] /\ wire'[d] = wire[d]
<1>1. link \in [Conns -> LinkStates] /\ wire \in [Conns -> Wires]
  BY DEF EchoInv, ConnTypes
<1>2. [up |-> 0, down |-> 0] \in Wires
  BY EchoAssumption DEF Wires
<1> QED
  BY <1>1, <1>2 DEF Reset, LinkStates, Weakens

---------------------------------------------------------------------------
(* The client's main thread and the shutdown flags.                        *)

\* Nothing happens on the connections.
connVars == <<writer, reader, echo, netVars, stats, sent>>

LEMMA MainMoves ==
  ASSUME EchoInv, MainTypes', UNCHANGED connVars,
         \A c \in Conns : ThreadsInv(c)'
  PROVE  EchoInv'
<1>1. ConnTypes'
  BY DEF EchoInv, ConnTypes, connVars, netVars
<1>2. \A c \in Conns : UnusedInv(c)' /\ WriterInv(c)' /\ BytesInv(c)'
  BY DEF EchoInv, ConnInv, UnusedInv, WriterInv, BytesInv, connVars, netVars
<1> QED
  BY <1>1, <1>2 DEF EchoInv, ConnInv

LEMMA SignalKeeps ==
  ASSUME EchoInv, NEW process \in {"client", "server"}, Signal(process)
  PROVE  EchoInv'
<1>1. UNCHANGED <<client, server, listener, reporter, connVars>>
  BY DEF Signal, connVars
<1>2. MainTypes'
  BY <1>1 DEF EchoInv, MainTypes, Signal
<1>3. \A c \in Conns : ThreadsInv(c)'
  BY <1>1 DEF EchoInv, ConnInv, ThreadsInv, connVars, netVars
<1> QED
  BY <1>1, <1>2, <1>3, MainMoves

LEMMA ClientMainMoves ==
  ASSUME EchoInv,
         \/ \E c \in Conns : ConnectFails(c)
         \/ ClientStopsWaiting
         \/ ClientJoins
  PROVE  EchoInv'
<1>1. UNCHANGED <<shut, server, listener, reporter, connVars>>
  BY DEF ConnectFails, ClientStopsWaiting, ClientJoins, connVars
<1>2. /\ client.pc \in {"ramp", "join"} /\ client.tried \in 0 .. NConns
      /\ client.tried \in Nat
  BY EchoAssumption DEF EchoInv, MainTypes, ConnectFails, ClientStopsWaiting, ClientJoins
<1>3. /\ client'.pc \in {"ramp", "join", "done"} /\ client'.tried \in 0 .. NConns
      /\ client'.tried >= client.tried
      /\ client' \in [pc : {"ramp", "abort", "join", "done", "failed"}, tried : 0..NConns]
      /\ client'.pc = "done" => \A c \in Conns : writer[c].pc \in {"off", "exit"}
                                                 /\ reader[c] \in {"off", "exit"}
  <2>1. CASE \E c \in Conns : ConnectFails(c)
    <3>1. PICK c \in Conns : ConnectFails(c)
      BY <2>1
    <3>2. /\ client' = [client EXCEPT !.tried = c + 1] /\ client.tried = c
          /\ c + 1 \in 0 .. NConns /\ client.pc = "ramp"
      BY <3>1, EchoAssumption DEF ConnectFails, Conns
    <3> QED
      BY <1>2, <3>2 DEF EchoInv, MainTypes
  <2>2. CASE ClientStopsWaiting
    BY <1>2, <2>2 DEF ClientStopsWaiting, EchoInv, MainTypes
  <2>3. CASE ClientJoins
    BY <1>2, <2>3 DEF ClientJoins, EchoInv, MainTypes
  <2> QED
    BY <2>1, <2>2, <2>3
<1>4. MainTypes'
  BY <1>1, <1>3 DEF EchoInv, MainTypes
<1>5. ASSUME NEW c \in Conns
      PROVE  ThreadsInv(c)'
  <2>1. c \in Nat /\ client'.tried \in Nat
    BY <1>3, PortsAre, EchoAssumption
  <2>2. c >= client'.tried => c >= client.tried
    BY <1>2, <1>3, <2>1
  <2>3. ThreadsInv(c)
    BY DEF EchoInv, ConnInv
  <2> QED
    BY <1>1, <1>2, <1>3, <2>2, <2>3 DEF ThreadsInv, connVars, netVars
<1> QED
  BY <1>1, <1>4, <1>5, MainMoves

\* A connection is made, with the threads its start-up came to.
LEMMA ConnectMoves ==
  ASSUME EchoInv, NEW c \in Conns, client.pc = "ramp", client.tried = c,
         NEW pc \in {"off", "loop"}, NEW r \in {"off", "loop"}, NEW m \in {"ramp", "abort"},
         client' = [pc |-> m, tried |-> c + 1],
         m = "ramp" => pc = "loop" /\ r = "loop",
         link' = [link EXCEPT ![c] = "up"],
         writer' = [writer EXCEPT ![c].pc = pc],
         reader' = [reader EXCEPT ![c] = r],
         UNCHANGED <<shut, server, listener, reporter, echo, side, wire, stats, sent>>
  PROVE  EchoInv'
<1>0. ConnTypes /\ MainTypes /\ ConnInv(c)
  BY DEF EchoInv
<1>1. c \in Nat /\ c + 1 \in 0 .. NConns
  BY EchoAssumption DEF Conns
<1> DEFINE w == [writer[c] EXCEPT !.pc = pc]
<1>2. writer' = [writer EXCEPT ![c] = w]
  OBVIOUS
<1>3. w \in WriterStates /\ w.pc = pc
  BY <1>0, ConnFields DEF WriterStates
<1> HIDE DEF w
<1>4. MainTypes'
  BY <1>0, <1>1 DEF MainTypes
<1>5. ConnTypes'
  <2>1. writer' \in [Conns -> WriterStates] /\ reader' \in [Conns -> ReaderStates]
    BY <1>0, <1>2, <1>3 DEF ConnTypes, ReaderStates
  <2>2. link' \in [Conns -> LinkStates]
    BY <1>0 DEF ConnTypes, LinkStates
  <2> QED
    BY <1>0, <2>1, <2>2 DEF ConnTypes
<1>6. /\ writer'[c] = w /\ reader'[c] = r /\ link'[c] = "up" /\ client'.pc = m
      /\ client'.tried = c + 1
      /\ \A d \in Conns \ {c} : writer'[d] = writer[d] /\ reader'[d] = reader[d] /\ link'[d] = link[d]
  BY <1>0, <1>2 DEF ConnTypes
<1>7. link[c] = "none" /\ client.tried \in Nat
  BY <1>0, <1>1 DEF ConnInv, ThreadsInv
<1>8. ASSUME NEW d \in Conns, d # c
      PROVE  ConnInv(d)'
  <2>1. ConnInv(d) /\ d \in Nat
    BY PortsAre DEF EchoInv
  <2>2. d >= c + 1 => d >= client.tried
    BY <1>1, <2>1
  <2> QED
    BY <1>6, <1>8, <2>1, <2>2 DEF ConnInv, UnusedInv, WriterInv, BytesInv, ThreadsInv
<1>9. ConnInv(c)'
  <2>1. /\ echo[c].pc = "off" /\ echo[c].n = 0 /\ echo[c].left = 0
        /\ wire[c].up = 0 /\ wire[c].down = 0 /\ sent[c] = 0
        /\ stats[c].cw = 0 /\ stats[c].cr = 0 /\ stats[c].sw = 0 /\ stats[c].sr = 0
    BY <1>0, <1>7 DEF ConnInv, UnusedInv, BytesInv
  <2>2. UnusedInv(c)' /\ WriterInv(c)' /\ BytesInv(c)'
    BY <1>3, <1>6, <2>1, EchoAssumption DEF UnusedInv, WriterInv, BytesInv
  <2>3. ~ (c >= c + 1)
    BY <1>1
  <2>4. ThreadsInv(c)'
    BY <1>0, <1>3, <1>6, <2>3 DEF ConnInv, ThreadsInv
  <2> QED
    BY <2>2, <2>4 DEF ConnInv
<1> QED
  BY <1>4, <1>5, <1>8, <1>9 DEF EchoInv

LEMMA ConnectKeeps ==
  ASSUME EchoInv, NEW c \in Conns, Connect(c) \/ ConnectAborts(c)
  PROVE  EchoInv'
<1>0. ConnTypes /\ MainTypes /\ ConnInv(c)
  BY DEF EchoInv
<1>1. CASE Connect(c)
  <2>1. client' = [pc |-> "ramp", tried |-> c + 1]
    BY <1>0, <1>1 DEF Connect, MainTypes
  <2> QED
    BY <1>1, <2>1, ConnectMoves DEF Connect
<1>2. CASE ConnectAborts(c)
  <2>1. PICK pc \in {"off", "loop"} : writer' = [writer EXCEPT ![c].pc = pc]
    BY <1>2 DEF ConnectAborts
  <2>2. reader[c] = "off"
    BY <1>0, <1>2, PortsAre DEF ConnectAborts, ConnInv, ThreadsInv, UnusedInv
  <2>3. reader' = [reader EXCEPT ![c] = "off"]
    BY <1>0, <1>2, <2>2 DEF ConnectAborts, ConnTypes
  <2> QED
    BY <1>2, <2>1, <2>3, ConnectMoves DEF ConnectAborts
<1> QED
  BY <1>1, <1>2

---------------------------------------------------------------------------
(* The server's main, listener and report threads.                         *)

\* A socket that is closed stays closed, and what has left the backlog does
\* not come back.
LEMMA ClosedStays ==
  ASSUME NEW end \in {"client", "server"}, NEW S, S \subseteq Conns, Closed(end, S), NEW c \in Conns
  PROVE  /\ Weakens(c)
         /\ side[c].client = "closed" => side'[c].client = "closed"
         /\ side'[c].server = "backlog" => side[c].server = "backlog"
BY DEF Closed, Closes

\* A listener or main thread goes on, and may close sockets on the way.
LEMMA CloseMoves ==
  ASSUME EchoInv, MainTypes', UNCHANGED <<writer, reader, echo, stats, sent>>,
         NEW end \in {"client", "server"}, NEW S, S \subseteq Conns, Closed(end, S),
         client'.tried >= client.tried, client'.pc \in {client.pc, "failed"},
         \A c \in Conns : listener'[PortOf(c)] = "exit" => echo[c].pc \in {"off", "exit"}
  PROVE  EchoInv'
<1>1. ConnTypes'
  BY DEF EchoInv, ConnTypes, Closed
<1>2. ASSUME NEW c \in Conns
      PROVE  ConnInv(c)'
  <2>1. /\ Weakens(c)
        /\ side[c].client = "closed" => side'[c].client = "closed"
        /\ side'[c].server = "backlog" => side[c].server = "backlog"
    BY ClosedStays
  <2>2. UnusedInv(c)' /\ WriterInv(c)' /\ BytesInv(c)'
    BY <2>1, CountsWeaken
  <2>3. c >= client'.tried => c >= client.tried
    <3>1. c \in Nat /\ client.tried \in Nat /\ client'.tried \in Nat
      BY PortsAre, EchoAssumption DEF EchoInv, MainTypes
    <3> QED
      BY <3>1
  <2>4. ThreadsInv(c)
    BY DEF EchoInv, ConnInv
  <2>5. ThreadsInv(c)'
    BY <2>1, <2>3, <2>4 DEF ThreadsInv, Weakens
  <2> QED
    BY <2>2, <2>5 DEF ConnInv
<1> QED
  BY <1>1, <1>2 DEF EchoInv

LEMMA ClientAbortsKeeps ==
  ASSUME EchoInv, ClientAborts
  PROVE  EchoInv'
<1>1. /\ client' = [client EXCEPT !.pc = "failed"]
      /\ UNCHANGED <<shut, server, listener, reporter, writer, reader, echo, stats, sent>>
  BY DEF ClientAborts
<1>2. Closed("client", Connected)
  <2>1. Connected \subseteq Conns /\ {} \subseteq Conns /\ Connected \cup {} = Connected
        /\ \A d \in {} : link[d] # "none"
    BY DEF Connected
  <2>2. Close("client", Connected, {}, "down")
    BY DEF ClientAborts, CloseClient
  <2>3. Close("client", Connected, {}, "down") => Closed("client", Connected \cup {})
    BY <2>1, CloseIs
  <2> QED
    BY <2>1, <2>2, <2>3
<1>3. MainTypes' /\ client'.pc = "failed" /\ client'.tried = client.tried /\ client.tried \in Nat
  BY <1>1, EchoAssumption DEF EchoInv, MainTypes
<1>4. \A c \in Conns : listener'[PortOf(c)] = "exit" => echo[c].pc \in {"off", "exit"}
  BY <1>1 DEF EchoInv, ConnInv, ThreadsInv
<1>5. Connected \subseteq Conns /\ client'.tried >= client.tried
  BY <1>3 DEF Connected
<1> QED
  BY <1>1, <1>2, <1>3, <1>4, <1>5, CloseMoves

\* The sockets a listener or the server's main thread closes.
LEMMA BacklogsAre ==
  /\ Accepted \subseteq Conns
  /\ \A p : Backlog(p) \subseteq Conns /\ \A c \in Backlog(p) : link[c] # "none"
BY DEF Accepted, Backlog

LEMMA ServerCloses ==
  ASSUME EchoInv, NEW S, S \subseteq Conns, NEW B, B \subseteq Conns, \A c \in B : link[c] # "none",
         MainTypes', UNCHANGED <<client, writer, reader, echo, stats, sent>>,
         \A c \in Conns : listener'[PortOf(c)] = "exit" => echo[c].pc \in {"off", "exit"}
  PROVE  CloseServer(S, B) => EchoInv'
<1>1. Close("server", S, B, "up") => Closed("server", S \cup B)
  BY CloseIs
<1>2. S \cup B \subseteq Conns /\ client.tried \in Nat /\ client'.tried >= client.tried
  BY EchoAssumption DEF EchoInv, MainTypes
<1> QED
  BY <1>1, <1>2, CloseMoves DEF CloseServer

LEMMA ServerMainKeeps ==
  ASSUME EchoInv, ServerMain
  PROVE  EchoInv'
<1>0. /\ MainTypes
      /\ \A c \in Conns : listener[PortOf(c)] = "exit" => echo[c].pc \in {"off", "exit"}
  BY DEF EchoInv, ConnInv, ThreadsInv
<1>1. CASE Bind
  <2>1. /\ server.bound \in Ports /\ server.bound + 1 \in 0 .. NPorts
        /\ listener' = [listener EXCEPT ![server.bound] = "accept"]
        /\ server' = [server EXCEPT !.bound = @ + 1]
        /\ UNCHANGED <<shut, client, reporter, connVars>>
    BY <1>0, <1>1, EchoAssumption DEF Bind, MainTypes, Ports, connVars
  <2>2. MainTypes'
    BY <1>0, <2>1 DEF MainTypes
  <2>3. \A p \in Ports : listener'[p] = "exit" => listener[p] = "exit"
    BY <1>0, <2>1 DEF MainTypes
  <2>4. \A c \in Conns : ThreadsInv(c)'
    BY <2>1, <2>3, PortsAre DEF EchoInv, ConnInv, ThreadsInv, connVars, netVars
  <2> QED
    BY <2>1, <2>2, <2>4, MainMoves
<1>2. CASE StartReporter
  <2>1. MainTypes' /\ UNCHANGED <<client, listener, connVars>>
    BY <1>0, <1>2 DEF StartReporter, MainTypes, connVars
  <2>2. \A c \in Conns : ThreadsInv(c)'
    BY <2>1 DEF EchoInv, ConnInv, ThreadsInv, connVars, netVars
  <2> QED
    BY <2>1, <2>2, MainMoves
<1>3. CASE BindFails
  <2> DEFINE B == UNION {Backlog(p) : p \in Ports}
  <2>1. B \subseteq Conns /\ (\A c \in B : link[c] # "none") /\ Accepted \subseteq Conns
    BY BacklogsAre
  <2>2. CloseServer(Accepted, B) /\ UNCHANGED <<client, listener, writer, reader, echo, stats, sent>>
    BY <1>3 DEF BindFails
  <2>3. MainTypes'
    BY <1>0, <1>3 DEF BindFails, MainTypes
  <2> HIDE DEF B
  <2> QED
    BY <1>0, <2>1, <2>2, <2>3, ServerCloses
<1>4. CASE ServerJoins
  <2>1. Accepted \subseteq Conns /\ {} \subseteq Conns /\ \A c \in {} : link[c] # "none"
    BY BacklogsAre
  <2>2. CloseServer(Accepted, {}) /\ UNCHANGED <<client, listener, writer, reader, echo, stats, sent>>
    BY <1>4 DEF ServerJoins
  <2>3. MainTypes'
    BY <1>0, <1>4 DEF ServerJoins, MainTypes
  <2> QED
    BY <1>0, <2>1, <2>2, <2>3, ServerCloses
<1> QED
  BY <1>1, <1>2, <1>3, <1>4 DEF ServerMain

LEMMA ReporterKeeps ==
  ASSUME EchoInv, Reporter
  PROVE  EchoInv'
<1>1. MainTypes' /\ UNCHANGED <<client, listener, connVars>>
  BY DEF Reporter, ReporterStops, EchoInv, MainTypes, connVars
<1>2. \A c \in Conns : ThreadsInv(c)'
  BY <1>1 DEF EchoInv, ConnInv, ThreadsInv, connVars, netVars
<1> QED
  BY <1>1, <1>2, MainMoves

\* A connection leaves the backlog.
LEMMA AcceptKeeps ==
  ASSUME EchoInv, NEW c \in Conns, Accept(c)
  PROVE  EchoInv'
<1>0. ConnTypes /\ ConnInv(c)
  BY DEF EchoInv
<1> DEFINE s == [side[c] EXCEPT !.server = "open"]
           e == [echo[c] EXCEPT !.pc = "loop"]
<1>1. /\ side' = [side EXCEPT ![c] = s] /\ echo' = [echo EXCEPT ![c] = e]
      /\ link[c] = "up" /\ side[c].server = "backlog" /\ listener[PortOf(c)] = "accept"
      /\ UNCHANGED <<mainVars, writer, reader, link, wire, stats, sent>>
  BY DEF Accept
<1>2. s \in Sides /\ s.client = side[c].client /\ s.server = "open"
  BY <1>0, ConnFields DEF Sides
<1>3. e \in EchoStates /\ e.pc = "loop" /\ e.n = echo[c].n /\ e.left = echo[c].left
  BY <1>0, ConnFields DEF EchoStates
<1> HIDE DEF s, e
<1>4. ConnTypes' /\ Others(c) /\ side'[c] = s /\ echo'[c] = e
  BY <1>0, <1>1, <1>2, <1>3 DEF ConnTypes, Others
<1>5. UnusedInv(c)' /\ WriterInv(c)'
  BY <1>0, <1>1 DEF ConnInv, UnusedInv, WriterInv
<1>6. BytesInv(c)'
  BY <1>0, <1>1, <1>3, <1>4 DEF ConnInv, BytesInv, ThreadsInv
<1>7. ThreadsInv(c)'
  BY <1>0, <1>1, <1>2, <1>4 DEF ConnInv, ThreadsInv, mainVars
<1> QED
  BY <1>1, <1>4, <1>5, <1>6, <1>7, OneConnection DEF ConnInv

LEMMA ListenerKeeps ==
  ASSUME EchoInv, NEW p \in Ports, Listener(p)
  PROVE  EchoInv'
<1>0. /\ MainTypes
      /\ \A c \in Conns : listener[PortOf(c)] = "exit" => echo[c].pc \in {"off", "exit"}
  BY DEF EchoInv, ConnInv, ThreadsInv
<1>1. CASE \E c \in Conns : Accept(c)
  BY <1>1, AcceptKeeps
<1>2. ASSUME NEW c \in Conns, PortOf(c) = p, ListenerPanics(c)
      PROVE  EchoInv'
  <2> DEFINE B == Backlog(p) \ {c}
  <2>1. {c} \subseteq Conns /\ B \subseteq Conns /\ \A d \in B : link[d] # "none"
    BY BacklogsAre
  <2>2. /\ CloseServer({c}, B) /\ listener' = [listener EXCEPT ![p] = "panic"]
        /\ UNCHANGED <<shut, client, server, reporter, writer, reader, echo, stats, sent>>
    BY <1>2 DEF ListenerPanics
  <2> HIDE DEF B
  <2>3. MainTypes' /\ \A q \in Ports : listener'[q] = "exit" => listener[q] = "exit"
    BY <1>0, <2>2 DEF MainTypes
  <2>4. \A d \in Conns : listener'[PortOf(d)] = "exit" => echo[d].pc \in {"off", "exit"}
    BY <1>0, <2>3, PortsAre
  <2> QED
    BY <2>1, <2>2, <2>3, <2>4, ServerCloses
<1>3. CASE ListenerStops(p)
  <2>1. MainTypes' /\ UNCHANGED <<client, connVars>>
    BY <1>0, <1>3 DEF ListenerStops, MainTypes, connVars
  <2>2. \A q \in Ports : listener'[q] = "exit" => listener[q] = "exit"
    BY <1>0, <1>3 DEF ListenerStops, MainTypes
  <2>3. \A c \in Conns : ThreadsInv(c)'
    BY <2>1, <2>2, PortsAre DEF EchoInv, ConnInv, ThreadsInv, connVars, netVars
  <2> QED
    BY <2>1, <2>3, MainMoves
<1>4. CASE ListenerJoins(p)
  <2>1. {} \subseteq Conns /\ Backlog(p) \subseteq Conns /\ \A d \in Backlog(p) : link[d] # "none"
    BY BacklogsAre
  <2>2. /\ CloseServer({}, Backlog(p)) /\ listener' = [listener EXCEPT ![p] = "exit"]
        /\ \A c \in Conns : PortOf(c) = p => echo[c].pc \in {"off", "exit"}
        /\ UNCHANGED <<shut, client, server, reporter, writer, reader, echo, stats, sent>>
    BY <1>4 DEF ListenerJoins
  <2>3. MainTypes' /\ \A q \in Ports : q # p /\ listener'[q] = "exit" => listener[q] = "exit"
    BY <1>0, <2>2 DEF MainTypes
  <2>4. \A d \in Conns : listener'[PortOf(d)] = "exit" => echo[d].pc \in {"off", "exit"}
    BY <1>0, <2>2, <2>3, PortsAre
  <2> QED
    BY <2>1, <2>2, <2>3, <2>4, ServerCloses
<1> QED
  BY <1>1, <1>2, <1>3, <1>4 DEF Listener

---------------------------------------------------------------------------
(* writer_loop.                                                            *)

LEMMA WriterBeginsKeeps ==
  ASSUME EchoInv, NEW c \in Conns, WriterBegins(c)
  PROVE  EchoInv'
<1>0. ConnTypes /\ ConnInv(c)
  BY DEF EchoInv
<1>1. /\ writer' = [writer EXCEPT ![c] = [pc |-> "write", left |-> Payload]]
      /\ writer[c].pc = "loop" /\ sent[c] + Payload <= MaxBytes /\ client.pc # "done"
      /\ UNCHANGED <<mainVars, reader, echo, netVars, stats, sent>>
  BY DEF WriterBegins, Running
<1>2. /\ ConnTypes' /\ Others(c)
      /\ writer'[c].pc = "write" /\ writer'[c].left = Payload
  <2>1. [pc |-> "write", left |-> Payload] \in WriterStates
    BY EchoAssumption DEF WriterStates
  <2> QED
    BY <1>0, <1>1, <2>1 DEF ConnTypes, Others, netVars
<1>3. UnusedInv(c)' /\ BytesInv(c)'
  BY <1>0, <1>1, <1>2 DEF ConnInv, UnusedInv, BytesInv, netVars
<1>4. WriterInv(c)'
  BY <1>0, <1>1, <1>2, EchoAssumption DEF ConnInv, WriterInv, netVars
<1>5. ThreadsInv(c)'
  BY <1>0, <1>1, <1>2 DEF ConnInv, ThreadsInv, mainVars, netVars
<1> QED
  BY <1>1, <1>2, <1>3, <1>4, <1>5, OneConnection DEF ConnInv

LEMMA WriterSendsKeeps ==
  ASSUME EchoInv, NEW c \in Conns, WriterSends(c)
  PROVE  EchoInv'
<1>0. ConnTypes /\ ConnInv(c)
  BY DEF EchoInv
<1>1. /\ writer[c].pc = "write" /\ link[c] = "up"
      /\ UNCHANGED <<mainVars, reader, echo, link, side, stats>>
  BY DEF WriterSends
<1>2. PICK n \in 1 .. Lesser(writer[c].left, Cap - wire[c].up) :
        /\ writer' = [writer EXCEPT ![c].left = @ - n]
        /\ wire' = [wire EXCEPT ![c].up = @ + n]
        /\ sent' = [sent EXCEPT ![c] = @ + n]
  BY DEF WriterSends
<1>3. n \in Nat /\ n <= writer[c].left /\ wire[c].up + n <= Cap /\ sent[c] + n <= MaxBytes
  BY <1>0, <1>1, <1>2, ConnFields, EchoAssumption DEF Lesser, ConnInv, WriterInv
<1> DEFINE w == [writer[c] EXCEPT !.left = @ - n]
           i == [wire[c] EXCEPT !.up = @ + n]
<1>4. writer' = [writer EXCEPT ![c] = w] /\ wire' = [wire EXCEPT ![c] = i]
  BY <1>2
<1>5. w \in WriterStates /\ w.pc = "write" /\ w.left = writer[c].left - n
  BY <1>0, <1>1, <1>3, ConnFields, EchoAssumption DEF WriterStates
<1>6. i \in Wires /\ i.up = wire[c].up + n /\ i.down = wire[c].down
  BY <1>0, <1>3, ConnFields, EchoAssumption DEF Wires
<1> HIDE DEF w, i
<1>7. ConnTypes'
  <2>1. sent' \in [Conns -> 0 .. MaxBytes]
    BY <1>0, <1>2, <1>3, ConnFields, EchoAssumption DEF ConnTypes
  <2> QED
    BY <1>0, <1>1, <1>4, <1>5, <1>6, <2>1 DEF ConnTypes
<1>8. Others(c) /\ writer'[c] = w /\ wire'[c] = i /\ sent'[c] = sent[c] + n
  BY <1>0, <1>1, <1>2, <1>4 DEF ConnTypes, Others
<1>9. UnusedInv(c)'
  BY <1>1 DEF UnusedInv
<1>10. WriterInv(c)'
  BY <1>0, <1>1, <1>3, <1>5, <1>8, ConnFields, EchoAssumption DEF ConnInv, WriterInv
<1>11. BytesInv(c)'
  BY <1>0, <1>1, <1>3, <1>6, <1>8, ConnFields DEF ConnInv, BytesInv
<1>12. ThreadsInv(c)'
  BY <1>0, <1>1, <1>5, <1>8 DEF ConnInv, ThreadsInv, mainVars
<1> QED
  BY <1>1, <1>7, <1>8, <1>9, <1>10, <1>11, <1>12, OneConnection DEF ConnInv

LEMMA WriterSendsInVainKeeps ==
  ASSUME EchoInv, NEW c \in Conns, WriterSendsInVain(c)
  PROVE  EchoInv'
<1>0. ConnTypes /\ ConnInv(c)
  BY DEF EchoInv
<1>1. /\ writer[c].pc = "write" /\ link[c] = "up"
      /\ writer' = [writer EXCEPT ![c].left = 0]
      /\ sent' = [sent EXCEPT ![c] = @ + writer[c].left]
      /\ Reset(c)
      /\ UNCHANGED <<mainVars, reader, echo, side, stats>>
  BY DEF WriterSendsInVain
<1> DEFINE w == [writer[c] EXCEPT !.left = 0]
<1>2. writer' = [writer EXCEPT ![c] = w]
  BY <1>1
<1>3. w \in WriterStates /\ w.pc = "write" /\ w.left = 0
  BY <1>0, <1>1, ConnFields, EchoAssumption DEF WriterStates
<1> HIDE DEF w
<1>4. /\ link' \in [Conns -> LinkStates] /\ wire' \in [Conns -> Wires]
      /\ link'[c] = "reset" /\ wire'[c].up = 0 /\ wire'[c].down = 0
      /\ \A d \in Conns \ {c} : link'[d] = link[d] /\ wire'[d] = wire[d]
  BY <1>1, ResetIs
<1>5. sent[c] + writer[c].left \in Nat /\ sent[c] + writer[c].left <= MaxBytes
  BY <1>0, <1>1, ConnFields DEF ConnInv, WriterInv
<1>6. ConnTypes'
  <2>1. sent' \in [Conns -> 0 .. MaxBytes]
    BY <1>0, <1>1, <1>5, EchoAssumption DEF ConnTypes
  <2> QED
    BY <1>0, <1>1, <1>2, <1>3, <1>4, <2>1 DEF ConnTypes
<1>7. Others(c) /\ writer'[c] = w /\ sent'[c] = sent[c] + writer[c].left
  BY <1>0, <1>1, <1>2, <1>4 DEF ConnTypes, Others
<1>8. UnusedInv(c)'
  BY <1>4 DEF UnusedInv
<1>9. WriterInv(c)'
  BY <1>0, <1>1, <1>3, <1>4, <1>5, <1>7, ConnFields, EchoAssumption DEF ConnInv, WriterInv
<1>10. BytesInv(c)'
  BY <1>0, <1>1, <1>4, <1>7, ConnFields DEF ConnInv, BytesInv
<1>11. ThreadsInv(c)'
  BY <1>0, <1>1, <1>3, <1>4, <1>7 DEF ConnInv, ThreadsInv, mainVars
<1> QED
  BY <1>1, <1>6, <1>7, <1>8, <1>9, <1>10, <1>11, OneConnection DEF ConnInv

LEMMA WriterCountsKeeps ==
  ASSUME EchoInv, NEW c \in Conns, WriterCounts(c)
  PROVE  EchoInv'
<1>0. ConnTypes /\ ConnInv(c)
  BY DEF EchoInv
<1>1. /\ writer[c].pc = "write" /\ writer[c].left = 0
      /\ writer' = [writer EXCEPT ![c].pc = "loop"]
      /\ stats' = [stats EXCEPT ![c].cw = @ + Payload]
      /\ UNCHANGED <<mainVars, reader, echo, netVars, sent>>
  BY DEF WriterCounts
<1>2. stats[c].cw + Payload = sent[c] /\ stats[c].cw + Payload \in 0 .. MaxBytes
  BY <1>0, <1>1, ConnFields, EchoAssumption DEF ConnInv, WriterInv
<1> DEFINE w == [writer[c] EXCEPT !.pc = "loop"]
           s == [stats[c] EXCEPT !.cw = @ + Payload]
<1>3. writer' = [writer EXCEPT ![c] = w] /\ stats' = [stats EXCEPT ![c] = s]
  BY <1>1
<1>4. w \in WriterStates /\ w.pc = "loop" /\ w.left = 0
  BY <1>0, <1>1, ConnFields DEF WriterStates
<1>5. /\ s \in Counters /\ s.cw = stats[c].cw + Payload
      /\ s.cr = stats[c].cr /\ s.sw = stats[c].sw /\ s.sr = stats[c].sr
  BY <1>0, <1>2, ConnFields DEF Counters
<1> HIDE DEF w, s
<1>6. ConnTypes' /\ Others(c) /\ writer'[c] = w /\ stats'[c] = s
  BY <1>0, <1>1, <1>3, <1>4, <1>5 DEF ConnTypes, Others, netVars
<1>7. UnusedInv(c)'
  BY <1>0, <1>1 DEF ConnInv, UnusedInv, netVars
<1>8. WriterInv(c)'
  BY <1>0, <1>1, <1>2, <1>4, <1>5, <1>6, ConnFields, EchoAssumption DEF ConnInv, WriterInv
<1>9. BytesInv(c)'
  BY <1>0, <1>1, <1>5, <1>6 DEF ConnInv, BytesInv, netVars
<1>10. ThreadsInv(c)'
  BY <1>0, <1>1, <1>4, <1>6 DEF ConnInv, ThreadsInv, mainVars, netVars
<1> QED
  BY <1>1, <1>6, <1>7, <1>8, <1>9, <1>10, OneConnection DEF ConnInv

LEMMA WriteTimesOutKeeps ==
  ASSUME EchoInv, NEW c \in Conns, WriteTimesOut(c)
  PROVE  EchoInv'
<1>0. ConnTypes /\ ConnInv(c)
  BY DEF EchoInv
<1>1. /\ writer[c].pc = "write" /\ link[c] = "reset"
      /\ writer' = [writer EXCEPT ![c] = [pc |-> "loop", left |-> 0]]
      /\ UNCHANGED <<mainVars, reader, echo, netVars, stats, sent>>
  BY DEF WriteTimesOut
<1>2. ConnTypes' /\ Others(c) /\ writer'[c].pc = "loop"
  <2>1. [pc |-> "loop", left |-> 0] \in WriterStates
    BY EchoAssumption DEF WriterStates
  <2> QED
    BY <1>0, <1>1, <2>1 DEF ConnTypes, Others, netVars
<1>3. UnusedInv(c)' /\ WriterInv(c)' /\ BytesInv(c)'
  BY <1>0, <1>1, <1>2 DEF ConnInv, UnusedInv, WriterInv, BytesInv, netVars
<1>4. ThreadsInv(c)'
  BY <1>0, <1>1, <1>2 DEF ConnInv, ThreadsInv, mainVars, netVars
<1> QED
  BY <1>1, <1>2, <1>3, <1>4, OneConnection DEF ConnInv

\* The writer that leaves last closes the socket.
LEMMA WriterLeavesKeeps ==
  ASSUME EchoInv, NEW c \in Conns, writer[c].pc \in {"loop", "write"}, WriterLeaves(c)
  PROVE  EchoInv'
<1>0. ConnTypes /\ ConnInv(c)
  BY DEF EchoInv
<1>1. /\ writer' = [writer EXCEPT ![c] = [pc |-> "exit", left |-> 0]]
      /\ UNCHANGED <<mainVars, reader, echo, stats, sent>>
  BY DEF WriterLeaves
<1>2. /\ link' \in [Conns -> LinkStates] /\ wire' \in [Conns -> Wires]
      /\ side' \in [Conns -> Sides] /\ Weakens(c)
      /\ reader[c] = "exit" => side'[c].client = "closed"
      /\ side'[c].server = side[c].server
      /\ \A d \in Conns \ {c} : side'[d] = side[d] /\ link'[d] = link[d] /\ wire'[d] = wire[d]
  <2>1. CASE reader[c] = "exit"
    <3>1. Closed("client", {c})
      BY <2>1, CloseOne DEF WriterLeaves
    <3> QED
      BY <3>1 DEF Closed, Closes
  <2>2. CASE reader[c] # "exit"
    <3> DEFINE s == [side[c] EXCEPT !.client = "fin"]
    <3>1. side' = [side EXCEPT ![c] = s] /\ UNCHANGED <<link, wire>>
      BY <2>2 DEF WriterLeaves
    <3>2. s \in Sides /\ s.server = side[c].server
      BY <1>0, ConnFields DEF Sides
    <3> HIDE DEF s
    <3> QED
      BY <1>0, <2>2, <3>1, <3>2 DEF ConnTypes, Weakens
  <2> QED
    BY <2>1, <2>2
<1>3. ConnTypes' /\ Others(c) /\ writer'[c].pc = "exit"
  <2>1. [pc |-> "exit", left |-> 0] \in WriterStates
    BY EchoAssumption DEF WriterStates
  <2> QED
    BY <1>0, <1>1, <1>2, <2>1 DEF ConnTypes, Others
<1>4. link[c] # "none"
  BY <1>0 DEF ConnInv, UnusedInv
<1>5. UnusedInv(c)' /\ WriterInv(c)' /\ BytesInv(c)'
  BY <1>0, <1>1, <1>2, <1>3, <1>4 DEF ConnInv, UnusedInv, WriterInv, BytesInv, Weakens
<1>6. ThreadsInv(c)'
  BY <1>0, <1>1, <1>2, <1>3, <1>4 DEF ConnInv, ThreadsInv, mainVars, Weakens
<1> QED
  BY <1>1, <1>3, <1>5, <1>6, OneConnection DEF ConnInv

LEMMA WriterGoesOnKeeps ==
  ASSUME EchoInv, NEW c \in Conns, WriterGoesOn(c)
  PROVE  EchoInv'
<1>1. CASE WriterSends(c) \/ WriterSendsInVain(c) \/ WriterCounts(c) \/ WriteTimesOut(c)
  BY <1>1, WriterSendsKeeps, WriterSendsInVainKeeps, WriterCountsKeeps, WriteTimesOutKeeps
<1>2. CASE WriteFails(c) \/ WriterStops(c)
  BY <1>2, WriterLeavesKeeps DEF WriteFails, WriterStops
<1> QED
  BY <1>1, <1>2 DEF WriterGoesOn

---------------------------------------------------------------------------
(* reader_loop.                                                            *)

\* The reader that leaves last closes the socket.
LEMMA ReaderLeavesKeeps ==
  ASSUME EchoInv, NEW c \in Conns, reader[c] \in {"loop", "read"}, ReaderLeaves(c)
  PROVE  EchoInv'
<1>0. ConnTypes /\ ConnInv(c)
  BY DEF EchoInv
<1>1. reader' = [reader EXCEPT ![c] = "exit"] /\ UNCHANGED <<mainVars, writer, echo, stats, sent>>
  BY DEF ReaderLeaves
<1>2. /\ link' \in [Conns -> LinkStates] /\ wire' \in [Conns -> Wires]
      /\ side' \in [Conns -> Sides] /\ Weakens(c)
      /\ writer[c].pc = "exit" => side'[c].client = "closed"
      /\ side'[c].server = side[c].server
      /\ \A d \in Conns \ {c} : side'[d] = side[d] /\ link'[d] = link[d] /\ wire'[d] = wire[d]
  <2>1. CASE writer[c].pc = "exit"
    <3>1. Closed("client", {c})
      BY <2>1, CloseOne DEF ReaderLeaves
    <3> QED
      BY <3>1 DEF Closed, Closes
  <2>2. CASE writer[c].pc # "exit"
    BY <1>0, <2>2 DEF ReaderLeaves, netVars, ConnTypes, Weakens
  <2> QED
    BY <2>1, <2>2
<1>3. ConnTypes' /\ Others(c) /\ reader'[c] = "exit"
  BY <1>0, <1>1, <1>2 DEF ConnTypes, Others, ReaderStates
<1>4. link[c] # "none"
  BY <1>0 DEF ConnInv, UnusedInv
<1>5. UnusedInv(c)' /\ WriterInv(c)' /\ BytesInv(c)'
  BY <1>0, <1>1, <1>2, <1>4 DEF ConnInv, UnusedInv, WriterInv, BytesInv, Weakens
<1>6. ThreadsInv(c)'
  BY <1>0, <1>1, <1>2, <1>3, <1>4 DEF ConnInv, ThreadsInv, mainVars, Weakens
<1> QED
  BY <1>1, <1>3, <1>5, <1>6, OneConnection DEF ConnInv

\* The reader begins a read, or gives up waiting.
LEMMA ReaderMovesKeeps ==
  ASSUME EchoInv, NEW c \in Conns, reader[c] \in {"loop", "read"}, client.pc # "done",
         NEW r \in {"loop", "read"}, reader' = [reader EXCEPT ![c] = r],
         UNCHANGED <<mainVars, writer, echo, netVars, stats, sent>>
  PROVE  EchoInv'
<1>0. ConnTypes /\ ConnInv(c)
  BY DEF EchoInv
<1>1. ConnTypes' /\ Others(c) /\ reader'[c] = r
  BY <1>0 DEF ConnTypes, Others, ReaderStates, netVars
<1>2. UnusedInv(c)' /\ WriterInv(c)' /\ BytesInv(c)'
  BY <1>0, <1>1 DEF ConnInv, UnusedInv, WriterInv, BytesInv, netVars
<1>3. ThreadsInv(c)'
  BY <1>0, <1>1 DEF ConnInv, ThreadsInv, mainVars, netVars
<1> QED
  BY <1>1, <1>2, <1>3, OneConnection DEF ConnInv

LEMMA ReaderReadsKeeps ==
  ASSUME EchoInv, NEW c \in Conns, client.pc # "done", ReaderReads(c)
  PROVE  EchoInv'
<1>0. ConnTypes /\ ConnInv(c)
  BY DEF EchoInv
<1>1. /\ reader[c] = "read" /\ link[c] = "up" /\ reader' = [reader EXCEPT ![c] = "loop"]
      /\ UNCHANGED <<mainVars, writer, echo, link, side, sent>>
  BY DEF ReaderReads
<1>2. PICK n \in 1 .. wire[c].down : /\ wire' = [wire EXCEPT ![c].down = @ - n]
                                     /\ stats' = [stats EXCEPT ![c].cr = @ + n]
  BY DEF ReaderReads
<1>3. n \in Nat /\ n <= wire[c].down /\ stats[c].cr + n <= stats[c].sr
  BY <1>0, <1>1, <1>2, ConnFields DEF ConnInv, BytesInv
<1> DEFINE i == [wire[c] EXCEPT !.down = @ - n]
           s == [stats[c] EXCEPT !.cr = @ + n]
<1>4. wire' = [wire EXCEPT ![c] = i] /\ stats' = [stats EXCEPT ![c] = s]
  BY <1>2
<1>5. i \in Wires /\ i.down = wire[c].down - n /\ i.up = wire[c].up
  BY <1>0, <1>3, ConnFields, EchoAssumption DEF Wires
<1>6. /\ s \in Counters /\ s.cr = stats[c].cr + n
      /\ s.cw = stats[c].cw /\ s.sw = stats[c].sw /\ s.sr = stats[c].sr
  <2>1. stats[c].cr + n \in 0 .. MaxBytes
    BY <1>0, <1>3, ConnFields, EchoAssumption DEF ConnInv, BytesInv
  <2> QED
    BY <1>0, <2>1, ConnFields DEF Counters
<1> HIDE DEF i, s
<1>7. ConnTypes' /\ Others(c) /\ wire'[c] = i /\ stats'[c] = s /\ reader'[c] = "loop"
  BY <1>0, <1>1, <1>4, <1>5, <1>6 DEF ConnTypes, Others, ReaderStates
<1>8. UnusedInv(c)'
  BY <1>1 DEF UnusedInv
<1>9. WriterInv(c)'
  BY <1>0, <1>1, <1>6, <1>7 DEF ConnInv, WriterInv
<1>10. BytesInv(c)'
  BY <1>0, <1>1, <1>3, <1>5, <1>6, <1>7, ConnFields DEF ConnInv, BytesInv
<1>11. ThreadsInv(c)'
  BY <1>0, <1>1, <1>7 DEF ConnInv, ThreadsInv, mainVars
<1> QED
  BY <1>1, <1>7, <1>8, <1>9, <1>10, <1>11, OneConnection DEF ConnInv

LEMMA ReaderKeeps ==
  ASSUME EchoInv, NEW c \in Conns, Reader(c)
  PROVE  EchoInv'
<1>0. client.pc # "done"
  BY DEF Reader, Running
<1>1. CASE ReaderLooks(c)
  <2>1. CASE ReaderLeaves(c)
    BY <1>1, <2>1, ReaderLeavesKeeps DEF ReaderLooks
  <2>2. CASE /\ reader' = [reader EXCEPT ![c] = "read"]
             /\ UNCHANGED <<mainVars, writer, echo, netVars, stats, sent>>
    BY <1>0, <1>1, <2>2, ReaderMovesKeeps DEF ReaderLooks
  <2> QED
    BY <1>1, <2>1, <2>2 DEF ReaderLooks
<1>2. CASE ReaderReads(c)
  BY <1>0, <1>2, ReaderReadsKeeps
<1>3. CASE ReadEnds(c)
  BY <1>3, ReaderLeavesKeeps DEF ReadEnds
<1>4. CASE ReadTimesOut(c)
  BY <1>0, <1>4, ReaderMovesKeeps DEF ReadTimesOut
<1> QED
  BY <1>1, <1>2, <1>3, <1>4 DEF Reader

---------------------------------------------------------------------------
(* echo_loop.                                                              *)

\* Once a listener has ended, none of its echo threads is on its way.
LEMMA EchoRuns ==
  ASSUME EchoInv, NEW c \in Conns, echo[c].pc \notin {"off", "exit"}
  PROVE  /\ listener[PortOf(c)] # "exit" /\ side[c].server # "backlog" /\ link[c] # "none"
BY DEF EchoInv, ConnInv, ThreadsInv, UnusedInv

\* A step of an echo thread that leaves the sockets and the sums alone.
LEMMA EchoMovesKeeps ==
  ASSUME EchoInv, NEW c \in Conns, echo[c].pc \in {"loop", "read"},
         NEW pc \in {"loop", "read"}, echo' = [echo EXCEPT ![c].pc = pc],
         UNCHANGED <<mainVars, writer, reader, netVars, stats, sent>>
  PROVE  EchoInv'
<1>0. ConnTypes /\ ConnInv(c)
  BY DEF EchoInv
<1> DEFINE e == [echo[c] EXCEPT !.pc = pc]
<1>1. echo' = [echo EXCEPT ![c] = e]
  OBVIOUS
<1>2. e \in EchoStates /\ e.pc = pc /\ e.n = echo[c].n /\ e.left = echo[c].left
  BY <1>0, ConnFields DEF EchoStates
<1> HIDE DEF e
<1>3. ConnTypes' /\ Others(c) /\ echo'[c] = e
  BY <1>0, <1>1, <1>2 DEF ConnTypes, Others, netVars
<1>4. UnusedInv(c)' /\ WriterInv(c)' /\ BytesInv(c)'
  BY <1>0, <1>2, <1>3, EchoRuns DEF ConnInv, UnusedInv, WriterInv, BytesInv, netVars
<1>5. ThreadsInv(c)'
  BY <1>0, <1>2, <1>3, EchoRuns DEF ConnInv, ThreadsInv, mainVars, netVars
<1> QED
  BY <1>3, <1>4, <1>5, OneConnection DEF ConnInv

LEMMA EchoLeavesKeeps ==
  ASSUME EchoInv, NEW c \in Conns, echo[c].pc \notin {"off", "exit"},
         link[c] = "up" => echo[c].pc # "write", EchoLeaves(c)
  PROVE  EchoInv'
<1>0. ConnTypes /\ ConnInv(c)
  BY DEF EchoInv
<1>1. /\ echo' = [echo EXCEPT ![c] = [pc |-> "exit", n |-> 0, left |-> 0]]
      /\ UNCHANGED <<mainVars, writer, reader, stats, sent>>
  BY DEF EchoLeaves
<1>2. /\ link' \in [Conns -> LinkStates] /\ wire' \in [Conns -> Wires]
      /\ side' \in [Conns -> Sides] /\ Weakens(c)
      /\ side'[c].server = "closed" /\ side'[c].client = side[c].client
      /\ \A d \in Conns \ {c} : side'[d] = side[d] /\ link'[d] = link[d] /\ wire'[d] = wire[d]
  <2>1. Closed("server", {c})
    BY CloseOne DEF EchoLeaves
  <2> QED
    BY <2>1 DEF Closed, Closes
<1>3. /\ ConnTypes' /\ Others(c)
      /\ echo'[c].pc = "exit" /\ echo'[c].n = 0 /\ echo'[c].left = 0
  <2>1. [pc |-> "exit", n |-> 0, left |-> 0] \in EchoStates
    BY EchoAssumption DEF EchoStates
  <2> QED
    BY <1>0, <1>1, <1>2, <2>1 DEF ConnTypes, Others
<1>4. UnusedInv(c)'
  BY <1>2, EchoRuns DEF UnusedInv, Weakens
<1>5. WriterInv(c)'
  BY <1>0, <1>1, <1>2 DEF ConnInv, WriterInv, Weakens
<1>6. BytesInv(c)'
  <2>1. link'[c] = "up" => link[c] = "up" /\ wire'[c] = wire[c] /\ echo[c].left = 0
    BY <1>0, <1>2 DEF Weakens, ConnInv, BytesInv
  <2>2. stats[c].sw <= stats[c].sr
    BY <1>0, ConnFields DEF ConnInv, BytesInv
  <2> QED
    BY <1>0, <1>1, <1>3, <2>1, <2>2, ConnFields DEF ConnInv, BytesInv
<1>7. ThreadsInv(c)'
  BY <1>0, <1>1, <1>2, <1>3, EchoRuns DEF ConnInv, ThreadsInv, mainVars, Weakens
<1> QED
  BY <1>1, <1>3, <1>4, <1>5, <1>6, <1>7, OneConnection DEF ConnInv

LEMMA EchoReadsKeeps ==
  ASSUME EchoInv, NEW c \in Conns, EchoReads(c)
  PROVE  EchoInv'
<1>0. ConnTypes /\ ConnInv(c)
  BY DEF EchoInv
<1>1. /\ echo[c].pc = "read" /\ link[c] = "up"
      /\ UNCHANGED <<mainVars, writer, reader, link, side, sent>>
  BY DEF EchoReads
<1>2. PICK n \in 1 .. wire[c].up :
        /\ wire' = [wire EXCEPT ![c].up = @ - n]
        /\ echo' = [echo EXCEPT ![c] = [pc |-> "write", n |-> n, left |-> n]]
        /\ stats' = [stats EXCEPT ![c].sr = @ + n]
  BY DEF EchoReads
<1>3. /\ n \in Nat /\ n <= wire[c].up /\ n <= Cap /\ stats[c].sr + n <= sent[c]
      /\ echo[c].n = 0 /\ echo[c].left = 0
  BY <1>0, <1>1, <1>2, ConnFields, EchoAssumption DEF ConnInv, BytesInv
<1> DEFINE i == [wire[c] EXCEPT !.up = @ - n]
           s == [stats[c] EXCEPT !.sr = @ + n]
<1>4. wire' = [wire EXCEPT ![c] = i] /\ stats' = [stats EXCEPT ![c] = s]
  BY <1>2
<1>5. i \in Wires /\ i.up = wire[c].up - n /\ i.down = wire[c].down
  BY <1>0, <1>3, ConnFields, EchoAssumption DEF Wires
<1>6. /\ s \in Counters /\ s.sr = stats[c].sr + n
      /\ s.cw = stats[c].cw /\ s.sw = stats[c].sw /\ s.cr = stats[c].cr
  <2>1. stats[c].sr + n \in 0 .. MaxBytes
    BY <1>0, <1>3, ConnFields, EchoAssumption
  <2> QED
    BY <1>0, <2>1, ConnFields DEF Counters
<1> HIDE DEF i, s
<1>7. /\ ConnTypes' /\ Others(c) /\ wire'[c] = i /\ stats'[c] = s
      /\ echo'[c].pc = "write" /\ echo'[c].n = n /\ echo'[c].left = n
  <2>1. [pc |-> "write", n |-> n, left |-> n] \in EchoStates
    BY <1>3, EchoAssumption DEF EchoStates
  <2> QED
    BY <1>0, <1>1, <1>2, <1>4, <1>5, <1>6, <2>1 DEF ConnTypes, Others
<1>8. UnusedInv(c)'
  BY <1>1 DEF UnusedInv
<1>9. WriterInv(c)'
  BY <1>0, <1>1, <1>6, <1>7 DEF ConnInv, WriterInv
<1>10. BytesInv(c)'
  BY <1>0, <1>1, <1>3, <1>5, <1>6, <1>7, ConnFields DEF ConnInv, BytesInv
<1>11. ThreadsInv(c)'
  BY <1>0, <1>1, <1>7, EchoRuns DEF ConnInv, ThreadsInv, mainVars
<1> QED
  BY <1>1, <1>7, <1>8, <1>9, <1>10, <1>11, OneConnection DEF ConnInv

LEMMA EchoWritesKeeps ==
  ASSUME EchoInv, NEW c \in Conns, EchoWrites(c)
  PROVE  EchoInv'
<1>0. ConnTypes /\ ConnInv(c)
  BY DEF EchoInv
<1>1. /\ echo[c].pc = "write" /\ link[c] = "up"
      /\ UNCHANGED <<mainVars, writer, reader, link, side, stats, sent>>
  BY DEF EchoWrites
<1>2. PICK n \in 1 .. Lesser(echo[c].left, Cap - wire[c].down) :
        /\ wire' = [wire EXCEPT ![c].down = @ + n]
        /\ echo' = [echo EXCEPT ![c].left = @ - n]
  BY DEF EchoWrites
<1>3. n \in Nat /\ n <= echo[c].left /\ wire[c].down + n <= Cap
  BY <1>0, <1>2, ConnFields, EchoAssumption DEF Lesser
<1> DEFINE i == [wire[c] EXCEPT !.down = @ + n]
           e == [echo[c] EXCEPT !.left = @ - n]
<1>4. wire' = [wire EXCEPT ![c] = i] /\ echo' = [echo EXCEPT ![c] = e]
  BY <1>2
<1>5. i \in Wires /\ i.down = wire[c].down + n /\ i.up = wire[c].up
  BY <1>0, <1>3, ConnFields, EchoAssumption DEF Wires
<1>6. e \in EchoStates /\ e.pc = "write" /\ e.n = echo[c].n /\ e.left = echo[c].left - n
  BY <1>0, <1>1, <1>3, ConnFields, EchoAssumption DEF EchoStates
<1> HIDE DEF i, e
<1>7. ConnTypes' /\ Others(c) /\ wire'[c] = i /\ echo'[c] = e
  BY <1>0, <1>1, <1>4, <1>5, <1>6 DEF ConnTypes, Others
<1>8. UnusedInv(c)'
  BY <1>1 DEF UnusedInv
<1>9. WriterInv(c)'
  BY <1>0, <1>1 DEF ConnInv, WriterInv
<1>10. BytesInv(c)'
  BY <1>0, <1>1, <1>3, <1>5, <1>6, <1>7, ConnFields DEF ConnInv, BytesInv
<1>11. ThreadsInv(c)'
  BY <1>0, <1>1, <1>6, <1>7, EchoRuns DEF ConnInv, ThreadsInv, mainVars
<1> QED
  BY <1>1, <1>7, <1>8, <1>9, <1>10, <1>11, OneConnection DEF ConnInv

LEMMA EchoWritesInVainKeeps ==
  ASSUME EchoInv, NEW c \in Conns, EchoWritesInVain(c)
  PROVE  EchoInv'
<1>0. ConnTypes /\ ConnInv(c)
  BY DEF EchoInv
<1>1. /\ echo[c].pc = "write" /\ link[c] = "up"
      /\ echo' = [echo EXCEPT ![c].left = 0] /\ Reset(c)
      /\ UNCHANGED <<mainVars, writer, reader, side, stats, sent>>
  BY DEF EchoWritesInVain
<1> DEFINE e == [echo[c] EXCEPT !.left = 0]
<1>2. echo' = [echo EXCEPT ![c] = e]
  BY <1>1
<1>3. e \in EchoStates /\ e.pc = "write" /\ e.n = echo[c].n
  BY <1>0, <1>1, ConnFields, EchoAssumption DEF EchoStates
<1> HIDE DEF e
<1>4. /\ link' \in [Conns -> LinkStates] /\ wire' \in [Conns -> Wires]
      /\ link'[c] = "reset" /\ wire'[c].up = 0 /\ wire'[c].down = 0
      /\ \A d \in Conns \ {c} : link'[d] = link[d] /\ wire'[d] = wire[d]
  BY <1>1, ResetIs
<1>5. ConnTypes' /\ Others(c) /\ echo'[c] = e
  BY <1>0, <1>1, <1>2, <1>3, <1>4 DEF ConnTypes, Others
<1>6. UnusedInv(c)' /\ WriterInv(c)'
  BY <1>0, <1>1, <1>4 DEF ConnInv, UnusedInv, WriterInv
<1>7. BytesInv(c)'
  BY <1>0, <1>1, <1>3, <1>4, <1>5 DEF ConnInv, BytesInv
<1>8. ThreadsInv(c)'
  BY <1>0, <1>1, <1>3, <1>4, <1>5, EchoRuns DEF ConnInv, ThreadsInv, mainVars
<1> QED
  BY <1>1, <1>5, <1>6, <1>7, <1>8, OneConnection DEF ConnInv

LEMMA EchoCountsKeeps ==
  ASSUME EchoInv, NEW c \in Conns, EchoCounts(c)
  PROVE  EchoInv'
<1>0. ConnTypes /\ ConnInv(c)
  BY DEF EchoInv
<1>1. /\ echo[c].pc = "write" /\ echo[c].left = 0
      /\ stats' = [stats EXCEPT ![c].sw = @ + echo[c].n]
      /\ echo' = [echo EXCEPT ![c] = [pc |-> "loop", n |-> 0, left |-> 0]]
      /\ UNCHANGED <<mainVars, writer, reader, netVars, sent>>
  BY DEF EchoCounts
<1> DEFINE s == [stats[c] EXCEPT !.sw = @ + echo[c].n]
<1>2. stats' = [stats EXCEPT ![c] = s]
  BY <1>1
<1>3. /\ s \in Counters /\ s.sw = stats[c].sw + echo[c].n
      /\ s.cw = stats[c].cw /\ s.cr = stats[c].cr /\ s.sr = stats[c].sr
  <2>1. stats[c].sw + echo[c].n \in 0 .. MaxBytes
    BY <1>0, ConnFields, EchoAssumption DEF ConnInv, BytesInv
  <2> QED
    BY <1>0, <2>1, ConnFields DEF Counters
<1> HIDE DEF s
<1>4. /\ ConnTypes' /\ Others(c) /\ stats'[c] = s
      /\ echo'[c].pc = "loop" /\ echo'[c].n = 0 /\ echo'[c].left = 0
  <2>1. [pc |-> "loop", n |-> 0, left |-> 0] \in EchoStates
    BY EchoAssumption DEF EchoStates
  <2> QED
    BY <1>0, <1>1, <1>2, <1>3, <2>1 DEF ConnTypes, Others, netVars
<1>5. UnusedInv(c)'
  BY <1>1, EchoRuns DEF UnusedInv, netVars
<1>6. WriterInv(c)'
  BY <1>0, <1>1, <1>3, <1>4 DEF ConnInv, WriterInv, netVars
<1>7. BytesInv(c)'
  BY <1>0, <1>1, <1>3, <1>4, ConnFields DEF ConnInv, BytesInv, netVars
<1>8. ThreadsInv(c)'
  BY <1>0, <1>1, <1>4, EchoRuns DEF ConnInv, ThreadsInv, mainVars, netVars
<1> QED
  BY <1>1, <1>4, <1>5, <1>6, <1>7, <1>8, OneConnection DEF ConnInv

LEMMA EchoKeeps ==
  ASSUME EchoInv, NEW c \in Conns, Echo(c)
  PROVE  EchoInv'
<1>1. CASE EchoLooks(c)
  <2>1. CASE EchoLeaves(c)
    BY <1>1, <2>1, EchoLeavesKeeps DEF EchoLooks
  <2>2. CASE /\ echo' = [echo EXCEPT ![c].pc = "read"]
             /\ UNCHANGED <<mainVars, writer, reader, netVars, stats, sent>>
    BY <1>1, <2>2, EchoMovesKeeps DEF EchoLooks
  <2> QED
    BY <1>1, <2>1, <2>2 DEF EchoLooks
<1>2. CASE EchoReads(c) \/ EchoWrites(c) \/ EchoWritesInVain(c) \/ EchoCounts(c)
  BY <1>2, EchoReadsKeeps, EchoWritesKeeps, EchoWritesInVainKeeps, EchoCountsKeeps
<1>3. CASE EchoEnds(c)
  BY <1>3, EchoLeavesKeeps DEF EchoEnds
<1>4. CASE EchoTimesOut(c)
  BY <1>4, EchoMovesKeeps DEF EchoTimesOut
<1> QED
  BY <1>1, <1>2, <1>3, <1>4 DEF Echo

---------------------------------------------------------------------------
LEMMA NetworkFailsKeeps ==
  ASSUME EchoInv, NEW c \in Conns, NetworkFails(c)
  PROVE  EchoInv'
<1>0. ConnTypes /\ ConnInv(c)
  BY DEF EchoInv
<1>1. /\ link[c] = "up" /\ Reset(c)
      /\ UNCHANGED <<mainVars, writer, reader, echo, side, stats, sent>>
  BY DEF NetworkFails
<1>2. /\ link' \in [Conns -> LinkStates] /\ wire' \in [Conns -> Wires] /\ Weakens(c)
      /\ \A d \in Conns \ {c} : link'[d] = link[d] /\ wire'[d] = wire[d]
  BY <1>1, ResetIs
<1>3. ConnTypes' /\ Others(c)
  BY <1>0, <1>1, <1>2 DEF ConnTypes, Others
<1>4. UnusedInv(c)' /\ WriterInv(c)' /\ BytesInv(c)'
  BY <1>1, <1>2, CountsWeaken
<1>5. ThreadsInv(c)'
  BY <1>0, <1>1, <1>2 DEF ConnInv, ThreadsInv, mainVars, Weakens
<1> QED
  BY <1>1, <1>3, <1>4, <1>5, OneConnection DEF ConnInv

LEMMA EchoInit == Init => EchoInv
<1> SUFFICES ASSUME Init
             PROVE  EchoInv
  OBVIOUS
<1>1. MainTypes
  BY EchoAssumption DEF Init, MainTypes
<1>2. ConnTypes
  BY EchoAssumption DEF Init, ConnTypes, WriterStates, ReaderStates, EchoStates,
                        LinkStates, Sides, Wires, Counters
<1>3. ASSUME NEW c \in Conns
      PROVE  ConnInv(c)
  <2>1. /\ writer[c].pc = "off" /\ reader[c] = "off" /\ link[c] = "none" /\ sent[c] = 0
        /\ echo[c].pc = "off" /\ echo[c].n = 0 /\ echo[c].left = 0
        /\ wire[c].up = 0 /\ wire[c].down = 0
        /\ stats[c].cw = 0 /\ stats[c].cr = 0 /\ stats[c].sw = 0 /\ stats[c].sr = 0
        /\ client.pc = "ramp"
    BY DEF Init
  <2>2. Payload \in Nat
    BY EchoAssumption
  <2> QED
    BY <2>1, <2>2 DEF ConnInv, UnusedInv, WriterInv, BytesInv, ThreadsInv
<1> QED
  BY <1>1, <1>2, <1>3 DEF EchoInv

LEMMA EchoNextKeeps == EchoInv /\ [Next]_vars => EchoInv'
<1> SUFFICES ASSUME EchoInv, [Next]_vars
             PROVE  EchoInv'
  OBVIOUS
<1>1. CASE Watchdog \/ \E process \in {"client", "server"} : Signal(process)
  BY <1>1, SignalKeeps DEF Watchdog
<1>2. CASE ClientMain
  BY <1>2, ConnectKeeps, ClientMainMoves, ClientAbortsKeeps DEF ClientMain
<1>3. CASE ServerMain \/ Reporter \/ \E p \in Ports : Listener(p)
  BY <1>3, ServerMainKeeps, ReporterKeeps, ListenerKeeps
<1>4. ASSUME NEW c \in Conns,
             WriterBegins(c) \/ WriterGoesOn(c) \/ Reader(c) \/ Echo(c) \/ NetworkFails(c)
      PROVE  EchoInv'
  BY <1>4, WriterBeginsKeeps, WriterGoesOnKeeps, ReaderKeeps, EchoKeeps, NetworkFailsKeeps
<1>5. CASE UNCHANGED vars
  <2>1. MainTypes' /\ UNCHANGED connVars /\ UNCHANGED mainVars
    BY <1>5 DEF vars, mainVars, connVars, EchoInv, MainTypes
  <2>2. \A c \in Conns : ThreadsInv(c)'
    BY <2>1 DEF EchoInv, ConnInv, ThreadsInv, mainVars, connVars, netVars
  <2> QED
    BY <2>1, <2>2, MainMoves
<1> QED
  BY <1>1, <1>2, <1>3, <1>4, <1>5 DEF Next, Ended

LEMMA EchoInvariant == Spec => []EchoInv
BY EchoInit, EchoNextKeeps, PTL DEF Spec

\* No counter of a connection runs past what its writer sent, no buffer past
\* its size, and no thread leaves the places it has in the code.
THEOREM EchoTypeCorrect == Spec => []EchoTypeOK
<1>1. EchoInv => EchoTypeOK
  BY TypesAre DEF EchoInv
<1> QED
  BY <1>1, EchoInvariant, PTL

\* The client's bytes_written is never ahead of the socket, and behind it by
\* one payload at most, whatever write fails or times out (client.rs:200-212).
THEOREM WritesAreCountedAsSent == Spec => []CountedAsSent
<1>1. EchoInv => CountedAsSent
  BY ConnFields, EchoAssumption DEF EchoInv, ConnInv, WriterInv, CountedAsSent
<1> QED
  BY <1>1, EchoInvariant, PTL

\* Every byte sent on a connection that is up is accounted for: on the wire,
\* in the echo thread, or counted by the reader (server.rs:125-135).
THEOREM NoByteIsLost == Spec => []NothingLost
<1>1. EchoInv => NothingLost
  BY DEF EchoInv, ConnInv, BytesInv, NothingLost
<1> QED
  BY <1>1, EchoInvariant, PTL

\* When a process ends its joins have left no thread that counts, and the
\* client has closed every connection (client.rs:173-177, server.rs:56-61).
THEOREM EndsAreJoined == Spec => []JoinedAtTheEnd
<1>1. EchoInv => JoinedAtTheEnd
  BY ConnFields DEF EchoInv, ConnInv, ThreadsInv, JoinedAtTheEnd
<1> QED
  BY <1>1, EchoInvariant, PTL

---------------------------------------------------------------------------
(* The token bucket, for any number of writers and any budget.             *)

TakersCovered == \A w \in Writers : taker[w].pc = "cas" => taker[w].current >= Amount
NotGrown      == refiller.pc = "store" => tokens <= refiller.current

LimiterInv == LimiterTypeOK /\ TokensConserved /\ TakersCovered /\ NotGrown

LEMMA LimiterInitInv == LimiterInit => LimiterInv
<1> SUFFICES ASSUME LimiterInit PROVE LimiterInv
  OBVIOUS
<1> USE LimiterAssumption DEF LimiterInit
<1>1. LimiterTypeOK
  BY DEF LimiterTypeOK, RefillerStates, TakerStates
<1>2. TokensConserved
  BY DEF TokensConserved
<1>3. TakersCovered
  BY DEF TakersCovered
<1>4. NotGrown
  BY DEF NotGrown
<1> QED
  BY <1>1, <1>2, <1>3, <1>4 DEF LimiterInv

\* The store of the refill thread caps what it adds up.
LEMMA CappedOf ==
  ASSUME NEW n \in Nat
  PROVE  Capped(n) \in 0..Rate
BY LimiterAssumption, SMT DEF Capped

LEMMA RefillKeepsInv ==
  ASSUME LimiterInv, RefillLoad \/ RefillStore \/ RefillExit
  PROVE  LimiterInv'
<1> USE LimiterAssumption
<1>1. CASE RefillLoad
  <2>1. LimiterTypeOK'
    BY <1>1 DEF RefillLoad, LimiterInv, LimiterTypeOK, RefillerStates, TakerStates
  <2>2. TokensConserved' /\ TakersCovered'
    BY <1>1 DEF RefillLoad, LimiterInv, TokensConserved, TakersCovered
  <2>3. NotGrown'
    BY <1>1 DEF RefillLoad, LimiterInv, NotGrown, LimiterTypeOK
  <2> QED
    BY <2>1, <2>2, <2>3 DEF LimiterInv
<1>2. CASE RefillStore
  <2>0. /\ refiller.current \in 0..Rate /\ refiller.pc = "store"
        /\ tokens \in 0..Rate /\ tokens <= refiller.current
    BY <1>2 DEF RefillStore, LimiterInv, LimiterTypeOK, RefillerStates, NotGrown
  <2>1. tokens' \in 0..Rate
    BY <1>2, <2>0, CappedOf DEF RefillStore
  <2>2. minted' \in 0..Rate
    BY <1>2, <2>0 DEF RefillStore
  <2>3. LimiterTypeOK'
    BY <1>2, <2>0, <2>1, <2>2
    DEF RefillStore, LimiterInv, LimiterTypeOK, RefillerStates, TakerStates
  <2>4. TokensConserved'
    BY <1>2, <2>1 DEF RefillStore, TokensConserved
  <2>5. TakersCovered' /\ NotGrown'
    BY <1>2, <2>0 DEF RefillStore, LimiterInv, TakersCovered, NotGrown, LimiterTypeOK, RefillerStates
  <2> QED
    BY <2>3, <2>4, <2>5 DEF LimiterInv
<1>3. CASE RefillExit
  <2>1. LimiterTypeOK'
    BY <1>3 DEF RefillExit, LimiterInv, LimiterTypeOK, RefillerStates, TakerStates
  <2>2. TokensConserved' /\ TakersCovered'
    BY <1>3 DEF RefillExit, LimiterInv, TokensConserved, TakersCovered
  <2>3. NotGrown'
    BY <1>3 DEF RefillExit, LimiterInv, NotGrown, LimiterTypeOK, RefillerStates
  <2> QED
    BY <2>1, <2>2, <2>3 DEF LimiterInv
<1> QED
  BY <1>1, <1>2, <1>3

LEMMA AcquireKeepsInv ==
  ASSUME LimiterInv, NEW w \in Writers, Acquire(w)
  PROVE  LimiterInv'
<1> USE LimiterAssumption
<1>0. /\ tokens \in 0..Rate /\ stored \in 0..Rate /\ taken \in 0..Rate
      /\ tokens + taken = stored /\ stored <= Rate
      /\ taker[w] \in TakerStates /\ taker \in [Writers -> TakerStates]
  BY DEF LimiterInv, LimiterTypeOK, TokensConserved
<1>1. CASE AcquireLoad(w)
  <2>1. LimiterTypeOK'
    BY <1>0, <1>1 DEF AcquireLoad, LimiterInv, LimiterTypeOK, TakerStates
  <2>2. TokensConserved' /\ NotGrown'
    BY <1>1 DEF AcquireLoad, LimiterInv, TokensConserved, NotGrown
  <2>3. TakersCovered'
    BY <1>0, <1>1 DEF AcquireLoad, LimiterInv, TakersCovered
  <2> QED
    BY <2>1, <2>2, <2>3 DEF LimiterInv
<1>2. CASE AcquireTake(w)
  <2>1. tokens >= Amount /\ tokens' = tokens - Amount /\ taken' = taken + Amount
    BY <1>2 DEF AcquireTake, LimiterInv, TakersCovered
  <2>2. tokens' \in 0..Rate /\ taken' \in 0..Rate /\ tokens' + taken' = stored
    BY <1>0, <2>1
  <2>3. taker' \in [Writers -> TakerStates]
    BY <1>0, <1>2 DEF AcquireTake, TakerStates
  <2>4. LimiterTypeOK'
    BY <1>2, <2>2, <2>3 DEF AcquireTake, LimiterInv, LimiterTypeOK
  <2>5. TokensConserved'
    BY <1>0, <1>2, <2>2 DEF AcquireTake, TokensConserved
  <2>6. TakersCovered'
    BY <1>0, <1>2 DEF AcquireTake, LimiterInv, TakersCovered, TakerStates
  <2>7. NotGrown'
    <3> SUFFICES ASSUME refiller'.pc = "store" PROVE tokens' <= refiller'.current
      BY DEF NotGrown
    <3>1. refiller.pc = "store" /\ refiller' = refiller
      BY <1>2 DEF AcquireTake
    <3>2. tokens <= refiller.current /\ refiller.current \in 0..Rate
      BY <3>1 DEF LimiterInv, NotGrown, LimiterTypeOK, RefillerStates
    <3> QED
      BY <1>0, <2>1, <3>1, <3>2
  <2> QED
    BY <2>4, <2>5, <2>6, <2>7 DEF LimiterInv
<1>3. CASE AcquireRetry(w)
  <2>1. LimiterTypeOK'
    BY <1>0, <1>3 DEF AcquireRetry, LimiterInv, LimiterTypeOK, TakerStates
  <2>2. TokensConserved' /\ NotGrown'
    BY <1>3 DEF AcquireRetry, LimiterInv, TokensConserved, NotGrown
  <2>3. TakersCovered'
    BY <1>0, <1>3 DEF AcquireRetry, LimiterInv, TakersCovered, TakerStates
  <2> QED
    BY <2>1, <2>2, <2>3 DEF LimiterInv
<1> QED
  BY <1>1, <1>2, <1>3 DEF Acquire

LEMMA LimiterStepInv == LimiterInv /\ [LimiterNext]_limiterVars => LimiterInv'
<1> SUFFICES ASSUME LimiterInv, [LimiterNext]_limiterVars PROVE LimiterInv'
  OBVIOUS
<1>1. CASE RefillLoad \/ RefillStore \/ RefillExit
  BY <1>1, RefillKeepsInv
<1>2. ASSUME NEW w \in Writers, Acquire(w) PROVE LimiterInv'
  BY <1>2, AcquireKeepsInv
<1>3. CASE UNCHANGED limiterVars
  BY <1>3 DEF limiterVars, LimiterInv, LimiterTypeOK, TokensConserved,
              TakersCovered, NotGrown
<1> QED
  BY <1>1, <1>2, <1>3 DEF LimiterNext

\* The inductive invariant holds of every behaviour of the bucket (rate.rs).
THEOREM LimiterInvariant == LimiterSpec => []LimiterInv
<1>1. LimiterInit => LimiterInv
  BY LimiterInitInv
<1>2. LimiterInv /\ [LimiterNext]_limiterVars => LimiterInv'
  BY LimiterStepInv
<1> QED
  BY <1>1, <1>2, PTL DEF LimiterSpec

\* The count of tokens, and what the threads loaded of it, stay within the
\* cap for any budget: the subtraction of rate.rs:39 never wraps.
THEOREM LimiterTypeCorrect == LimiterSpec => []LimiterTypeOK
<1>1. LimiterInv => LimiterTypeOK
  BY DEF LimiterInv
<1> QED
  BY <1>1, LimiterInvariant, PTL

\* No exchange of try_acquire loses a token or takes one twice, for any
\* number of writers (rate.rs:31-47).
THEOREM LimiterConserves == LimiterSpec => []TokensConserved
<1>1. LimiterInv => TokensConserved
  BY DEF LimiterInv
<1> QED
  BY <1>1, LimiterInvariant, PTL
============================================================================
