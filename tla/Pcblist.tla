------------------------------ MODULE Pcblist ------------------------------
(***************************************************************************)
(* parse_pcblist_n() (src/platform/macos.rs): the parser of the stream of  *)
(* tagged records that sysctl net.inet.tcp.pcblist_n returns.  A header is *)
(* skipped by its length; then each record has a length and a kind, and    *)
(* starts at the next multiple of eight.  A socket is a group of records   *)
(* that begins with its xsocket_n.  One step is one turn of the loop.      *)
(*                                                                         *)
(* A buffer is given by its size, the length in its header, the tags at    *)
(* the offsets where the kernel put them, and the sockets they describe:   *)
(* tag[at] = [len, kind, group], group 0 for the trailer.  Every other     *)
(* offset lies inside a record's body.  No record is shorter than its tag  *)
(* (the parser would panic at a length of 1 to 7): the kernel writes each  *)
(* length from the size of a structure.                                    *)
(***************************************************************************)
EXTENDS RawRecord

CONSTANT Lists  \* the buffers the parser is given

VARIABLES
  list,     \* the buffer: size, header, tag, groups, hz
  pos,      \* the cursor
  acc,      \* ConnectionAccumulator: has_socket and the fields so far
  records,  \* the records emitted
  outcome   \* "start", "loop", "ok", "truncated" or "parse error"

pcblistVars == <<list, pos, acc, records, outcome>>

---------------------------------------------------------------------------
(* The layout: for each field its offset in the body and the number of     *)
(* bytes the code adds to it before it compares (none for single bytes).   *)

XSO_SOCKET == 1
XSO_RCVBUF == 2
XSO_SNDBUF == 4
XSO_INPCB  == 16
XSO_TCPCB  == 32
TAG_HEADER_SIZE == 8
INP_VFLAG_OFFSET == 44

RoundUp64(n) == ((n + 7) \div 8) * 8

XsocketLayout ==
  [socket_id |-> <<8, 8>>, uid |-> <<36, 4>>, pid |-> <<68, 4>>, effective_pid |-> <<72, 4>>]

XsockbufLayout == [cc |-> <<0, 4>>, hiwat |-> <<4, 4>>]

XinpcbLayout ==
  [remote_port |-> <<70, 2>>, local_port |-> <<72, 2>>, inp_gencnt |-> <<104, 8>>]
In4Layout == [remote_addr |-> <<80, 4>>, local_addr |-> <<84, 4>>]
In6Layout == [remote_addr |-> <<32, 16>>, local_addr |-> <<48, 16>>]

XtcpcbLayout ==
  [state |-> <<0, 4>>, rxt_shift |-> <<4, 4>>, tcp_flags |-> <<8, 4>>,
   snd_cwnd |-> <<12, 4>>, snd_ssthresh |-> <<16, 4>>, maxseg |-> <<20, 4>>,
   rtt_us |-> <<24, 4>>, rttvar_us |-> <<28, 4>>,
   snd_nxt |-> <<32, 4>>, snd_una |-> <<36, 4>>, snd_max |-> <<40, 4>>,
   rcv_nxt |-> <<44, 4>>, rcv_adv |-> <<48, 4>>,
   snd_wnd |-> <<52, 4>>, rcv_wnd |-> <<56, 4>>,
   snd_wscale |-> <<60, 0>>, rcv_wscale |-> <<61, 0>>,
   dupacks |-> <<64, 4>>, start_time_secs |-> <<68, 4>>, rto_us |-> <<72, 4>>]

\* The fields of a layout the code reads from a body of n bytes: the
\* comparison is strict, so a field that ends with the body is left out.
Within(layout, n) == {f \in DOMAIN layout : n > layout[f][1] + layout[f][2]}

---------------------------------------------------------------------------
(* What the kernel writes (docs/design/04-macos-portability.md:27-45): the *)
(* records of one socket after those of another, each group beginning with *)
(* its xsocket_n, each record where the one before it ends, rounded up; a  *)
(* trailer last.  What sysctl returns may be cut anywhere.                 *)

IsList(l) ==
  /\ l.size \in Nat /\ l.header \in Nat /\ l.hz \in Int /\ l.whole \in BOOLEAN
  /\ l.groups \in Seq([vflag : SUBSET {4, 6}, state : Int])
  /\ DOMAIN l.tag \subseteq Nat
  /\ \A a \in DOMAIN l.tag : l.tag[a] \in [kind : Nat, len : Nat, group : 0 .. Len(l.groups)]

\* What may be at b, after the records of the first g groups.
Follows(l, g, b) ==
  \/ l.tag[b].group = g /\ g # 0 /\ l.tag[b].kind # XSO_SOCKET
  \/ l.tag[b].group = g + 1 /\ l.tag[b].kind = XSO_SOCKET
  \/ l.tag[b].group = 0 /\ g = Len(l.groups)

AsWritten(l) ==
  LET first    == RoundUp64(l.header)
      after(a) == a + RoundUp64(l.tag[a].len)
  IN  /\ first \in DOMAIN l.tag /\ Follows(l, 0, first)
      /\ \A a \in DOMAIN l.tag :
           /\ first <= a
           /\ \A b \in DOMAIN l.tag : a < b => after(a) <= b
           /\ l.tag[a].group = 0 => l.size <= a + l.tag[a].len
           /\ l.tag[a].group # 0 =>
                /\ l.tag[a].kind # 0 /\ l.tag[a].len >= TAG_HEADER_SIZE
                /\ after(a) \in DOMAIN l.tag /\ Follows(l, l.tag[a].group, after(a))

\* A list that is all there, of a kernel whose structures have every field.
LayoutsOf ==
  [k \in {XSO_SOCKET, XSO_RCVBUF, XSO_SNDBUF, XSO_INPCB, XSO_TCPCB} |->
     CASE k = XSO_SOCKET -> {XsocketLayout}
       [] k = XSO_INPCB  -> {XinpcbLayout, In4Layout, In6Layout}
       [] k = XSO_TCPCB  -> {XtcpcbLayout}
       [] OTHER          -> {XsockbufLayout}]
HasAll(l) ==
  /\ l.hz > 0
  /\ \A a \in DOMAIN l.tag : a + l.tag[a].len <= l.size
  /\ \A g \in DOMAIN l.groups :
       /\ l.groups[g].vflag # {}
       /\ \A k \in DOMAIN LayoutsOf : \E a \in DOMAIN l.tag :
            /\ l.tag[a].group = g /\ l.tag[a].kind = k
            /\ \A y \in LayoutsOf[k] : Within(y, l.tag[a].len - TAG_HEADER_SIZE) = DOMAIN y

ASSUME PcblistAssumption ==
  \A l \in Lists : IsList(l) /\ AsWritten(l) /\ (l.whole => HasAll(l))

---------------------------------------------------------------------------
(* What each kind of record adds: a function of fields to values, read     *)
(* from a body of n bytes that belongs to group g.                         *)

Read(g, fields) == [f \in fields |-> Value(g, f, 1)]

parse_xsocket_n(g, n) == Read(g, Within(XsocketLayout, n))

parse_rcvbuf(g, n) ==
  Read(g, {IF f = "cc" THEN "rcv_buf_used" ELSE "rcv_buf_hiwat" : f \in Within(XsockbufLayout, n)})
parse_sndbuf(g, n) ==
  Read(g, {IF f = "cc" THEN "snd_buf_used" ELSE "snd_buf_hiwat" : f \in Within(XsockbufLayout, n)})

\* A socket of both address families is read as IPv6.
parse_xinpcb_n(g, n, vflag) ==
  LET version == IF 6 \in vflag THEN 6 ELSE 4
      layout  == IF version = 6 THEN In6Layout ELSE In4Layout
      address == Overlay(Read(g, Within(layout, n)),
                         [f \in {"ip_version"} |-> Value(g, f, version)])
  IN  IF n <= INP_VFLAG_OFFSET THEN NoFields
      ELSE Overlay(IF vflag = {} THEN NoFields ELSE address, Read(g, Within(XinpcbLayout, n)))

\* Times need the clock's rate; the state is copied as it is.
parse_xtcpcb_n(g, n, state, hz) ==
  LET read == Within(XtcpcbLayout, n) \ IF hz > 0 THEN {} ELSE {"rtt_us", "rttvar_us", "rto_us"}
  IN  [f \in read |-> Value(g, f, IF f = "state" THEN state ELSE 1)]

---------------------------------------------------------------------------
NoConnection == [has_socket |-> FALSE, rec |-> NoFields]

\* build(), and the push of what it returns: a group without an xsocket_n is
\* dropped, others are tagged MacosPcblistN.
Emitted == IF acc.has_socket THEN Append(records, Raw(acc.rec, <<1>>)) ELSE records

\* The tag the parser sees at the cursor.  The trailer has no group; an
\* offset that is no record's shows the bytes of a body.
Tag ==
  IF pos \in DOMAIN list.tag THEN list.tag[pos]
  ELSE [len |-> TAG_HEADER_SIZE, kind |-> 99, group |-> 0]
Group == IF Tag.group = 0 THEN [vflag |-> {}, state |-> 0] ELSE list.groups[Tag.group]
Body == Tag.len - TAG_HEADER_SIZE

Init ==
  /\ list \in Lists
  /\ pos = 0
  /\ acc = NoConnection
  /\ records = <<>>
  /\ outcome = "start"

SkipHeader ==
  /\ outcome = "start"
  /\ outcome' = IF list.size < 4 THEN "truncated"
                ELSE IF list.header = 0 \/ list.header > list.size THEN "parse error"
                ELSE "loop"
  /\ pos' = RoundUp64(list.header)
  /\ UNCHANGED <<list, acc, records>>

\* The loop ends where no tag fits, or at a zero length or kind; the last
\* socket is emitted.
AtEnd == pos + TAG_HEADER_SIZE > list.size \/ Tag.len = 0 \/ Tag.kind = 0

Finish ==
  /\ outcome = "loop" /\ AtEnd
  /\ outcome' = "ok"
  /\ records' = Emitted
  /\ UNCHANGED <<list, pos, acc>>

\* Mutant: a record that does not fit ends the loop as the trailer does.
OverrunAccepted ==
  /\ outcome = "loop" /\ ~AtEnd
  /\ pos + Tag.len > list.size
  /\ outcome' = "ok"
  /\ records' = Emitted
  /\ UNCHANGED <<list, pos, acc>>

\* The record reaches beyond the buffer: what was parsed is thrown away.
Overrun ==
  /\ outcome = "loop" /\ ~AtEnd
  /\ pos + Tag.len > list.size
  /\ outcome' = "truncated"
  /\ records' = <<>>
  /\ UNCHANGED <<list, pos, acc>>

Fits == outcome = "loop" /\ ~AtEnd /\ pos + Tag.len <= list.size

\* Mutant: the cursor is not rounded up.
AdvanceUnaligned == pos' = pos + Tag.len /\ UNCHANGED <<list, outcome>>
Advance == pos' = pos + RoundUp64(Tag.len) /\ UNCHANGED <<list, outcome>>

\* An xsocket_n begins a group: the one before is emitted.
TakeSocket ==
  /\ Fits /\ Tag.kind = XSO_SOCKET
  /\ records' = Emitted
  /\ acc' = [has_socket |-> TRUE, rec |-> parse_xsocket_n(Tag.group, Body)]
  /\ Advance

\* Any other kind adds its fields to the group; kinds the parser does not
\* know, and the statistics, add nothing.
Added ==
  CASE Tag.kind = XSO_RCVBUF -> parse_rcvbuf(Tag.group, Body)
    [] Tag.kind = XSO_SNDBUF -> parse_sndbuf(Tag.group, Body)
    [] Tag.kind = XSO_INPCB  -> parse_xinpcb_n(Tag.group, Body, Group.vflag)
    [] Tag.kind = XSO_TCPCB  -> parse_xtcpcb_n(Tag.group, Body, Group.state, list.hz)
    [] OTHER -> NoFields

TakeOther ==
  /\ Fits /\ Tag.kind # XSO_SOCKET
  /\ acc' = [acc EXCEPT !.rec = Overlay(@, Added)]
  /\ UNCHANGED records
  /\ Advance

Next == SkipHeader \/ Finish \/ Overrun \/ TakeSocket \/ TakeOther
PcblistSpec == Init /\ [][Next]_pcblistVars

---------------------------------------------------------------------------
MacFields == DOMAIN XsocketLayout \cup DOMAIN XinpcbLayout \cup DOMAIN In4Layout
             \cup DOMAIN XtcpcbLayout
             \cup {"ip_version", "snd_buf_used", "snd_buf_hiwat", "rcv_buf_used", "rcv_buf_hiwat"}

\* A list that is all there gives one record for each socket, in order, with
\* every field, and each field of a record comes from the group of that
\* socket: the groups are told apart although only the first record of a
\* group marks them and records of unknown kinds lie between (macos.rs:333-378).
\* "A zero-length record or zero-kind marks the trailer" (macos.rs:337).
ParsedExact ==
  outcome = "ok" /\ list.whole =>
    /\ Len(records) = Len(list.groups)
    /\ \A i \in DOMAIN records :
         /\ DOMAIN records[i].fields = MacFields
         /\ \A f \in MacFields : records[i].fields[f].from = i
         /\ records[i].fields["state"].is = list.groups[i].state

\* A list that was cut says nothing wrong: each record shown is of the socket
\* at its place in the list, no field is taken from beyond the cut, and a cut
\* in the body of a record is an error (macos.rs:342-352).  A cut between two
\* records of a group, in a tag or in padding is none: the last socket is shown
\* with the fields read of it.
CutReported ==
  /\ Len(records) <= Len(list.groups)
  /\ \A i \in DOMAIN records : \A f \in DOMAIN records[i].fields :
       records[i].fields[f].from = i
  /\ outcome = "ok" =>
       \A at \in {a \in DOMAIN list.tag : list.tag[a].group # 0} :
         at + TAG_HEADER_SIZE <= list.size => at + list.tag[at].len <= list.size
============================================================================
