------------------------------ MODULE Records ------------------------------
(***************************************************************************)
(* One collection from the kernel's bytes to what is shown: on macOS the   *)
(* parser of Pcblist, on FreeBSD the parser and the join of KldRecords,    *)
(* then build_batch() (src/convert.rs) for tcpstats-reader and the counts  *)
(* of collect() (utils/tcpstats-exporter/src/collector.rs) for the         *)
(* exporter, which sees the same raw records.                              *)
(***************************************************************************)
EXTENDS Pcblist, KldRecords

VARIABLES
  platform,  \* "macos" or "freebsd": the parser the build has
  batch,     \* what tcpstats-reader writes, NoBatch before or after an error
  snapshot   \* what the exporter counts, NoBatch likewise

recordsVars == <<pcblistVars, kldVars, platform, batch, snapshot>>

NoBatch == [total_sockets |-> -1]

---------------------------------------------------------------------------
\* enum TcpState of proto/tcp_stats.proto, and the exporter's names: both
\* tables are given in the order of their source.
ProtoStates ==
  <<"CLOSED", "LISTEN", "SYN_SENT", "SYN_RECEIVED", "ESTABLISHED", "CLOSE_WAIT",
    "FIN_WAIT_1", "CLOSING", "LAST_ACK", "FIN_WAIT_2", "TIME_WAIT">>
ExporterStates ==
  <<"CLOSED", "LISTEN", "SYN_SENT", "SYN_RECEIVED", "ESTABLISHED", "CLOSE_WAIT",
    "FIN_WAIT_1", "CLOSING", "LAST_ACK", "FIN_WAIT_2", "TIME_WAIT">>

\* Mutant: TIME_WAIT is left out of the range.
kernel_state_to_proto_short(s) == IF s \in 0 .. 9 THEN s + 1 ELSE 0
kernel_state_to_proto(s) == IF s \in 0 .. 10 THEN s + 1 ELSE 0

ip_version_to_proto(v) == CASE v = 4 -> 1 [] v = 6 -> 2 [] OTHER -> 0

state_name(s) == IF s \in 0 .. 10 THEN ExporterStates[s + 1] ELSE "UNKNOWN"

---------------------------------------------------------------------------
\* The proto fields that have another name than the raw field they carry.
ProtoNames ==
  [rexmit_packets |-> "snd_rexmitpack", ooo_packets |-> "rcv_ooopack",
   zerowin_probes |-> "snd_zerowin", sack_blocks |-> "rcv_numsacks",
   dsack_packets |-> "dsack_pack", ecn_ce_delivered |-> "delivered_ce",
   ecn_ce_received |-> "received_ce", negotiated_options |-> "options",
   tlp_probes_sent |-> "total_tlp", tlp_bytes_sent |-> "total_tlp_bytes"]
Renamed == {ProtoNames[p] : p \in DOMAIN ProtoNames}
RawName(p) == IF p \in DOMAIN ProtoNames THEN ProtoNames[p] ELSE p
ProtoFields == (RawFields \ Renamed) \cup DOMAIN ProtoNames

\* The fields that are not optional in the message: zero, empty or unknown
\* when the record has none.
Required ==
  {"local_addr", "remote_addr", "local_port", "remote_port", "ip_version", "state"}
Default == [f \in Required |-> Value(0, "", 0)]

raw_to_proto(raw) ==
  LET Carried(p) ==
        LET v == raw.fields[RawName(p)]
        IN  CASE p = "state"      -> [v EXCEPT !.is = kernel_state_to_proto(@)]
              [] p = "ip_version" -> [v EXCEPT !.is = ip_version_to_proto(@)]
              [] OTHER            -> v
      given == {p \in ProtoFields : RawName(p) \in DOMAIN raw.fields}
  IN  [fields |-> Overlay(Default, [p \in given |-> Carried(p)]), sources |-> raw.sources]

---------------------------------------------------------------------------
\* How often each value occurs in a sequence.
Tally(s) ==
  [x \in {s[i] : i \in DOMAIN s} |-> Cardinality({i \in DOMAIN s : s[i] = x})]

\* build_summary_from_records(), and build_batch().
build_batch(raw) ==
  LET protos == [i \in DOMAIN raw |-> raw_to_proto(raw[i])]
  IN  [records |-> protos,
       total_sockets |-> Len(protos),
       state_counts |-> Tally([i \in DOMAIN raw |-> protos[i].fields["state"].is])]

\* The exporter counts names; a record without a state counts as -1.
collect(raw) ==
  LET Named(r) == state_name(IF "state" \in DOMAIN r.fields THEN r.fields["state"].is ELSE -1)
  IN  [total_sockets |-> Len(raw), state_counts |-> Tally([i \in DOMAIN raw |-> Named(raw[i])])]

---------------------------------------------------------------------------
\* The parser of the other platform is not in the build.
NoList  == [size |-> 0, header |-> 0, tag |-> <<>>, groups |-> <<>>, hz |-> 0, whole |-> FALSE]
NoInput == [chunks |-> <<>>, rest |-> 0, xfiles |-> [size |-> 0, stride |-> 0, entries |-> <<>>]]

RecordsInit ==
  /\ \/ platform = "macos" /\ Init
        /\ input = NoInput /\ next = 0 /\ raws = <<>> /\ result = "absent"
     \/ platform = "freebsd" /\ KldInit
        /\ list = NoList /\ pos = 0 /\ acc = NoConnection /\ records = <<>> /\ outcome = "absent"
  /\ batch = NoBatch /\ snapshot = NoBatch

Parse ==
  /\ IF platform = "macos" THEN Next /\ UNCHANGED kldVars ELSE KldNext /\ UNCHANGED pcblistVars
  /\ UNCHANGED <<platform, batch, snapshot>>

\* What collect_tcp_sockets() returned without an error: each of the two
\* programs makes its own of it.
Collected == IF platform = "macos" THEN records ELSE raws
IsOk == IF platform = "macos" THEN outcome = "ok" ELSE result = "ok"

Convert ==
  /\ IsOk /\ batch = NoBatch
  /\ batch' = build_batch(Collected)
  /\ snapshot' = collect(Collected)
  /\ UNCHANGED <<pcblistVars, kldVars, platform>>

RecordsNext == Parse \/ Convert
RecordsSpec == RecordsInit /\ [][RecordsNext]_recordsVars

---------------------------------------------------------------------------
\* What the converted record of a kernel record must hold: each thing the
\* kernel measured in exactly one field, unchanged but for a timer that is
\* not running; an empty name in none.
Measured(tsr, t) ==
  CASE t = "so_addr" -> tsr.so_addr
    [] t = "state"   -> IF tsr.state \in 0 .. 10 THEN tsr.state + 1 ELSE 0
    [] t = "cc"      -> tsr.cc
    [] t = "stack"   -> tsr.stack
    [] t \in {"tt_rexmt", "tt_persist", "tt_keep", "tt_2msl", "tt_delack", "rcvtime"} ->
         IF tsr.timer < 0 THEN 0 ELSE tsr.timer
    [] t \in {"local_addr", "remote_addr"} ->
         IF tsr.ipv6 \/ tsr.af = AF_INET6 THEN 16 ELSE 4
    [] OTHER -> 1
FieldsOf(rec, i, t) ==
  {p \in DOMAIN rec.fields : rec.fields[p].from = i /\ rec.fields[p].field = t}

\* The process of a record: pid and fd are of one entry of kern.file for the
\* record's own socket, or both are missing, and kern.file is among the
\* record's sources exactly when they are there.
OneOwner(rec, tsr, x) ==
  LET f == rec.fields IN
  \/ /\ {"pid", "fd"} \cap DOMAIN f = {}
     /\ rec.sources = <<5>>
  \/ /\ {"pid", "fd"} \subseteq DOMAIN f
     /\ rec.sources = <<5, 6>>
     /\ \E j \in DOMAIN x.entries :
          /\ x.entries[j].type = DTYPE_SOCKET
          /\ x.entries[j].data = tsr.so_addr
          /\ f["pid"].is = x.entries[j].pid /\ f["fd"].is = x.entries[j].fd

\* A batch holds one record for each record of the kernel, in its order, with
\* everything the kernel measured once and the process of its own socket, and
\* there is a batch only when every byte was understood (freebsd.rs:96-275,
\* 282-299, convert.rs:44-119).
EachMeasuredOnce ==
  platform = "freebsd" /\ batch # NoBatch =>
    /\ Len(batch.records) = Len(input.chunks)
    /\ input.rest = 0
    /\ \A i \in DOMAIN input.chunks :
         LET tsr == input.chunks[i]
             rec == batch.records[i]
         IN  /\ tsr.version = TCP_STATS_VERSION
             /\ OneOwner(rec, tsr, input.xfiles)
             /\ \A t \in TsrFields :
                  IF t \in {"cc", "stack"} /\ Measured(tsr, t) = "" THEN FieldsOf(rec, i, t) = {}
                  ELSE \E p \in DOMAIN rec.fields :
                         FieldsOf(rec, i, t) = {p} /\ rec.fields[p].is = Measured(tsr, t)

\* The reader's summary and the exporter's gauges, two tables made by two
\* programs through two encodings, say the same of one collection: every
\* state's count under its name, and the counts add up to the total
\* (convert.rs:18-24, 171-194, collector.rs:14-45).
ProtoName(s) == IF s = 0 THEN "UNKNOWN" ELSE ProtoStates[s]
CountsAgree ==
  batch # NoBatch =>
    LET b == batch.state_counts
        e == snapshot.state_counts
    IN  /\ {ProtoName(s) : s \in DOMAIN b} = DOMAIN e
        /\ \A s \in DOMAIN b : b[s] = e[ProtoName(s)]
        /\ batch.total_sockets = MapThenSumSet(LAMBDA s : b[s], DOMAIN b)
============================================================================
