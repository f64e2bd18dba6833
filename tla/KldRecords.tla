----------------------------- MODULE KldRecords -----------------------------
(***************************************************************************)
(* The parsers of src/platform/freebsd.rs: parse_kld_records() makes a raw *)
(* record of each 320 bytes the kernel module wrote, and the enrichment    *)
(* joins them with the processes parse_kern_file() finds in kern.file.     *)
(*                                                                         *)
(* The device's buffer is a sequence of whole struct tcp_stats_record and  *)
(* the number of bytes after them.  Of a record the fields that decide     *)
(* something are given: version, the IPv6 flag, af, so_addr, state,        *)
(* timer (all six timers), cc and stack (names, "" for none); the others   *)
(* count by their names.  kern.file is given by its size in bytes, the     *)
(* stride its first entry states, and its entries.                         *)
(***************************************************************************)
EXTENDS RawRecord, FiniteSetsExt

CONSTANT KldInputs  \* what the device and kern.file return: chunks, rest, xfiles

TCP_STATS_VERSION == 1
AF_INET6 == 28
DTYPE_SOCKET == 2

\* The entries parse_kern_file() looks at: none when the buffer is too short
\* for a stride or the stride too short for the fields; else as many as fit,
\* at the stride the first one states.
Visited(x) ==
  IF x.size < 8 \/ x.stride > x.size \/ x.stride < 48 THEN {} ELSE 1 .. x.size \div x.stride

Tsrs == [version : Nat, ipv6 : BOOLEAN, af : Nat, so_addr : Nat, state : Int,
         timer : Int, cc : STRING, stack : STRING]
Xfiles == [size : Nat, stride : Nat, entries : Seq([type : Nat, data : Nat, pid : Int, fd : Int])]

\* The bytes at each stride that fits in kern.file are an entry.
ASSUME KldAssumption ==
  \A x \in KldInputs :
    /\ x.chunks \in Seq(Tsrs) /\ x.rest \in Nat /\ x.xfiles \in Xfiles
    /\ Visited(x.xfiles) \subseteq DOMAIN x.xfiles.entries

VARIABLES
  input,   \* the buffers
  next,    \* the chunk at hand
  raws,    \* the raw records
  result   \* "start", "loop", "join", "ok", "version mismatch", "parse error"

kldVars == <<input, next, raws, result>>

---------------------------------------------------------------------------
\* The fields of struct tcp_stats_record that measure something (tsr_ left
\* out of the names); version, len, flags, af and padding do not.
TsrFields ==
  {"local_port", "remote_port", "local_addr", "remote_addr", "state", "flags_tcp",
   "snd_cwnd", "snd_ssthresh", "snd_wnd", "rcv_wnd", "maxseg", "cc", "stack",
   "rtt", "rttvar", "rto", "rttmin", "snd_wscale", "rcv_wscale", "options",
   "snd_nxt", "snd_una", "snd_max", "rcv_nxt", "rcv_adv",
   "snd_rexmitpack", "rcv_ooopack", "snd_zerowin", "dupacks", "rcv_numsacks",
   "ecn", "delivered_ce", "received_ce", "dsack_bytes", "dsack_pack",
   "total_tlp", "total_tlp_bytes",
   "tt_rexmt", "tt_persist", "tt_keep", "tt_2msl", "tt_delack", "rcvtime",
   "snd_buf_cc", "snd_buf_hiwat", "rcv_buf_cc", "rcv_buf_hiwat",
   "so_addr", "uid", "inp_gencnt"}

\* The raw fields that have another name than the kernel's.
KldNames ==
  [socket_id |-> "so_addr", tcp_flags |-> "flags_tcp", cc_algo |-> "cc", tcp_stack |-> "stack",
   rtt_us |-> "rtt", rttvar_us |-> "rttvar", rto_us |-> "rto", rtt_min_us |-> "rttmin",
   ecn_flags |-> "ecn",
   timer_rexmt_ms |-> "tt_rexmt", timer_persist_ms |-> "tt_persist",
   timer_keep_ms |-> "tt_keep", timer_2msl_ms |-> "tt_2msl",
   timer_delack_ms |-> "tt_delack", idle_time_ms |-> "rcvtime",
   snd_buf_used |-> "snd_buf_cc", rcv_buf_used |-> "rcv_buf_cc"]

TsrName(f) == IF f \in DOMAIN KldNames THEN KldNames[f] ELSE f

\* pid, fd and effective_pid, rxt_shift and start_time_secs stay None;
\* ip_version has no field of its own.
KldFields == {f \in RawFields : TsrName(f) \in TsrFields}

TimerFields == {"timer_rexmt_ms", "timer_persist_ms", "timer_keep_ms",
                "timer_2msl_ms", "timer_delack_ms", "idle_time_ms"}
NameFields  == {"cc_algo", "tcp_stack"}

\* Mutant: the idle time is not brought to zero with the other timers.
kld_record_to_raw_wraps(tsr, i) ==
  LET is_ipv6 == tsr.ipv6 \/ tsr.af = AF_INET6
      Content(f) == CASE f = "socket_id" -> tsr.so_addr
                      [] f = "state"     -> tsr.state
                      [] f \in TimerFields -> tsr.timer
                      [] f = "cc_algo"   -> tsr.cc
                      [] f = "tcp_stack" -> tsr.stack
                      [] f \in {"local_addr", "remote_addr"} -> IF is_ipv6 THEN 16 ELSE 4
                      [] OTHER           -> 1
      fields == {f \in KldFields : f \in NameFields => Content(f) # ""}
      named  == [f \in fields |-> Value(i, TsrName(f), Content(f))]
      family == [f \in {"ip_version"} |-> Value(i, "af", IF is_ipv6 THEN 6 ELSE 4)]
  IN  Raw(Overlay(named, family), <<5>>)

\* One record: the first four bytes of an address, or all sixteen; names up
\* to the NUL, None when empty; a timer that is negative is not running.
kld_record_to_raw(tsr, i) ==
  LET is_ipv6 == tsr.ipv6 \/ tsr.af = AF_INET6
      Content(f) == CASE f = "socket_id" -> tsr.so_addr
                      [] f = "state"     -> tsr.state
                      [] f \in TimerFields -> IF tsr.timer < 0 THEN 0 ELSE tsr.timer
                      [] f = "cc_algo"   -> tsr.cc
                      [] f = "tcp_stack" -> tsr.stack
                      [] f \in {"local_addr", "remote_addr"} -> IF is_ipv6 THEN 16 ELSE 4
                      [] OTHER           -> 1
      fields == {f \in KldFields : f \in NameFields => Content(f) # ""}
      named  == [f \in fields |-> Value(i, TsrName(f), Content(f))]
      family == [f \in {"ip_version"} |-> Value(i, "af", IF is_ipv6 THEN 6 ELSE 4)]
  IN  Raw(Overlay(named, family), <<5>>)

---------------------------------------------------------------------------
\* The process and descriptor of each socket: the first entry wins.
parse_kern_file(x) ==
  LET sockets == {j \in Visited(x) : x.entries[j].type = DTYPE_SOCKET}
      first(a) == x.entries[Min({j \in sockets : x.entries[j].data = a})]
  IN  [a \in {x.entries[j].data : j \in sockets} |-> [pid |-> first(a).pid, fd |-> first(a).fd]]

\* Fills pid and fd in where the socket's address is known.
Enriched(raw, map) ==
  LET id == raw.fields["socket_id"].is
      who == [pid |-> Value(id, "xf_pid", map[id].pid), fd |-> Value(id, "xf_fd", map[id].fd)]
  IN  IF id \in DOMAIN map
      THEN Raw(Overlay(raw.fields, who), Append(raw.sources, 6))
      ELSE raw

---------------------------------------------------------------------------
KldInit ==
  /\ input \in KldInputs
  /\ next = 1
  /\ raws = <<>>
  /\ result = "start"

\* An empty buffer is no record; one that is not whole records is an error.
CheckSize ==
  /\ result = "start"
  /\ result' = IF input.rest = 0 THEN "loop" ELSE "parse error"
  /\ UNCHANGED <<input, next, raws>>

\* The next record; one of another version makes the whole read an error.
TakeRecord ==
  /\ result = "loop" /\ next <= Len(input.chunks)
  /\ IF input.chunks[next].version # TCP_STATS_VERSION
     THEN result' = "version mismatch" /\ raws' = <<>> /\ UNCHANGED next
     ELSE /\ raws' = Append(raws, kld_record_to_raw(input.chunks[next], next))
          /\ next' = next + 1
          /\ UNCHANGED result
  /\ UNCHANGED input

Parsed ==
  /\ result = "loop" /\ next > Len(input.chunks)
  /\ result' = "join"
  /\ UNCHANGED <<input, next, raws>>

\* enrich_with_pid_mapping(): when kern.file cannot be read the records stay
\* as they are.
Enrich ==
  /\ result = "join"
  /\ \/ LET map == parse_kern_file(input.xfiles) IN
          raws' = [i \in DOMAIN raws |-> Enriched(raws[i], map)]
     \/ UNCHANGED raws
  /\ result' = "ok"
  /\ UNCHANGED <<input, next>>

KldNext == CheckSize \/ TakeRecord \/ Parsed \/ Enrich
KldSpec == KldInit /\ [][KldNext]_kldVars
============================================================================
