----------------------------- MODULE RawRecord -----------------------------
(***************************************************************************)
(* RawSocketRecord (src/record.rs): what either platform's parser makes of *)
(* one socket.  An Option field that is None is absent from the function.  *)
(* A value remembers where it was read: the kernel's record, the kernel's  *)
(* name of the field, and as much of its content as the code looks at.     *)
(***************************************************************************)
EXTENDS Integers, Sequences

RawFields ==
  {"local_addr", "remote_addr", "local_port", "remote_port", "ip_version", "socket_id",
   "state", "tcp_flags",
   "snd_cwnd", "snd_ssthresh", "snd_wnd", "rcv_wnd", "maxseg",
   "rtt_us", "rttvar_us", "rto_us",
   "snd_nxt", "snd_una", "snd_max", "rcv_nxt", "rcv_adv",
   "snd_wscale", "rcv_wscale", "dupacks", "rxt_shift",
   "snd_buf_used", "snd_buf_hiwat", "rcv_buf_used", "rcv_buf_hiwat",
   "pid", "effective_pid", "uid", "inp_gencnt", "start_time_secs",
   "rtt_min_us", "cc_algo", "tcp_stack", "snd_rexmitpack", "rcv_ooopack",
   "snd_zerowin", "rcv_numsacks", "ecn_flags", "delivered_ce", "received_ce",
   "dsack_bytes", "dsack_pack", "total_tlp", "total_tlp_bytes",
   "timer_rexmt_ms", "timer_persist_ms", "timer_keep_ms", "timer_2msl_ms",
   "timer_delack_ms", "idle_time_ms", "options", "fd"}

Value(from, field, is) == [from |-> from, field |-> field, is |-> is]

\* A record: its fields, and the tags of its data sources.
Raw(fields, sources) == [fields |-> fields, sources |-> sources]

\* Fields of g written over those of f.
Overlay(f, g) ==
  [x \in DOMAIN f \cup DOMAIN g |-> IF x \in DOMAIN g THEN g[x] ELSE f[x]]

NoFields == [x \in {} |-> Value(0, "", 0)]
============================================================================
