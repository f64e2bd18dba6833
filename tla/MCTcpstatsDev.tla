--------------------------- MODULE MCTcpstatsDev ---------------------------
(* Instances of TcpstatsDev for TLC: two-byte addresses of two bits, two   *)
(* kinds of socket that differ in family, state and owner, and filters     *)
(* that differ in two fields, so that a half-stored one is neither.        *)
EXTENDS TcpstatsDev, TLC

CONSTANTS t1, t2, t3, f1, f2, f3, root, alice, no_thread, no_file, no_pcb

Socket(family, state, owner) ==
  [vflag |-> {family}, t_state |-> state, owner |-> owner,
   lport |-> 1, fport |-> 2, laddr |-> Unspecified, faddr |-> Unspecified]

Established4 == Socket("v4", 4, alice)
Listen6      == Socket("v6", 1, root)

MCKinds == {Established4, Listen6}
OneKind == {Established4}

\* "exclude=listen" with "ipv4_only", and its opposite.
OnlyV4     == [DefaultFilter EXCEPT !.flags = {"IPV4_ONLY"}, !.state_mask = (0 .. 15) \ {1}]
MCFilters  == {DefaultFilter, OnlyV4}
OneFilter  == {DefaultFilter}

\* Values of the four tunables.
Tunables(fds, readers, duration, interval) ==
  [max_open_fds |-> fds, max_concurrent_readers |-> readers,
   max_read_duration_ms |-> duration, min_read_interval_ms |-> interval]

GateTunables == Tunables({0, 1, 2}, {1, 2}, {0}, {0})
ShareTunables == Tunables({0, 1}, {1, 2}, {0}, {1})
TimeTunables == Tunables({2}, {2}, {1}, {2})

\* Threads are interchangeable, and so are files, where no liveness is checked.
Symmetry == Permutations(Threads) \cup Permutations(Files)
============================================================================
