--------------------------- MODULE TcpstatsMatch ---------------------------
(***************************************************************************)
(* The filter pipeline of tcpstats_read(): what the loop does with one     *)
(* socket of the inpcb table under one struct tcpstats_filter.  The checks *)
(* run in a fixed order and the first that fails decides which skip        *)
(* counter the socket is charged to.                                       *)
(*                                                                         *)
(* An address is NumBytes bytes of ByteBits bits, most significant first.  *)
(* The code has 16 and 4 bytes of 8 bits; nothing depends on the numbers.  *)
(***************************************************************************)
EXTENDS Integers, Sequences, FiniteSetsExt

CONSTANTS
  ByteBits,       \* bits in a byte
  NumBytes,       \* bytes in an address
  TSF_MAX_PORTS,  \* slots of a port array
  Root            \* the credential that sees every socket

ASSUME MatchAssumption ==
  /\ ByteBits \in Nat \ {0}
  /\ NumBytes \in Nat \ {0}
  /\ TSF_MAX_PORTS \in Nat \ {0}

AddrBits  == ByteBits * NumBytes
Byte      == 0 .. 2 ^ ByteBits - 1
Addresses == [1 .. NumBytes -> Byte]
Unspecified == [j \in 1 .. NumBytes |-> 0]

\* IN6_IS_ADDR_UNSPECIFIED
IsUnspecified(a) == a = Unspecified

\* Bit i of an address, 1 the most significant.
Bit(a, i) ==
  LET j == (i - 1) \div ByteBits + 1
      k == j * ByteBits - i            \* bits to the right of it in its byte
  IN  (a[j] \div 2 ^ k) % 2

\* cr_canseeinpcb(): a credential sees its own sockets, root sees all.
CanSee(cred, owner) == cred = Root \/ cred = owner

---------------------------------------------------------------------------
\* A byte under the mask (uint8_t)(0xFF << (ByteBits - n)): its n high bits.
HighBits(byte, n) == byte - (byte % (2 ^ (ByteBits - n)))

\* bcmp of the full bytes, then the byte the prefix ends in, under its mask.
MatchV6Prefix(addr, net, prefix) ==
  LET full_bytes     == prefix \div ByteBits
      remainder_bits == prefix % ByteBits
  IN  /\ \A j \in 1 .. full_bytes : addr[j] = net[j]
      /\ remainder_bits > 0 =>
           HighBits(addr[full_bytes + 1], remainder_bits)
             = HighBits(net[full_bytes + 1], remainder_bits)

\* (addr & mask) == (net & mask), a mask being the set of its one bits.
MatchV4Mask(addr, net, mask) == \A i \in mask : Bit(addr, i) = Bit(net, i)

\* One TSF_*_ADDR_MATCH block: spec holds the four fields of one side of the
\* filter.  A socket of both families is matched as IPv4.  The IPv4 test has
\* no "unspecified" escape, the IPv6 test has.
AddrMatches(spec, vflag, addr) ==
  /\ "v4" \in vflag => MatchV4Mask(addr, spec.addr_v4, spec.mask_v4)
  /\ ("v4" \notin vflag /\ "v6" \in vflag) =>
        \/ IsUnspecified(spec.addr_v6)
        \/ MatchV6Prefix(addr, spec.addr_v6, spec.prefix_v6)

\* The ports a zero-terminated array lists.
Listed(ports) ==
  {ports[j] : j \in {k \in 1 .. TSF_MAX_PORTS : \A l \in 1 .. k : ports[l] # 0}}

---------------------------------------------------------------------------
SkipReasons == <<"gencnt", "ipver", "state", "cred", "port", "addr">>

\* Fails(r, ...): the check charged to reason r rejects socket s, whose
\* generation is g, in a read with snapshot generation gencnt.
Fails(r, f, s, g, gencnt, cred) ==
  \/ r = "gencnt" /\ g > gencnt
  \/ /\ r = "ipver"
     /\ \/ "IPV4_ONLY" \in f.flags /\ "v4" \notin s.vflag
        \/ "IPV6_ONLY" \in f.flags /\ "v6" \notin s.vflag
  \/ r = "state" /\ s.t_state \notin f.state_mask
  \/ r = "cred" /\ ~CanSee(cred, s.owner)
  \/ /\ r = "port"
     /\ \/ "LOCAL_PORT_MATCH" \in f.flags /\ s.lport \notin Listed(f.local_ports)
        \/ "REMOTE_PORT_MATCH" \in f.flags /\ s.fport \notin Listed(f.remote_ports)
  \/ /\ r = "addr"
     /\ \/ "LOCAL_ADDR_MATCH" \in f.flags /\ ~AddrMatches(f.local, s.vflag, s.laddr)
        \/ "REMOTE_ADDR_MATCH" \in f.flags /\ ~AddrMatches(f.remote, s.vflag, s.faddr)

\* Mutant: sockets newer than the snapshot are not skipped.
VerdictNoSnapshot(f, s, g, gencnt, cred) ==
  LET failing == {k \in DOMAIN SkipReasons \ {1} :
                    Fails(SkipReasons[k], f, s, g, gencnt, cred)}
  IN  IF failing = {} THEN "emit" ELSE SkipReasons[Min(failing)]

\* The skip counter charged, or "emit".
Verdict(f, s, g, gencnt, cred) ==
  LET failing == {k \in DOMAIN SkipReasons :
                    Fails(SkipReasons[k], f, s, g, gencnt, cred)}
  IN  IF failing = {} THEN "emit" ELSE SkipReasons[Min(failing)]

\* struct tcpstats_filter, less the fields that select what a record holds.
AddrSpecs ==
  [addr_v4 : Addresses, mask_v4 : SUBSET (1 .. AddrBits),
   addr_v6 : Addresses, prefix_v6 : 0 .. AddrBits]

Ports == [1 .. TSF_MAX_PORTS -> Nat]

FilterRecords ==
  [flags : SUBSET {"IPV4_ONLY", "IPV6_ONLY", "LOCAL_PORT_MATCH", "REMOTE_PORT_MATCH",
                   "LOCAL_ADDR_MATCH", "REMOTE_ADDR_MATCH"},
   state_mask : SUBSET (0 .. 15),
   local_ports : Ports, remote_ports : Ports,
   local : AddrSpecs, remote : AddrSpecs]

\* The filter of a freshly opened /dev/tcpstats or /dev/tcpstats-full: every
\* state, no flag, all addresses and ports zero.
NoAddr == [addr_v4 |-> Unspecified, mask_v4 |-> {},
           addr_v6 |-> Unspecified, prefix_v6 |-> 0]

DefaultFilter ==
  [flags        |-> {},
   state_mask   |-> 0 .. 15,
   local_ports  |-> [j \in 1 .. TSF_MAX_PORTS |-> 0],
   remote_ports |-> [j \in 1 .. TSF_MAX_PORTS |-> 0],
   local        |-> NoAddr,
   remote       |-> NoAddr]
============================================================================
