---------------------------- MODULE FilterParse ----------------------------
(***************************************************************************)
(* tsf_parse_filter_string(): from a filter string to the struct           *)
(* tcpstats_filter that TcpstatsMatch puts sockets to.  The string is a    *)
(* sequence of directives, applied one after the other to a temporary      *)
(* filter; the caller's filter is written when all of them, and a look     *)
(* across them at the end, were accepted.                                  *)
(*                                                                         *)
(* A directive is [key, value, items]: its key, what follows the key       *)
(* ("none", "empty" for an equal sign alone, "list"), and the value taken  *)
(* apart at its commas, empty pieces left out: a comma alone is a list of  *)
(* no items.  A port is a number, 0 standing for every text that is        *)
(* not one; a state, a group of fields and a format are their names; the   *)
(* value of an address directive is one item [family, net, prefix], the    *)
(* prefix that of a whole address when the text has none.  V6Text reads an *)
(* IPv6 address character by character.                                    *)
(***************************************************************************)
EXTENDS TcpstatsMatch

CONSTANTS
  TSF_PARSE_MAXDIRECTIVES,  \* directives a string may have
  MaxPort,                  \* the greatest port number
  Inputs,                   \* the strings passed to the parser: [readable,
                            \* directives]; not readable is one that is too long
                            \* or has a character that does not print
  Before,                   \* what the caller's filter holds
  Sockets                   \* the sockets that are put to the filter

VARIABLES
  input,   \* the string
  todo,    \* the directives that are still to be parsed
  tmp,     \* the filter under construction
  parsed,  \* "parsing", "accepted" or "refused"
  out      \* the caller's filter

parseVars == <<input, todo, tmp, parsed, out>>

\* tsf_state_names: three states have an alias.
StateOf ==
  [closed |-> 0, listen |-> 1, syn_sent |-> 2, syn_received |-> 3, established |-> 4,
   close_wait |-> 5, fin_wait_1 |-> 6, closing |-> 7, last_ack |-> 8,
   fin_wait_2 |-> 9, time_wait |-> 10,
   timewait |-> 10, closewait |-> 5, syn_rcvd |-> 3]

\* tsf_field_groups: bits of a mask.
FieldGroups ==
  [identity |-> {0}, state |-> {1}, congestion |-> {2}, rtt |-> {3}, sequences |-> {4},
   counters |-> {5}, timers |-> {6}, buffers |-> {7}, ecn |-> {8}, names |-> {9},
   all |-> 0 .. 9, default |-> {0, 1, 2, 3, 7}]

\* An empty struct tcpstats_filter: DefaultFilter and what a record shall hold.
EmptyFilter ==
  [f \in DOMAIN DefaultFilter \cup {"field_mask", "format"} |->
     CASE f = "field_mask" -> FieldGroups.default
       [] f = "format"     -> "compact"
       [] OTHER            -> DefaultFilter[f]]

ParseInit ==
  /\ input \in Inputs
  /\ todo = input.directives
  /\ tmp = EmptyFilter
  /\ parsed = "parsing"
  /\ out = Before

FlagOf == [ipv4_only |-> "IPV4_ONLY", ipv6_only |-> "IPV6_ONLY"]
PortFlag == [local_port |-> "LOCAL_PORT_MATCH", remote_port |-> "REMOTE_PORT_MATCH"]
AddrFlag == [local_addr |-> "LOCAL_ADDR_MATCH", remote_addr |-> "REMOTE_ADDR_MATCH"]

Elements(items) == {items[i] : i \in DOMAIN items}

\* What splitting a string gives.
Items(key) ==
  IF key \in DOMAIN PortFlag THEN Nat
  ELSE IF key \in DOMAIN AddrFlag
       THEN [family : {"v4", "v6"}, net : Addresses, prefix : Nat]
       ELSE STRING

IsDirective(d) ==
  /\ d.items \in Seq(Items(d.key))
  /\ d.value # "list" => d.items = <<>>
  /\ d.value = "list" /\ d.key \in DOMAIN AddrFlag \cup {"format"} => Len(d.items) = 1

ASSUME ParseAssumption ==
  /\ TSF_PARSE_MAXDIRECTIVES \in Nat /\ MaxPort \in Nat
  /\ \A x \in Inputs :
       /\ x.readable \in BOOLEAN
       /\ x.directives \in Seq(Elements(x.directives))
       /\ \A d \in Elements(x.directives) : IsDirective(d)
  /\ \A s \in Sockets :
       /\ s.vflag \subseteq {"v4", "v6"} /\ s.t_state \in 0 .. 10
       /\ s.lport \in Nat /\ s.fport \in Nat
       /\ s.laddr \in Addresses /\ s.faddr \in Addresses

Distinct(items) == Cardinality(Elements(items)) = Len(items)

---------------------------------------------------------------------------
(* The directives: a guard says what is accepted, d being the next one. *)

\* The string passes the checks before the first directive.
Readable == input.readable /\ Len(input.directives) <= TSF_PARSE_MAXDIRECTIVES

Accept(f) ==
  /\ tmp' = f
  /\ todo' = Tail(todo)
  /\ UNCHANGED <<input, parsed, out>>

\* ipv4_only and ipv6_only take no value.
FlagOk(d) == d.key \in DOMAIN FlagOf /\ d.value = "none"
ParseFlag(d) == FlagOk(d) /\ Accept([tmp EXCEPT !.flags = @ \cup {FlagOf[d.key]}])

\* tsf_parse_port_number accepts 1 .. 65535.
PortListOk(d) ==
  /\ d.key \in DOMAIN PortFlag /\ d.value = "list"
  /\ PortFlag[d.key] \notin tmp.flags
  /\ Len(d.items) \in 1 .. TSF_MAX_PORTS
  /\ Elements(d.items) \subseteq 1 .. MaxPort
  /\ Distinct(d.items)

PortSlots(items) ==
  [j \in 1 .. TSF_MAX_PORTS |-> IF j \in DOMAIN items THEN items[j] ELSE 0]

ParsePortList(d) ==
  /\ PortListOk(d)
  /\ LET f == [tmp EXCEPT !.flags = @ \cup {PortFlag[d.key]}] IN
     Accept(IF d.key = "local_port"
            THEN [f EXCEPT !.local_ports = PortSlots(d.items)]
            ELSE [f EXCEPT !.remote_ports = PortSlots(d.items)])

\* tsf_lookup_state of every item; two names of one state are a duplicate.
StatesOf(items) == {StateOf[name] : name \in Elements(items)}
StatesOk(items) ==
  /\ Elements(items) \subseteq DOMAIN StateOf
  /\ Cardinality(StatesOf(items)) = Len(items)

\* A list of nothing is accepted.
ExcludeOk(d) ==
  /\ d.key = "exclude" /\ d.value = "list"
  /\ "STATE_INCLUDE_MODE" \notin tmp.flags
  /\ StatesOk(d.items)

\* Mutant: the states are cleared in a fresh mask.
ParseExcludeAfresh(d) ==
  ExcludeOk(d) /\ Accept([tmp EXCEPT !.state_mask = 0 .. 15 \ StatesOf(d.items)])

ParseExclude(d) ==
  ExcludeOk(d) /\ Accept([tmp EXCEPT !.state_mask = @ \ StatesOf(d.items)])

\* It looks at the mask to see an exclude= before it, and at the flag to see
\* another include_state=.
IncludeStateOk(d) ==
  /\ d.key = "include_state" /\ d.value = "list"
  /\ tmp.state_mask = 0 .. 15
  /\ "STATE_INCLUDE_MODE" \notin tmp.flags
  /\ d.items # <<>> /\ StatesOk(d.items)

ParseIncludeState(d) ==
  /\ IncludeStateOk(d)
  /\ Accept([tmp EXCEPT !.state_mask = StatesOf(d.items),
                        !.flags = @ \cup {"STATE_INCLUDE_MODE"}])

\* IPv4: (addr & ~mask) == 0, the mask being that of the prefix.
HostBitsClearV4(net, prefix) == \A i \in prefix + 1 .. AddrBits : Bit(net, i) = 0

\* tsf_validate_v6_cidr: the byte the prefix ends in, then the bytes after it;
\* nothing is looked at when the prefix is zero or the whole address.
HostBitsClearV6(net, prefix) ==
  LET full_bytes     == prefix \div ByteBits
      remainder_bits == prefix % ByteBits
      rest == IF remainder_bits > 0 THEN full_bytes + 2 ELSE full_bytes + 1
  IN  prefix \in 1 .. AddrBits - 1 =>
        /\ remainder_bits > 0 =>
             HighBits(net[full_bytes + 1], remainder_bits) = net[full_bytes + 1]
        /\ \A j \in rest .. NumBytes : net[j] = 0

AddrOk(d) ==
  /\ d.key \in DOMAIN AddrFlag /\ d.value = "list"
  /\ AddrFlag[d.key] \notin tmp.flags
  /\ Len(d.items) = 1 /\ d.items[1].prefix <= AddrBits
  /\ IF d.items[1].family = "v4"
     THEN HostBitsClearV4(d.items[1].net, d.items[1].prefix)
     ELSE HostBitsClearV6(d.items[1].net, d.items[1].prefix)

\* The two fields of the address' family.
AddrSpecOf(a) ==
  IF a.family = "v4"
  THEN [NoAddr EXCEPT !.addr_v4 = a.net, !.mask_v4 = 1 .. a.prefix]
  ELSE [NoAddr EXCEPT !.addr_v6 = a.net, !.prefix_v6 = a.prefix]

ParseAddr(d) ==
  /\ AddrOk(d)
  /\ LET f == [tmp EXCEPT !.flags = @ \cup {AddrFlag[d.key]}] IN
     Accept(IF d.key = "local_addr"
            THEN [f EXCEPT !.local = AddrSpecOf(d.items[1])]
            ELSE [f EXCEPT !.remote = AddrSpecOf(d.items[1])])

FormatOk(d) ==
  d.key = "format" /\ d.value = "list" /\ d.items \in {<<"compact">>, <<"full">>}
ParseFormat(d) == FormatOk(d) /\ Accept([tmp EXCEPT !.format = d.items[1]])

FieldsOk(d) ==
  /\ d.key = "fields" /\ d.value = "list"
  /\ d.items # <<>> /\ Elements(d.items) \subseteq DOMAIN FieldGroups
ParseFields(d) ==
  /\ FieldsOk(d)
  /\ Accept([tmp EXCEPT !.field_mask = UNION {FieldGroups[g] : g \in Elements(d.items)}])

DirectiveOk(d) ==
  \/ FlagOk(d) \/ PortListOk(d) \/ ExcludeOk(d) \/ IncludeStateOk(d)
  \/ AddrOk(d) \/ FormatOk(d) \/ FieldsOk(d)

---------------------------------------------------------------------------
\* tsf_validate_filter: the flags against each other and against an address of
\* the other family that is not all zero.
Compatible(f) ==
  /\ ~({"IPV4_ONLY", "IPV6_ONLY"} \subseteq f.flags)
  /\ "IPV6_ONLY" \in f.flags =>
       /\ "LOCAL_ADDR_MATCH" \in f.flags => f.local.addr_v4 = Unspecified
       /\ "REMOTE_ADDR_MATCH" \in f.flags => f.remote.addr_v4 = Unspecified
  /\ "IPV4_ONLY" \in f.flags =>
       /\ "LOCAL_ADDR_MATCH" \in f.flags => IsUnspecified(f.local.addr_v6)
       /\ "REMOTE_ADDR_MATCH" \in f.flags => IsUnspecified(f.remote.addr_v6)

ParseDirective ==
  /\ parsed = "parsing" /\ Readable /\ todo # <<>>
  /\ LET d == Head(todo) IN
       \/ ParseFlag(d) \/ ParsePortList(d) \/ ParseExclude(d) \/ ParseIncludeState(d)
       \/ ParseAddr(d) \/ ParseFormat(d) \/ ParseFields(d)

\* An error of any stage is returned, and the caller's filter stays.
Refuse ==
  /\ parsed = "parsing"
  /\ \/ ~Readable
     \/ todo # <<>> /\ ~DirectiveOk(Head(todo))
     \/ todo = <<>> /\ ~Compatible(tmp)
  /\ parsed' = "refused"
  /\ UNCHANGED <<input, todo, tmp, out>>

\* An empty string is accepted as the empty filter.
Finish ==
  /\ parsed = "parsing" /\ Readable /\ todo = <<>>
  /\ Compatible(tmp)
  /\ parsed' = "accepted"
  /\ out' = tmp
  /\ UNCHANGED <<input, todo, tmp>>

ParseNext == ParseDirective \/ Refuse \/ Finish

ParseSpec == ParseInit /\ [][ParseNext]_parseVars

---------------------------------------------------------------------------
(* What a filter string means, in terms of its directives. *)

Keys == DOMAIN FlagOf \cup DOMAIN PortFlag \cup DOMAIN AddrFlag
          \cup {"exclude", "include_state", "format", "fields"}

\* Mistakes of a directive by itself.
Mistaken(d) ==
  LET items == Elements(d.items) IN
  IF d.key \in DOMAIN FlagOf THEN d.value # "none"
  ELSE \/ d.value # "list"
       \/ d.key \notin {"exclude"} /\ d.items = <<>>
       \/ /\ d.key \in {"local_port", "remote_port"}
          /\ \/ Len(d.items) > TSF_MAX_PORTS
             \/ \E n \in items : n < 1 \/ n > MaxPort
             \/ \E i, j \in DOMAIN d.items : i < j /\ d.items[i] = d.items[j]
       \/ /\ d.key \in {"exclude", "include_state"}
          /\ \/ ~(items \subseteq DOMAIN StateOf)
             \/ \E i, j \in DOMAIN d.items :
                  i < j /\ StateOf[d.items[i]] = StateOf[d.items[j]]
       \/ /\ d.key \in {"local_addr", "remote_addr"}
          /\ \E a \in items :
               \/ a.prefix > AddrBits
               \* a zero prefix, whose IPv6 host bits are not looked at
               \/ \E i \in a.prefix + 1 .. AddrBits :
                    Bit(a.net, i) = 1 /\ ~(a.family = "v6" /\ a.prefix = 0)
       \/ d.key = "format" /\ ~(items \subseteq {"compact", "full"})
       \/ d.key = "fields" /\ ~(items \subseteq DOMAIN FieldGroups)
       \/ d.key \notin Keys

Names(d, family) ==
  /\ d.key \in {"local_addr", "remote_addr"}
  /\ d.items[1].family = family /\ d.items[1].net # Unspecified

\* Two directives that are refused together, d the earlier one.
Clash(d, e) ==
  \/ d.key = e.key /\ d.key \in {"local_port", "remote_port", "local_addr",
                                 "remote_addr", "include_state"}
  \/ d.key = "include_state" /\ e.key = "exclude"
  \/ d.key = "exclude" /\ d.items # <<>> /\ e.key = "include_state"
  \/ {d.key, e.key} = {"ipv4_only", "ipv6_only"}
  \/ \E x, y \in {d, e} : \/ x.key = "ipv4_only" /\ Names(y, "v6")
                          \/ x.key = "ipv6_only" /\ Names(y, "v4")

Acceptable ==
  LET ds == input.directives IN
  /\ input.readable /\ Len(ds) <= TSF_PARSE_MAXDIRECTIVES
  /\ \A i \in DOMAIN ds : ~Mistaken(ds[i])
  /\ \A i, j \in DOMAIN ds : i < j => ~Clash(ds[i], ds[j])

\* A string the documents refuse and the code accepts: a format or its fields
\* given twice, or states to include after a list of no states to exclude.
Disputed ==
  \E i, j \in DOMAIN input.directives :
    LET d == input.directives[i]
        e == input.directives[j]
    IN  i < j /\ \/ d.key = e.key /\ d.key \in {"format", "fields"}
                 \/ d.key = "exclude" /\ d.items = <<>> /\ e.key = "include_state"

InNet(a, addr) == \A i \in 1 .. a.prefix : Bit(addr, i) = Bit(a.net, i)

\* An address directive speaks of the sockets of its family; one that is IPv4
\* and IPv6 counts as IPv4.  Whether the unspecified address of a family is an
\* address or stands for any ("Empty/zero fields mean 'match any'",
\* tcp_statsdev.h:173) is left open, but for the prefix zero.
Speaks(d, s) ==
  d.key \in DOMAIN AddrFlag =>
    LET a == d.items[1] IN
    /\ a.family \in s.vflag /\ (a.family = "v6" => s.vflag = {"v6"})
    /\ a.net = Unspecified => a.prefix = 0

Meets(d, s) ==
  CASE d.key = "ipv4_only"     -> "v4" \in s.vflag
    [] d.key = "ipv6_only"     -> "v6" \in s.vflag
    [] d.key = "exclude"       -> \A name \in Elements(d.items) : s.t_state # StateOf[name]
    [] d.key = "include_state" -> \E name \in Elements(d.items) : s.t_state = StateOf[name]
    [] d.key = "local_port"    -> s.lport \in Elements(d.items)
    [] d.key = "remote_port"   -> s.fport \in Elements(d.items)
    [] d.key = "local_addr"    -> InNet(d.items[1], s.laddr)
    [] d.key = "remote_addr"   -> InNet(d.items[1], s.faddr)
    [] OTHER -> TRUE

\* A string that is refused leaves the caller's filter as it was.  One that is
\* not disputed is refused exactly when a directive is mistaken or two of them
\* clash, and the filter of an accepted one ANDs its directives
\* (tcp_statsdev.h:173), repeated exclude= lists, aliases, prefixes that end
\* in a byte, on its border, at zero or at the end included: a socket it
\* passes meets every directive that speaks of it, and it passes each socket
\* that all of them speak of and that meets them all.
FilterMeansAll ==
  /\ parsed # "accepted" => out = Before
  /\ parsed = "refused" /\ input.readable /\ ~Disputed => ~Acceptable
  /\ parsed = "accepted" /\ ~Disputed =>
       /\ Acceptable
       /\ \A s \in Sockets :
            LET ds   == Elements(input.directives)
                emit == Verdict(out, s, 1, 1, Root) = "emit"
            IN  /\ emit => \A d \in ds : Speaks(d, s) => Meets(d, s)
                /\ (\A d \in ds : Speaks(d, s) /\ Meets(d, s)) => emit

============================================================================
