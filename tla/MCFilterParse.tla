--------------------------- MODULE MCFilterParse ---------------------------
(***************************************************************************)
(* The filter parser over small inputs: filter strings of up to three      *)
(* directives, every address directive there is in a string of its own,    *)
(* and every text that could be an IPv6 address up to a length.  The two   *)
(* machines take no step together: one state works on a string or on a     *)
(* text.                                                                   *)
(***************************************************************************)
EXTENDS FilterParse, V6Text

CONSTANT MaxText  \* bound: characters of a text

---------------------------------------------------------------------------
(* The inputs. *)

List(key, items) == [key |-> key, value |-> "list", items |-> items]
Alone(key) == [key |-> key, value |-> "none", items |-> <<>>]
Addr(key, family, net, prefix) ==
  List(key, <<[family |-> family, net |-> net, prefix |-> prefix]>>)

\* The addresses are 00.00, 01.00 and 01.10 in bits.
Directives ==
  {Alone("ipv4_only"), Alone("ipv6_only"), List("ipv6_only", <<"x">>),
   Alone("exclude"), [key |-> "exclude", value |-> "empty", items |-> <<>>],
   List("exclude", <<>>), List("exclude", <<"listen">>),
   List("exclude", <<"time_wait", "timewait">>), List("exclude", <<"closed", "timewait">>),
   List("exclude", <<"none">>),
   List("include_state", <<>>), List("include_state", <<"listen", "closed">>),
   List("include_state", <<"time_wait">>), List("include_state", <<"listen", "listen">>),
   List("local_port", <<1, 2>>), List("local_port", <<1, 1>>), List("local_port", <<0>>),
   List("local_port", <<1, 2, 3>>), List("remote_port", <<2>>), List("remote_port", <<4>>),
   Addr("local_addr", "v4", <<1, 0>>, 2), Addr("local_addr", "v6", <<1, 2>>, 4),
   Addr("remote_addr", "v4", <<0, 0>>, 1), Addr("remote_addr", "v6", <<1, 0>>, 2),
   List("format", <<"full">>), List("format", <<"short">>),
   List("fields", <<"rtt", "ecn">>), List("fields", <<"all", "none">>), Alone("verbose")}

OneAddress ==
  {<<Addr("local_addr", family, net, prefix)>> :
     family \in {"v4", "v6"}, net \in Addresses, prefix \in 0 .. AddrBits + 1}

\* One directive more than a string may have.
TooMany == [1 .. 4 -> {Alone("ipv4_only"), List("exclude", <<"listen">>)}]

Strings == BoundedSeq(Directives, 3) \cup OneAddress \cup TooMany

SmallInputs == [readable : {TRUE}, directives : Strings]
                 \cup {[readable |-> FALSE, directives |-> <<>>]}

\* Every local address, and every combination of the rest with some.
SmallSockets ==
  [vflag : {{"v4"}, {"v6"}, {"v4", "v6"}}, t_state : {4}, lport : {1}, fport : {2},
   laddr : Addresses, faddr : {<<1, 1>>}, owner : {Root}]
  \cup
  [vflag : {{"v4"}, {"v6"}, {"v4", "v6"}}, t_state : {0, 1, 10}, lport : {1}, fport : {2},
   laddr : {<<1, 0>>, <<1, 2>>, <<2, 0>>}, faddr : {<<1, 1>>}, owner : {Root}]
  \cup
  [vflag : {{"v6"}}, t_state : {4}, lport : {1, 3}, fport : {1, 2},
   laddr : {<<1, 2>>}, faddr : {<<0, 1>>, <<1, 1>>, <<2, 2>>}, owner : {Root}]

\* Nothing passes it.
ShutFilter == [EmptyFilter EXCEPT !.state_mask = {}]

Texts == BoundedSeq(Digit \cup {Colon, Other}, MaxText)

\* A machine that does not run has ended.
MCInit ==
  \/ ParseInit
     /\ text = <<>> /\ p = 1 /\ groups = <<>> /\ double_colon = -1 /\ reading = "refused"
  \/ TextInit(Texts)
     /\ input = [readable |-> FALSE, directives |-> <<>>]
     /\ todo = <<>> /\ tmp = EmptyFilter /\ parsed = "refused" /\ out = Before

MCNext ==
  \/ ParseNext /\ UNCHANGED textVars
  \/ TextNext /\ UNCHANGED parseVars
  \/ parsed # "parsing" /\ reading # "reading" /\ UNCHANGED <<parseVars, textVars>>

MCSpec == MCInit /\ [][MCNext]_<<parseVars, textVars>>

---------------------------------------------------------------------------
(* What an IPv6 address means (RFC 4291, section 2.2, forms 1 and 2). *)

\* The pieces of a text between its colons.
Pieces(t) ==
  LET cuts == {0, Len(t) + 1} \cup {i \in DOMAIN t : t[i] = Colon}
      Cut(k) == CHOOSE c \in cuts : Cardinality({b \in cuts : b < c}) = k
  IN  [k \in 1 .. Cardinality(cuts) - 1 |-> SubSeq(t, Cut(k - 1) + 1, Cut(k) - 1)]

\* Groups with a colon between two of them, or nothing.
IsGroupList(t) ==
  t = <<>> \/ \A k \in DOMAIN Pieces(t) :
                /\ Len(Pieces(t)[k]) \in 1 .. MaxDigits
                /\ Elements(Pieces(t)[k]) \subseteq Digit

GroupList(t) == IF t = <<>> THEN <<>> ELSE [k \in DOMAIN Pieces(t) |-> Value(Pieces(t)[k])]

\* Where a "::" may stand for the zeros that are missing.
Elisions ==
  {i \in 1 .. Len(text) - 1 :
     /\ text[i] = Colon /\ text[i + 1] = Colon
     /\ IsGroupList(SubSeq(text, 1, i - 1)) /\ IsGroupList(SubSeq(text, i + 2, Len(text)))
     /\ Len(GroupList(SubSeq(text, 1, i - 1)))
          + Len(GroupList(SubSeq(text, i + 2, Len(text)))) < Groups}

\* The addresses a text denotes: none, or one.
Denoted ==
  (IF IsGroupList(text) /\ Len(GroupList(text)) = Groups THEN {GroupList(text)} ELSE {})
  \cup
  {LET before == GroupList(SubSeq(text, 1, i - 1))
       after  == GroupList(SubSeq(text, i + 2, Len(text)))
   IN  before \o [k \in 1 .. Groups - Len(before) - Len(after) |-> 0] \o after :
     i \in Elisions}

\* An address is accepted and read as the one it denotes.  A text that denotes
\* none is refused, but for three kinds: characters after the last group, a
\* run of more digits than a group has, and a third colon after a "::"
\* (tcp_statsdev_filter.c:787-853).
V6TextExact ==
  /\ Denoted # {} => reading # "refused"
  /\ reading = "accepted" =>
       \/ Denoted = {groups}
       \/ /\ Denoted = {}
          /\ \/ p <= Len(text)
             \/ \E i \in 1 .. Len(text) - MaxDigits :
                  \A k \in i .. i + MaxDigits : text[k] \in Digit
             \/ \E i \in 1 .. Len(text) - 2 : \A k \in i .. i + 2 : text[k] = Colon
============================================================================
