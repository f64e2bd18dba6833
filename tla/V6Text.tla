------------------------------- MODULE V6Text -------------------------------
(***************************************************************************)
(* The loop of tsf_parse_ipv6_addr() over the characters of an address,    *)
(* without its prefix length.  A step is one turn of the loop: a "::", or  *)
(* an optional colon and one group.  The code has 8 groups of up to four   *)
(* hexadecimal digits; nothing depends on the numbers.                     *)
(***************************************************************************)
EXTENDS Integers, Sequences, SequencesExt

CONSTANTS
  Groups,     \* groups of an address
  MaxDigits,  \* digits a group may have
  Base,       \* the digits are 0 .. Base - 1
  Colon,      \* the separator
  Other       \* every other character

ASSUME V6Assumption ==
  /\ Groups \in Nat \ {0} /\ MaxDigits \in Nat \ {0} /\ Base \in Nat \ {0}

Digit == 0 .. Base - 1

VARIABLES
  text,          \* the address, a sequence of characters
  p,             \* what is still to be read begins here
  groups,        \* the groups read
  double_colon,  \* how many groups came before the "::", or -1
  reading        \* "reading", "accepted" or "refused"

textVars == <<text, p, groups, double_colon, reading>>

\* tsf_parse_addr() takes a text with a colon to be an IPv6 address.
TextInit(Texts) ==
  /\ text \in {t \in Texts : Contains(t, Colon)}
  /\ p = 1
  /\ groups = <<>>
  /\ double_colon = -1
  /\ reading = "reading"

Colons(i, n) == i + n - 1 <= Len(text) /\ \A k \in i .. i + n - 1 : text[k] = Colon
GroupsLeft == reading = "reading" /\ p <= Len(text) /\ Len(groups) < Groups

DoubleColon ==
  /\ GroupsLeft /\ Colons(p, 2) /\ double_colon = -1
  /\ double_colon' = Len(groups)
  /\ p' = p + 2
  /\ UNCHANGED <<text, groups, reading>>

\* Where a group begins: after the single colon, if there is one.
Start == IF Colons(p, 1) THEN p + 1 ELSE p

\* Where it ends: before a colon or the end of the text, or when it is full.
Stop ==
  CHOOSE e \in Start - 1 .. Start + MaxDigits - 1 :
    /\ e <= Len(text) /\ \A k \in Start .. e : text[k] # Colon
    /\ e = Start + MaxDigits - 1 \/ e = Len(text) \/ text[e + 1] = Colon

\* A single colon before the first group starts no address.
GroupOk ==
  /\ Colons(p, 1) => groups # <<>> \/ double_colon # -1
  /\ Stop >= Start
  /\ \A k \in Start .. Stop : text[k] \in Digit

Value(digits) == FoldLeft(LAMBDA val, c : Base * val + c, 0, digits)

Group ==
  /\ GroupsLeft /\ ~Colons(p, 2) /\ GroupOk
  /\ groups' = Append(groups, Value(SubSeq(text, Start, Stop)))
  /\ p' = Stop + 1
  /\ UNCHANGED <<text, double_colon, reading>>

\* The zeros the "::" stands for, at least one.
ZeroFill == Groups - Len(groups)

\* Mutant: the groups after the "::" are put one place too early.
ExpandEarly ==
  IF double_colon = -1 THEN groups
  ELSE SubSeq(groups, 1, double_colon) \o [i \in 1 .. ZeroFill - 1 |-> 0]
         \o SubSeq(groups, double_colon + 1, Len(groups)) \o <<0>>

Expanded ==
  IF double_colon = -1 THEN groups
  ELSE SubSeq(groups, 1, double_colon) \o [i \in 1 .. ZeroFill |-> 0]
         \o SubSeq(groups, double_colon + 1, Len(groups))

CountOk == IF double_colon = -1 THEN Len(groups) = Groups ELSE Len(groups) < Groups

\* The text has ended, or the array of groups is full; what follows in the
\* text is not looked at.
TextEnds ==
  /\ reading = "reading" /\ ~GroupsLeft /\ CountOk
  /\ reading' = "accepted"
  /\ groups' = Expanded
  /\ UNCHANGED <<text, p, double_colon>>

TextRefused ==
  /\ \/ GroupsLeft /\ Colons(p, 2) /\ double_colon # -1
     \/ GroupsLeft /\ ~Colons(p, 2) /\ ~GroupOk
     \/ reading = "reading" /\ ~GroupsLeft /\ ~CountOk
  /\ reading' = "refused"
  /\ UNCHANGED <<text, p, groups, double_colon>>

TextNext == DoubleColon \/ Group \/ TextEnds \/ TextRefused
============================================================================
