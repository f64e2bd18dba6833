----------------------------- MODULE MCRecords -----------------------------
(***************************************************************************)
(* The buffers for Records: what XNU's pcblist_n and the kernel module     *)
(* write (docs/design/04-macos-portability.md:27-45), cut at every word,   *)
(* and kern.file.                                                          *)
(***************************************************************************)
EXTENDS Records, SequencesExt

CONSTANT TrailerCounts(_)  \* xig_count of the trailer, for a number of sockets

NoSockets(n) == {0, 3}  \* no count that is also a kind
Sockets(n)   == {n}     \* what the kernel writes

HEADER == 24
Tags(g) ==
  LET T(kind, len) == [kind |-> kind, len |-> len, group |-> g]
  IN  [plain   |-> <<T(1, 92), T(2, 20), T(4, 20), T(8, 16), T(16, 124), T(32, 88)>>,
       unknown |-> <<T(1, 92), T(2, 20), T(64, 12), T(4, 20), T(8, 16), T(16, 124), T(32, 88)>>,
       short   |-> <<T(1, 92), T(2, 20), T(4, 20), T(8, 16), T(16, 88), T(32, 12)>>]

\* A list of the given groups, whose first `size` bytes are returned.
Make(groups, style, count, hz, cut) ==
  LET tags == FlattenSeq([g \in DOMAIN groups |-> Tags(g)[style]])
              \o <<[kind |-> count, len |-> HEADER, group |-> 0]>>
      at[k \in DOMAIN tags] ==
        IF k = 1 THEN HEADER ELSE at[k - 1] + RoundUp64(tags[k - 1].len)
      full == at[Len(tags)] + HEADER
      size == Min({cut, full})
  IN  [size |-> size, header |-> HEADER, groups |-> groups, hz |-> hz,
       whole |-> size = full /\ hz > 0 /\ style # "short",
       tag |-> [a \in {at[k] : k \in DOMAIN tags} |->
                  tags[CHOOSE k \in DOMAIN tags : at[k] = a]]]

Group4 == [vflag |-> {4}, state |-> 4]
Group6 == [vflag |-> {6}, state |-> 10]
GroupSeqs ==
  LET G == [vflag : {{4}, {6}, {4, 6}}, state : {0, 10, 11}]
  IN  {<<>>} \cup {<<g>> : g \in G} \cup {<<g, h>> : g, h \in G}
Styles == {"plain", "unknown", "short"}
Beyond == 2000
Cuts == {4 * k : k \in 0 .. 210}

MCLists ==
  UNION {{Make(gs, style, count, hz, Beyond) :
            style \in Styles, count \in TrailerCounts(Len(gs)), hz \in {0, 100}} : gs \in GroupSeqs}
  \cup {Make(<<Group4, Group6>>, style, count, 100, cut) :
          style \in Styles, count \in TrailerCounts(2), cut \in Cuts}

---------------------------------------------------------------------------
Tsr(version, ipv6, af, a, state, timer, cc, stack) ==
  [version |-> version, ipv6 |-> ipv6, af |-> af, so_addr |-> a, state |-> state,
   timer |-> timer, cc |-> cc, stack |-> stack]
Chunks ==
  {Tsr(1, ipv6, af, a, 4, -1, "cubic", "") : ipv6 \in BOOLEAN, af \in {2, 28}, a \in {100, 200}}
  \cup {Tsr(1, FALSE, 2, 100, state, 1, "", "rack") : state \in {0, 10, 11}}
  \cup {Tsr(2, FALSE, 2, 100, 4, 0, "cubic", "")}
ChunkSeqs == {<<>>} \cup {<<c>> : c \in Chunks} \cup {<<c, d>> : c, d \in Chunks}

Entry(type, data, pid, fd) == [type |-> type, data |-> data, pid |-> pid, fd |-> fd]
EntrySeqs ==
  {<<>>, <<Entry(2, 100, 7, 3)>>, <<Entry(2, 100, 7, 3), Entry(2, 100, 8, 4)>>,
   <<Entry(1, 100, 7, 3), Entry(2, 100, 8, 4)>>, <<Entry(2, 200, 7, 3), Entry(2, 100, 8, 3)>>}
XFiles ==
  {[size |-> 56 * Len(es) + rest, stride |-> 56, entries |-> es] :
     es \in EntrySeqs, rest \in {0, 20}}
  \cup {[size |-> size, stride |-> stride, entries |-> <<>>] :
          size \in {4, 80}, stride \in {0, 40, 96}}

MCKldInputs == [chunks : ChunkSeqs, rest : {0, 8}, xfiles : XFiles]
============================================================================
