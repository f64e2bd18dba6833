--------------------------- MODULE RecordsProofs ---------------------------
(***************************************************************************)
(* What the reader and the exporter say of one collection, for every       *)
(* buffer the kernel can return.                                           *)
(*                                                                         *)
(* FreeBSD: while the records are parsed and joined, the i-th raw record   *)
(* is the i-th of the buffer with or without an owner (KldInv); what is    *)
(* written is made of what was collected, and only then (BatchInv).  The   *)
(* names of a field on its way from the kernel to the message are one to   *)
(* one and onto, so what was measured is in one field.                     *)
(*                                                                         *)
(* macOS: behind the cursor each record of the buffer has added what it    *)
(* holds to its own socket, and the cursor is at a record's tag or past    *)
(* the trailer (Progress).  That a list is cut, or has a socket too much,  *)
(* cannot be seen from the records alone: the invariant relates the number *)
(* of sockets begun to the group at the cursor.                            *)
(***************************************************************************)
EXTENDS Records, FiniteSetTheorems, SequenceTheorems, TLAPS

---------------------------------------------------------------------------
(* The names a field has in the kernel's record, in the raw record and in  *)
(* the message.                                                            *)

\* Each field the kernel module measures is the source of one raw field.
LEMMA TsrNameOnto ==
  \A t \in TsrFields : \E f \in KldFields : TsrName(f) = t
<1> SUFFICES ASSUME NEW t \in TsrFields PROVE \E f \in KldFields : TsrName(f) = t
  OBVIOUS
<1>1. CASE t \in RawFields /\ t \notin DOMAIN KldNames
  BY <1>1 DEF KldFields, TsrName
<1>2. CASE \E f \in DOMAIN KldNames : KldNames[f] = t
  BY <1>2 DEF KldFields, TsrName, KldNames, RawFields
<1>3. (t \in RawFields /\ t \notin DOMAIN KldNames) \/ \E f \in DOMAIN KldNames : KldNames[f] = t
  BY DEF KldNames, TsrFields, RawFields
<1> QED
  BY <1>1, <1>2, <1>3

LEMMA TsrNameOneToOne ==
  \A f, g \in KldFields : TsrName(f) = TsrName(g) => f = g
BY DEF KldFields, TsrName, KldNames, RawFields, TsrFields

\* Each raw field is carried by one field of the message.
LEMMA RawNameOnto ==
  \A f \in RawFields : \E p \in ProtoFields : RawName(p) = f
<1> SUFFICES ASSUME NEW f \in RawFields PROVE \E p \in ProtoFields : RawName(p) = f
  OBVIOUS
<1>1. CASE f \in Renamed
  BY <1>1 DEF Renamed, ProtoFields, RawName
<1>2. CASE f \notin Renamed
  <2>1. f \notin DOMAIN ProtoNames
    BY DEF ProtoNames, RawFields
  <2> QED
    BY <1>2, <2>1 DEF ProtoFields, RawName
<1> QED
  BY <1>1, <1>2

LEMMA RawNameOneToOne ==
  \A p, q \in ProtoFields : RawName(p) = RawName(q) => p = q
BY DEF ProtoFields, RawName, ProtoNames, RawFields, Renamed

\* The fields that are not optional in the message keep their name.
LEMMA RequiredNames ==
  Required \subseteq RawFields /\ \A p \in Required : p \in ProtoFields /\ RawName(p) = p
BY DEF Required, RawFields, RawName, ProtoNames, ProtoFields, Renamed

LEMMA KldFieldsRaw ==
  /\ KldFields \subseteq RawFields
  /\ {"ip_version", "pid", "fd"} \cap KldFields = {}
  /\ {"ip_version", "pid", "fd"} \subseteq RawFields
BY DEF KldFields, RawFields, TsrName, KldNames, TsrFields

\* A field of the message is filled from the raw field of its name, or has
\* its default.
LEMMA ProtoFieldIs ==
  ASSUME NEW raw, DOMAIN raw.fields \subseteq RawFields
  PROVE  LET rec == raw_to_proto(raw) IN
         /\ rec.sources = raw.sources
         /\ DOMAIN rec.fields = Required \cup {p \in ProtoFields : RawName(p) \in DOMAIN raw.fields}
         /\ \A p \in ProtoFields : RawName(p) \in DOMAIN raw.fields =>
              rec.fields[p] =
                CASE p = "state"      -> [raw.fields[RawName(p)] EXCEPT !.is = kernel_state_to_proto(@)]
                  [] p = "ip_version" -> [raw.fields[RawName(p)] EXCEPT !.is = ip_version_to_proto(@)]
                  [] OTHER            -> raw.fields[RawName(p)]
         /\ \A p \in Required : RawName(p) \notin DOMAIN raw.fields => rec.fields[p] = Value(0, "", 0)
BY RequiredNames DEF raw_to_proto, Overlay, Default

---------------------------------------------------------------------------
(* One record of the kernel module.                                        *)

\* What the parser copies of the kernel's fields into the raw field f.
Content(tsr, f) ==
  CASE f = "socket_id" -> tsr.so_addr
    [] f = "state"     -> tsr.state
    [] f \in TimerFields -> IF tsr.timer < 0 THEN 0 ELSE tsr.timer
    [] f = "cc_algo"   -> tsr.cc
    [] f = "tcp_stack" -> tsr.stack
    [] f \in {"local_addr", "remote_addr"} -> IF tsr.ipv6 \/ tsr.af = AF_INET6 THEN 16 ELSE 4
    [] OTHER           -> 1
Given(tsr) == {f \in KldFields : f \in NameFields => Content(tsr, f) # ""}

\* raw is the record tsr, the i-th of the buffer, with or without an owner.
FromKernel(raw, tsr, i) ==
  /\ Given(tsr) \cup {"ip_version"} \subseteq DOMAIN raw.fields
  /\ DOMAIN raw.fields \subseteq Given(tsr) \cup {"ip_version", "pid", "fd"}
  /\ \A f \in Given(tsr) : raw.fields[f] = Value(i, TsrName(f), Content(tsr, f))
  /\ \E v \in {4, 6} : raw.fields["ip_version"] = Value(i, "af", v)
  /\ \A f \in {"pid", "fd"} \cap DOMAIN raw.fields : raw.fields[f].field \in {"xf_pid", "xf_fd"}

LEMMA ValueParts ==
  ASSUME NEW from, NEW field, NEW is
  PROVE  /\ Value(from, field, is).from = from
         /\ Value(from, field, is).field = field
         /\ Value(from, field, is).is = is
BY DEF Value

LEMMA ValueExcept ==
  ASSUME NEW from, NEW field, NEW is, NEW other
  PROVE  [Value(from, field, is) EXCEPT !.is = other] = Value(from, field, other)
BY DEF Value

LEMMA ParsedFromKernel ==
  ASSUME NEW tsr, NEW i
  PROVE  LET raw == kld_record_to_raw(tsr, i) IN
         /\ FromKernel(raw, tsr, i)
         /\ DOMAIN raw.fields = Given(tsr) \cup {"ip_version"}
         /\ raw.sources = << 5 >>
BY KldFieldsRaw DEF kld_record_to_raw, FromKernel, Given, Content, Raw, Overlay, Value

\* A family of subsets of a finite set has a member with no other below it.
LEMMA MinimalSubset ==
  ASSUME NEW S, IsFiniteSet(S), NEW T, \A u \in T : u \subseteq S, T # {}
  PROVE  \E m \in T : \A u \in T : ~ (u \subseteq m /\ u # m)
<1>1. T \subseteq FiniteSubsetsOf(S)
  BY FS_Subset DEF FiniteSubsetsOf
<1>2. PICK m \in T : \A u \in T : ~ (<<u, m>> \in StrictSubsetOrdering(S))
  BY <1>1, FS_StrictSubsetOrderingWellFounded, WFMin
<1> QED
  BY <1>2 DEF StrictSubsetOrdering

\* A set of positions has a least one.
LEMMA LeastPosition ==
  ASSUME NEW n \in Nat, NEW S \in SUBSET (1 .. n), S # {}
  PROVE  Min(S) \in S /\ \A y \in S : Min(S) <= y
<1> DEFINE T == {{y \in S : y < x} : x \in S}
<1>1. IsFiniteSet(1 .. n)
  BY FS_Interval
<1>2. PICK m \in T : \A u \in T : ~ (u \subseteq m /\ u # m)
  <2>1. T # {} /\ \A u \in T : u \subseteq 1 .. n
    OBVIOUS
  <2> HIDE DEF T
  <2> QED
    BY <1>1, <2>1, MinimalSubset
<1>3. PICK x \in S : m = {y \in S : y < x}
  OBVIOUS
<1>4. ASSUME NEW z \in S, z < x PROVE FALSE
  <2> DEFINE u == {y \in S : y < z}
  <2>1. u \in T /\ z \in m /\ z \notin u
    BY <1>3, <1>4
  <2>2. ASSUME NEW y \in u PROVE y \in m
    BY <1>3, <1>4
  <2> HIDE DEF T, u
  <2> QED
    BY <1>2, <2>1, <2>2
<1>5. \A y \in S : x <= y
  BY <1>4
<1> QED
  BY <1>5 DEF Min

\* The process of a socket is that of an entry of kern.file for the socket.
LEMMA OwnerIsAnEntry ==
  ASSUME NEW x \in KldInputs, NEW a \in DOMAIN parse_kern_file(x.xfiles)
  PROVE  \E j \in DOMAIN x.xfiles.entries :
           /\ x.xfiles.entries[j].type = DTYPE_SOCKET
           /\ x.xfiles.entries[j].data = a
           /\ parse_kern_file(x.xfiles)[a] = [pid |-> x.xfiles.entries[j].pid,
                                              fd  |-> x.xfiles.entries[j].fd]
<1> DEFINE xf == x.xfiles
           sockets == {j \in Visited(xf) : xf.entries[j].type = DTYPE_SOCKET}
           mine == {j \in sockets : xf.entries[j].data = a}
           j0 == Min(mine)
<1>1. xf \in Xfiles /\ Visited(xf) \subseteq DOMAIN xf.entries
  BY KldAssumption
<1>2. Len(xf.entries) \in Nat /\ Visited(xf) \subseteq 1 .. Len(xf.entries)
  <2>1. PICK E : xf.entries \in Seq(E)
    BY <1>1 DEF Xfiles
  <2>2. Len(xf.entries) \in Nat /\ DOMAIN xf.entries = 1 .. Len(xf.entries)
    BY <2>1, LenProperties
  <2> QED
    BY <1>1, <2>2
<1>3. a \in {xf.entries[j].data : j \in sockets}
  BY DEF parse_kern_file
<1>4. mine \in SUBSET (1 .. Len(xf.entries)) /\ mine # {}
  BY <1>2, <1>3
<1>5. j0 \in mine
  <2> HIDE DEF mine
  <2> QED
    BY <1>2, <1>4, LeastPosition
<1>6. parse_kern_file(xf)[a] = [pid |-> xf.entries[j0].pid, fd |-> xf.entries[j0].fd]
  BY <1>3 DEF parse_kern_file
<1> QED
  BY <1>1, <1>5, <1>6

LEMMA AppendFive ==
  Append(<< 5 >>, 6) = <<5, 6>>
<1>1. << 5 >> \in Seq(Nat) /\ Len(<< 5 >>) = 1 /\ << 5 >>[1] = 5
  OBVIOUS
<1>2. Append(<< 5 >>, 6) \in Seq(Nat) /\ Len(Append(<< 5 >>, 6)) = 2
        /\ Append(<< 5 >>, 6)[1] = 5 /\ Append(<< 5 >>, 6)[2] = 6
  BY <1>1, AppendProperties
<1>3. <<5, 6>> \in Seq(Nat) /\ Len(<<5, 6>>) = 2 /\ <<5, 6>>[1] = 5 /\ <<5, 6>>[2] = 6
  OBVIOUS
<1>4. \A i \in 1 .. Len(<<5, 6>>) : Append(<< 5 >>, 6)[i] = <<5, 6>>[i]
  BY <1>2, <1>3
<1> QED
  BY <1>2, <1>3, <1>4, SeqEqual

\* A record that kern.file names an owner of keeps what it has.
LEMMA JoinedFields ==
  ASSUME NEW plain, NEW tsr, NEW i, NEW map, FromKernel(plain, tsr, i),
         DOMAIN plain.fields = Given(tsr) \cup {"ip_version"}, plain.sources = << 5 >>,
         NEW raw, raw = Enriched(plain, map), NEW a, a = tsr.so_addr
  PROVE  /\ FromKernel(raw, tsr, i)
         /\ a \notin DOMAIN map => raw = plain
         /\ a \in DOMAIN map =>
              /\ raw.sources = <<5, 6>>
              /\ {"pid", "fd"} \subseteq DOMAIN raw.fields
              /\ raw.fields["pid"].is = map[a].pid /\ raw.fields["fd"].is = map[a].fd
<1> DEFINE who == [pid |-> Value(a, "xf_pid", map[a].pid), fd |-> Value(a, "xf_fd", map[a].fd)]
<1>1. "socket_id" \in Given(tsr)
  BY DEF Given, KldFields, TsrName, KldNames, RawFields, TsrFields, NameFields
<1>2. {"pid", "fd"} \cap Given(tsr) = {}
  BY KldFieldsRaw DEF Given
<1>3. plain.fields["socket_id"].is = a
  <2>1. plain.fields["socket_id"] = Value(i, TsrName("socket_id"), Content(tsr, "socket_id"))
    BY <1>1 DEF FromKernel
  <2>2. Content(tsr, "socket_id") = a
    BY DEF Content, TimerFields
  <2> QED
    BY <2>1, <2>2 DEF Value
<1>4. CASE a \notin DOMAIN map
  BY <1>3, <1>4 DEF Enriched
<1>5. CASE a \in DOMAIN map
  <2>1. raw.fields = Overlay(plain.fields, who) /\ raw.sources = Append(plain.sources, 6)
    BY <1>3, <1>5 DEF Enriched, Raw
  <2>2. Append(plain.sources, 6) = <<5, 6>>
    BY AppendFive
  <2>3. DOMAIN who = {"pid", "fd"}
    OBVIOUS
  <2>4. DOMAIN raw.fields = Given(tsr) \cup {"ip_version", "pid", "fd"}
    BY <2>1, <2>3 DEF Overlay
  <2>5. \A f \in DOMAIN plain.fields : raw.fields[f] = plain.fields[f]
    BY <1>2, <2>1, <2>3 DEF Overlay
  <2>6. raw.fields["pid"] = who["pid"] /\ raw.fields["fd"] = who["fd"]
    BY <2>1, <2>3 DEF Overlay
  <2>7. who["pid"] = Value(a, "xf_pid", map[a].pid) /\ who["fd"] = Value(a, "xf_fd", map[a].fd)
    OBVIOUS
  <2> HIDE DEF who
  <2>8. FromKernel(raw, tsr, i)
    BY <2>4, <2>5, <2>6, <2>7 DEF FromKernel, Value
  <2> QED
    BY <1>5, <2>1, <2>2, <2>4, <2>6, <2>7, <2>8 DEF Value
<1> QED
  BY <1>4, <1>5

LEMMA JoinedFromKernel ==
  ASSUME NEW x \in KldInputs, NEW tsr, NEW i
  PROVE  LET raw == Enriched(kld_record_to_raw(tsr, i), parse_kern_file(x.xfiles))
         IN  FromKernel(raw, tsr, i) /\ OneOwner(raw, tsr, x.xfiles)
<1> DEFINE plain == kld_record_to_raw(tsr, i)
           map == parse_kern_file(x.xfiles)
           raw == Enriched(plain, map)
           a == tsr.so_addr
<1>1. /\ FromKernel(plain, tsr, i) /\ DOMAIN plain.fields = Given(tsr) \cup {"ip_version"}
      /\ plain.sources = << 5 >>
  BY ParsedFromKernel
<1>2. {"pid", "fd"} \cap DOMAIN plain.fields = {}
  BY <1>1, KldFieldsRaw DEF Given
<1>3. \A known \in DOMAIN map :
        \E j \in DOMAIN x.xfiles.entries :
           /\ x.xfiles.entries[j].type = DTYPE_SOCKET
           /\ x.xfiles.entries[j].data = known
           /\ map[known] = [pid |-> x.xfiles.entries[j].pid, fd  |-> x.xfiles.entries[j].fd]
  BY OwnerIsAnEntry
<1> HIDE DEF plain, map
<1>4. raw = Enriched(plain, map) /\ a = tsr.so_addr
  OBVIOUS
<1> HIDE DEF raw, a
<1>5. /\ FromKernel(raw, tsr, i)
      /\ a \notin DOMAIN map => raw = plain
      /\ a \in DOMAIN map =>
           /\ raw.sources = <<5, 6>>
           /\ {"pid", "fd"} \subseteq DOMAIN raw.fields
           /\ raw.fields["pid"].is = map[a].pid /\ raw.fields["fd"].is = map[a].fd
  BY <1>1, <1>4, JoinedFields
<1>6. OneOwner(raw, tsr, x.xfiles)
  <2>1. CASE a \notin DOMAIN map
    BY <1>1, <1>2, <1>5, <2>1 DEF OneOwner
  <2>2. CASE a \in DOMAIN map
    BY <1>3, <1>4, <1>5, <2>2 DEF OneOwner
  <2> QED
    BY <2>1, <2>2
<1> QED
  BY <1>5, <1>6 DEF raw, plain, map

LEMMA PlainOwner ==
  ASSUME NEW tsr, NEW i, NEW x
  PROVE  LET raw == kld_record_to_raw(tsr, i)
         IN  FromKernel(raw, tsr, i) /\ OneOwner(raw, tsr, x)
<1> DEFINE raw == kld_record_to_raw(tsr, i)
<1>1. FromKernel(raw, tsr, i) /\ DOMAIN raw.fields = Given(tsr) \cup {"ip_version"}
        /\ raw.sources = << 5 >>
  BY ParsedFromKernel
<1>2. {"pid", "fd"} \cap DOMAIN raw.fields = {}
  BY <1>1, KldFieldsRaw DEF Given
<1> HIDE DEF raw
<1>3. FromKernel(raw, tsr, i) /\ OneOwner(raw, tsr, x)
  BY <1>1, <1>2 DEF OneOwner
<1> QED
  BY <1>3 DEF raw

\* The message names the process the raw record names.
LEMMA OwnerCarried ==
  ASSUME NEW raw, NEW tsr, NEW i, NEW x, FromKernel(raw, tsr, i), OneOwner(raw, tsr, x)
  PROVE  OneOwner(raw_to_proto(raw), tsr, x)
<1> DEFINE rec == raw_to_proto(raw)
<1>1. DOMAIN raw.fields \subseteq RawFields
  BY KldFieldsRaw DEF FromKernel, Given
<1>2. \A p \in {"pid", "fd"} : p \in ProtoFields /\ RawName(p) = p /\ p \notin Required
                                 /\ p # "state" /\ p # "ip_version"
  BY DEF ProtoFields, RawFields, Renamed, ProtoNames, RawName, Required
<1>3. /\ rec.sources = raw.sources
      /\ DOMAIN rec.fields = Required \cup {p \in ProtoFields : RawName(p) \in DOMAIN raw.fields}
  BY <1>1, ProtoFieldIs
<1>4. \A p \in {"pid", "fd"} : p \in DOMAIN rec.fields <=> p \in DOMAIN raw.fields
  BY <1>2, <1>3
<1>5. ASSUME NEW p \in {"pid", "fd"}, p \in DOMAIN raw.fields
      PROVE  rec.fields[p] = raw.fields[p]
  <2>1. p \in ProtoFields /\ RawName(p) = p /\ p # "state" /\ p # "ip_version"
          /\ RawName(p) \in DOMAIN raw.fields
    BY <1>2, <1>5
  <2>2. rec.fields[p] =
          CASE p = "state"      -> [raw.fields[RawName(p)] EXCEPT !.is = kernel_state_to_proto(@)]
            [] p = "ip_version" -> [raw.fields[RawName(p)] EXCEPT !.is = ip_version_to_proto(@)]
            [] OTHER            -> raw.fields[RawName(p)]
    BY <1>1, <2>1, ProtoFieldIs
  <2> QED
    BY <2>1, <2>2
<1> HIDE DEF rec
<1>0. \/ {"pid", "fd"} \cap DOMAIN raw.fields = {} /\ raw.sources = << 5 >>
      \/ /\ {"pid", "fd"} \subseteq DOMAIN raw.fields /\ raw.sources = <<5, 6>>
         /\ \E j \in DOMAIN x.entries :
              /\ x.entries[j].type = DTYPE_SOCKET
              /\ x.entries[j].data = tsr.so_addr
              /\ raw.fields["pid"].is = x.entries[j].pid
              /\ raw.fields["fd"].is = x.entries[j].fd
  BY DEF OneOwner
<1>6. ASSUME {"pid", "fd"} \cap DOMAIN raw.fields = {}, raw.sources = << 5 >>
      PROVE  OneOwner(rec, tsr, x)
  <2>1. {"pid", "fd"} \cap DOMAIN rec.fields = {} /\ rec.sources = << 5 >>
    BY <1>3, <1>4, <1>6
  <2> QED
    BY ONLY <2>1 DEF OneOwner
<1>7. ASSUME {"pid", "fd"} \subseteq DOMAIN raw.fields, raw.sources = <<5, 6>>,
             \E j \in DOMAIN x.entries :
               /\ x.entries[j].type = DTYPE_SOCKET
               /\ x.entries[j].data = tsr.so_addr
               /\ raw.fields["pid"].is = x.entries[j].pid
               /\ raw.fields["fd"].is = x.entries[j].fd
      PROVE  OneOwner(rec, tsr, x)
  <2>1. rec.fields["pid"] = raw.fields["pid"] /\ rec.fields["fd"] = raw.fields["fd"]
    BY <1>5, <1>7
  <2>2. {"pid", "fd"} \subseteq DOMAIN rec.fields /\ rec.sources = <<5, 6>>
    BY <1>3, <1>4, <1>7
  <2>3. \E j \in DOMAIN x.entries :
          /\ x.entries[j].type = DTYPE_SOCKET
          /\ x.entries[j].data = tsr.so_addr
          /\ rec.fields["pid"].is = x.entries[j].pid
          /\ rec.fields["fd"].is = x.entries[j].fd
    BY <1>7, <2>1
  <2> QED
    BY ONLY <2>2, <2>3 DEF OneOwner
<1>8. OneOwner(rec, tsr, x)
  BY <1>0, <1>6, <1>7
<1> QED
  BY <1>8 DEF rec

\* What EachMeasuredOnce says of one record.
MeasuredOnce(rec, tsr, i) ==
  \A t \in TsrFields :
    IF t \in {"cc", "stack"} /\ Measured(tsr, t) = "" THEN FieldsOf(rec, i, t) = {}
    ELSE \E p \in DOMAIN rec.fields :
           FieldsOf(rec, i, t) = {p} /\ rec.fields[p].is = Measured(tsr, t)

\* The raw field f and the kernel's field it is read from hold the same.
LEMMA ContentIsMeasured ==
  ASSUME NEW tsr, NEW f \in KldFields
  PROVE  IF f = "state"
         THEN Measured(tsr, TsrName(f)) = kernel_state_to_proto(Content(tsr, f))
         ELSE Measured(tsr, TsrName(f)) = Content(tsr, f)
<1>1. CASE f = "state"
  BY <1>1 DEF Measured, TsrName, KldNames, Content, TimerFields, kernel_state_to_proto
<1>2. CASE f \in TimerFields
  BY <1>2 DEF Measured, TsrName, KldNames, Content, TimerFields
<1>3. CASE f \in {"socket_id", "cc_algo", "tcp_stack", "local_addr", "remote_addr"}
  BY <1>3 DEF Measured, TsrName, KldNames, Content, TimerFields
<1>4. CASE f \notin {"state", "socket_id", "cc_algo", "tcp_stack", "local_addr", "remote_addr"}
             /\ f \notin TimerFields
  BY <1>4 DEF KldFields, RawFields, TsrFields, Measured, TsrName, KldNames, Content, TimerFields
<1> QED
  BY <1>1, <1>2, <1>3, <1>4

\* Of the fields of a message only one names the field t of the kernel as
\* its origin, the one that carries the raw field t was copied to.
LEMMA MeasuredOnceOf ==
  ASSUME NEW raw, NEW tsr, NEW i \in Nat \ {0}, FromKernel(raw, tsr, i)
  PROVE  MeasuredOnce(raw_to_proto(raw), tsr, i)
<1> DEFINE rec == raw_to_proto(raw)
<1> SUFFICES ASSUME NEW t \in TsrFields
             PROVE  IF t \in {"cc", "stack"} /\ Measured(tsr, t) = "" THEN FieldsOf(rec, i, t) = {}
                    ELSE \E p \in DOMAIN rec.fields :
                           FieldsOf(rec, i, t) = {p} /\ rec.fields[p].is = Measured(tsr, t)
  BY DEF MeasuredOnce
<1>1. PICK f \in KldFields : TsrName(f) = t
  BY TsrNameOnto
<1>2. PICK p \in ProtoFields : RawName(p) = f
  BY <1>1, RawNameOnto, KldFieldsRaw
<1>3. DOMAIN raw.fields \subseteq RawFields
  BY KldFieldsRaw DEF FromKernel, Given
<1>4. /\ DOMAIN rec.fields = Required \cup {q \in ProtoFields : RawName(q) \in DOMAIN raw.fields}
      /\ \A q \in Required : RawName(q) \notin DOMAIN raw.fields => rec.fields[q] = Value(0, "", 0)
  BY <1>3, ProtoFieldIs
<1>5. \A q \in ProtoFields : RawName(q) \in DOMAIN raw.fields =>
        rec.fields[q] =
          CASE q = "state"      -> [raw.fields[RawName(q)] EXCEPT !.is = kernel_state_to_proto(@)]
            [] q = "ip_version" -> [raw.fields[RawName(q)] EXCEPT !.is = ip_version_to_proto(@)]
            [] OTHER            -> raw.fields[RawName(q)]
  BY <1>3, ProtoFieldIs
<1> HIDE DEF rec
\* Where a field of the message that was filled comes from.
<1>6. ASSUME NEW q \in ProtoFields, RawName(q) \in Given(tsr)
      PROVE  /\ rec.fields[q].from = i /\ rec.fields[q].field = TsrName(RawName(q))
             /\ rec.fields[q].is = Measured(tsr, TsrName(RawName(q)))
  <2> DEFINE g == RawName(q)
             v == raw.fields[g]
  <2>1. v = Value(i, TsrName(g), Content(tsr, g)) /\ g \in DOMAIN raw.fields /\ g \in KldFields
    BY <1>6 DEF FromKernel, Given
  <2>2. (q = "state" <=> g = "state") /\ q # "ip_version"
    BY <2>1, KldFieldsRaw DEF RawName, ProtoNames, KldFields, RawFields, ProtoFields, Renamed
  <2> HIDE DEF g, v
  <2>3. CASE q = "state"
    <3>1. rec.fields[q] = [v EXCEPT !.is = kernel_state_to_proto(@)]
      BY <1>5, <2>1, <2>3 DEF g, v
    <3>2. v.is = Content(tsr, g)
      BY <2>1, ValueParts
    <3>3. rec.fields[q] = Value(i, TsrName(g), kernel_state_to_proto(Content(tsr, g)))
      BY <2>1, <3>1, <3>2, ValueParts, ValueExcept
    <3>4. Measured(tsr, TsrName(g)) = kernel_state_to_proto(Content(tsr, g))
      BY <2>1, <2>2, <2>3, ContentIsMeasured
    <3> QED
      BY <3>3, <3>4, ValueParts DEF g
  <2>4. CASE q # "state"
    <3>1. rec.fields[q] = v
      BY <1>5, <2>1, <2>2, <2>4 DEF g, v
    <3>2. Measured(tsr, TsrName(g)) = Content(tsr, g)
      BY <2>1, <2>2, <2>4, ContentIsMeasured
    <3> QED
      BY <2>1, <3>1, <3>2, ValueParts DEF g
  <2> QED
    BY <2>3, <2>4
\* Every other field names no field of the kernel's.
<1>7. ASSUME NEW q \in DOMAIN rec.fields, ~ (q \in ProtoFields /\ RawName(q) \in Given(tsr))
      PROVE  rec.fields[q].field \in {"", "af", "xf_pid", "xf_fd"}
  <2>1. CASE q \in Required /\ RawName(q) \notin DOMAIN raw.fields
    <3>1. rec.fields[q] = Value(0, "", 0)
      BY <1>4, <2>1
    <3>2. Value(0, "", 0).field = ""
      BY DEF Value
    <3>3. rec.fields[q].field = ""
      BY <3>1, <3>2, Zenon
    <3> QED
      BY <3>3
  <2>2. CASE q \in ProtoFields /\ RawName(q) \in DOMAIN raw.fields
    <3>1. RawName(q) \in {"ip_version", "pid", "fd"}
      BY <1>7, <2>2 DEF FromKernel
    <3>2. RawName(q) = q
      BY <3>1 DEF RawName, ProtoNames
    <3>3. CASE q = "ip_version"
      <4>1. PICK v \in {4, 6} : raw.fields[q] = Value(i, "af", v)
        BY <3>3 DEF FromKernel
      <4>2. rec.fields[q] = [raw.fields[q] EXCEPT !.is = ip_version_to_proto(@)]
        BY <1>5, <2>2, <3>2, <3>3
      <4>3. rec.fields[q] = Value(i, "af", ip_version_to_proto(v))
        BY <4>1, <4>2, ValueParts, ValueExcept
      <4>4. rec.fields[q].field = "af"
        BY <4>3, ValueParts
      <4> QED
        BY <4>4
    <3>4. CASE q \in {"pid", "fd"}
      <4>1. rec.fields[q] = raw.fields[q]
        BY <1>5, <2>2, <3>2, <3>4
      <4> QED
        BY <2>2, <3>2, <3>4, <4>1 DEF FromKernel
    <3> QED
      BY <3>1, <3>2, <3>3, <3>4
  <2> QED
    BY <1>4, <2>1, <2>2, RequiredNames
\* So a field that names t is p.
<1>8. ASSUME NEW q \in DOMAIN rec.fields, rec.fields[q].field = t
      PROVE  q = p /\ f \in Given(tsr)
  <2>1. t \notin {"", "af", "xf_pid", "xf_fd"}
    BY DEF TsrFields
  <2>2. q \in ProtoFields /\ RawName(q) \in Given(tsr)
    BY <1>7, <1>8, <2>1
  <2>3. TsrName(RawName(q)) = TsrName(f)
    BY <1>1, <1>6, <1>8, <2>2
  <2>4. RawName(q) = f
    BY <2>2, <2>3, TsrNameOneToOne DEF Given
  <2> QED
    BY <1>2, <2>2, <2>4, RawNameOneToOne
<1>9. f \in Given(tsr) <=> ~ (t \in {"cc", "stack"} /\ Measured(tsr, t) = "")
  <2>1. f \in NameFields <=> t \in {"cc", "stack"}
    BY <1>1 DEF NameFields, TsrName, KldNames, KldFields, RawFields
  <2>2. f \in NameFields => Measured(tsr, t) = Content(tsr, f)
    BY <1>1, ContentIsMeasured DEF NameFields
  <2> QED
    BY <2>1, <2>2 DEF Given
<1>10. CASE f \notin Given(tsr)
  BY <1>8, <1>9, <1>10 DEF FieldsOf
<1>11. CASE f \in Given(tsr)
  <2>1. p \in DOMAIN rec.fields
    BY <1>2, <1>4, <1>11 DEF FromKernel
  <2>2. rec.fields[p].from = i /\ rec.fields[p].field = t /\ rec.fields[p].is = Measured(tsr, t)
    BY <1>1, <1>2, <1>6, <1>11
  <2>3. FieldsOf(rec, i, t) = {p}
    BY <1>8, <2>1, <2>2 DEF FieldsOf
  <2> QED
    BY <1>9, <1>11, <2>1, <2>2, <2>3
<1> QED
  BY <1>9, <1>10, <1>11

---------------------------------------------------------------------------
(* The read of the kernel module: what is in raws at each step.            *)

Plain(x, i)  == kld_record_to_raw(x.chunks[i], i)
Joined(x, i) == Enriched(Plain(x, i), parse_kern_file(x.xfiles))
RawsOf(x)    == {Plain(x, i) : i \in DOMAIN x.chunks} \cup {Joined(x, i) : i \in DOMAIN x.chunks}

\* The first n records of the buffer are of the version the parser knows.
Understood(x, n) == \A i \in 1 .. n : x.chunks[i].version = TCP_STATS_VERSION

KldInv ==
  /\ input \in KldInputs
  /\ next \in 1 .. Len(input.chunks) + 1
  /\ raws \in Seq(RawsOf(input))
  /\ result = "start" => next = 1 /\ raws = <<>>
  /\ result \in {"loop", "join"} =>
       /\ input.rest = 0 /\ Understood(input, next - 1)
       /\ Len(raws) = next - 1 /\ \A i \in 1 .. next - 1 : raws[i] = Plain(input, i)
  /\ result = "join" => next = Len(input.chunks) + 1
  /\ result = "ok" =>
       /\ input.rest = 0 /\ Understood(input, Len(input.chunks))
       /\ Len(raws) = Len(input.chunks)
       /\ \A i \in 1 .. Len(input.chunks) : raws[i] \in {Plain(input, i), Joined(input, i)}

\* What is written is made of what was collected, and only then.
BatchInv ==
  batch # NoBatch =>
    IsOk /\ batch = build_batch(Collected) /\ snapshot = collect(Collected)

LEMMA ChunksLength ==
  ASSUME NEW x \in KldInputs
  PROVE  Len(x.chunks) \in Nat /\ DOMAIN x.chunks = 1 .. Len(x.chunks)
BY KldAssumption, LenProperties

LEMMA KldInitInv == KldInit => KldInv
<1> SUFFICES ASSUME KldInit PROVE KldInv
  OBVIOUS
<1>1. input \in KldInputs /\ next = 1 /\ raws = <<>> /\ result = "start"
  BY DEF KldInit
<1>2. raws \in Seq(RawsOf(input))
  BY <1>1
<1> QED
  BY <1>1, <1>2, ChunksLength DEF KldInv

LEMMA CheckSizeInv == KldInv /\ CheckSize => KldInv'
<1> SUFFICES ASSUME KldInv, CheckSize PROVE KldInv'
  OBVIOUS
<1>1. result' = (IF input.rest = 0 THEN "loop" ELSE "parse error")
        /\ input' = input /\ next' = next /\ raws' = raws /\ next = 1 /\ raws = <<>>
  BY DEF KldInv, CheckSize
<1>2. next - 1 = 0 /\ Understood(input, 0)
  <2>1. next = 1
    BY <1>1
  <2>2. 1 .. 0 = {}
    OBVIOUS
  <2>3. Understood(input, 0)
    BY <2>2 DEF Understood
  <2> QED
    BY <2>1, <2>3
<1>3. Len(raws) = 0
  BY <1>1, EmptySeq DEF KldInv
<1>4. CASE input.rest = 0
  BY <1>1, <1>2, <1>3, <1>4 DEF KldInv
<1>5. CASE input.rest # 0
  BY <1>1, <1>5 DEF KldInv
<1> QED
  BY <1>4, <1>5

LEMMA TakeRecordInv == KldInv /\ TakeRecord => KldInv'
<1> SUFFICES ASSUME KldInv, TakeRecord PROVE KldInv'
  OBVIOUS
<1>1. input' = input
  BY DEF TakeRecord
<1>2. next \in DOMAIN input.chunks /\ Len(input.chunks) \in Nat /\ next \in Nat
  <2>1. Len(input.chunks) \in Nat /\ DOMAIN input.chunks = 1 .. Len(input.chunks)
    BY ChunksLength DEF KldInv
  <2>2. next \in 1 .. Len(input.chunks) + 1 /\ next <= Len(input.chunks)
    BY DEF KldInv, TakeRecord
  <2> QED
    BY <2>1, <2>2
<1>3. CASE input.chunks[next].version # TCP_STATS_VERSION
  <2>1. result' = "version mismatch" /\ raws' = <<>> /\ next' = next
    BY <1>3 DEF TakeRecord
  <2>2. raws' \in Seq(RawsOf(input))
    BY <2>1, EmptySeq
  <2> QED
    BY <1>1, <2>1, <2>2 DEF KldInv
<1>4. CASE input.chunks[next].version = TCP_STATS_VERSION
  <2>1. result = "loop" /\ result' = result /\ raws' = Append(raws, Plain(input, next)) /\ next' = next + 1
    BY <1>4 DEF TakeRecord, Plain
  <2>2. Plain(input, next) \in RawsOf(input)
    BY <1>2 DEF RawsOf
  <2>3. raws \in Seq(RawsOf(input)) /\ Len(raws) = next - 1 /\ next \in Nat
          /\ \A i \in 1 .. next - 1 : raws[i] = Plain(input, i)
    BY <1>2, <2>1 DEF KldInv
  <2> HIDE DEF RawsOf
  <2>4. raws' \in Seq(RawsOf(input)) /\ Len(raws') = next /\ \A i \in 1 .. next : raws'[i] = Plain(input, i)
    BY <2>1, <2>2, <2>3, AppendProperties
  <2>6. input.rest = 0 /\ Understood(input, next - 1) /\ input \in KldInputs
    BY <2>1 DEF KldInv
  <2>7. Understood(input, next)
    BY <1>1, <1>2, <1>4, <2>6 DEF Understood
  <2>8. next' \in 1 .. Len(input.chunks) + 1 /\ next' - 1 = next
    BY <1>2, <2>1, ChunksLength, <2>6
  <2> QED
    BY <1>1, <2>1, <2>4, <2>6, <2>7, <2>8 DEF KldInv
<1> QED
  BY <1>3, <1>4

LEMMA ParsedInv == KldInv /\ Parsed => KldInv'
<1> SUFFICES ASSUME KldInv, Parsed PROVE KldInv'
  OBVIOUS
<1>1. input' = input /\ next' = next /\ raws' = raws /\ result = "loop" /\ result' = "join"
        /\ next > Len(input.chunks)
  BY DEF Parsed
<1>2. next = Len(input.chunks) + 1
  BY <1>1, ChunksLength DEF KldInv
<1> QED
  BY <1>1, <1>2 DEF KldInv

LEMMA EnrichInv == KldInv /\ Enrich => KldInv'
<1> SUFFICES ASSUME KldInv, Enrich PROVE KldInv'
  OBVIOUS
<1> DEFINE n == Len(input.chunks)
<1>1. input' = input /\ next' = next /\ result = "join" /\ result' = "ok"
  BY DEF Enrich
<1>2. n \in Nat /\ DOMAIN input.chunks = 1 .. n
  BY ChunksLength DEF KldInv
<1>3. /\ input.rest = 0 /\ Understood(input, n) /\ raws \in Seq(RawsOf(input)) /\ Len(raws) = n
      /\ \A i \in 1 .. n : raws[i] = Plain(input, i)
  BY <1>1, <1>2 DEF KldInv
<1>4. raws' \in Seq(RawsOf(input)) /\ Len(raws') = n /\ \A i \in 1 .. n : raws'[i] \in {Plain(input, i), Joined(input, i)}
  <2>1. CASE raws' = raws
    BY <1>3, <2>1
  <2>2. CASE raws' = [i \in DOMAIN raws |-> Enriched(raws[i], parse_kern_file(input.xfiles))]
    <3>1. DOMAIN raws = 1 .. n
      BY <1>3, LenProperties
    <3>2. DOMAIN raws' = 1 .. n /\ \A i \in 1 .. n : raws'[i] = Joined(input, i)
      BY <1>3, <2>2, <3>1 DEF Joined
    <3>3. \A i \in 1 .. n : Joined(input, i) \in RawsOf(input)
      BY <1>2 DEF RawsOf
    <3>4. raws' = [i \in 1 .. n |-> raws'[i]]
      BY <2>2, <3>1
    <3> HIDE DEF RawsOf
    <3>5. raws' \in Seq(RawsOf(input)) /\ Len(raws') = n
      BY <1>2, <3>2, <3>3, <3>4
    <3> QED
      BY <3>2, <3>5
  <2> QED
    BY <2>1, <2>2 DEF Enrich
<1> QED
  BY <1>1, <1>2, <1>3, <1>4 DEF KldInv

LEMMA KldNextInv == KldInv /\ [KldNext]_kldVars => KldInv'
<1>1. KldInv /\ UNCHANGED kldVars => KldInv'
  BY DEF KldInv, kldVars
<1> QED
  BY <1>1, CheckSizeInv, TakeRecordInv, ParsedInv, EnrichInv DEF KldNext

---------------------------------------------------------------------------
(* The records of the macOS parser.                                        *)

MacValues == [from : Nat, field : MacFields, is : Int]
MacRecs   == UNION {[F -> MacValues] : F \in SUBSET MacFields}
MacRaws   == {Raw(rec, << 1 >>) : rec \in MacRecs}

LEMMA MacRecIs ==
  \A rec : rec \in MacRecs <=>
    rec = [f \in DOMAIN rec |-> rec[f]] /\ DOMAIN rec \subseteq MacFields /\ \A f \in DOMAIN rec : rec[f] \in MacValues
<1>1. ASSUME NEW rec, rec \in MacRecs
      PROVE  rec = [f \in DOMAIN rec |-> rec[f]] /\ DOMAIN rec \subseteq MacFields /\ \A f \in DOMAIN rec : rec[f] \in MacValues
  BY <1>1 DEF MacRecs
<1>2. ASSUME NEW rec, rec = [f \in DOMAIN rec |-> rec[f]], DOMAIN rec \subseteq MacFields,
             \A f \in DOMAIN rec : rec[f] \in MacValues
      PROVE  rec \in MacRecs
  <2>1. rec \in [DOMAIN rec -> MacValues]
    BY <1>2
  <2> QED
    BY <1>2, <2>1 DEF MacRecs
<1> QED
  BY <1>1, <1>2

LEMMA LayoutNames ==
  /\ DOMAIN XsocketLayout = {"socket_id", "uid", "pid", "effective_pid"}
  /\ DOMAIN XsockbufLayout = {"cc", "hiwat"}
  /\ DOMAIN XinpcbLayout = {"remote_port", "local_port", "inp_gencnt"}
  /\ DOMAIN In4Layout = {"remote_addr", "local_addr"}
  /\ DOMAIN In6Layout = {"remote_addr", "local_addr"}
  /\ DOMAIN XtcpcbLayout =
       {"state", "rxt_shift", "tcp_flags", "snd_cwnd", "snd_ssthresh", "maxseg", "rtt_us",
        "rttvar_us", "snd_nxt", "snd_una", "snd_max", "rcv_nxt", "rcv_adv", "snd_wnd", "rcv_wnd",
        "snd_wscale", "rcv_wscale", "dupacks", "start_time_secs", "rto_us"}
BY DEF XsocketLayout, XinpcbLayout, In4Layout, In6Layout, XtcpcbLayout, XsockbufLayout

\* The names of the fields of each layout, as a set.
LEMMA LayoutFields ==
  /\ DOMAIN XsocketLayout \subseteq MacFields /\ DOMAIN XinpcbLayout \subseteq MacFields
  /\ DOMAIN In4Layout \subseteq MacFields /\ DOMAIN In6Layout \subseteq MacFields
  /\ DOMAIN XtcpcbLayout \subseteq MacFields
  /\ {"rcv_buf_used", "rcv_buf_hiwat", "snd_buf_used", "snd_buf_hiwat", "ip_version"} \subseteq MacFields
  /\ DOMAIN In4Layout = DOMAIN In6Layout
  /\ DOMAIN XsockbufLayout = {"cc", "hiwat"}
  /\ "state" \notin DOMAIN XsocketLayout \cup DOMAIN XinpcbLayout \cup DOMAIN In4Layout
       \cup {"ip_version", "snd_buf_used", "snd_buf_hiwat", "rcv_buf_used", "rcv_buf_hiwat"}
BY LayoutNames DEF MacFields

LEMMA MacFieldsRaw == MacFields \subseteq RawFields
BY LayoutNames DEF MacFields, RawFields

---------------------------------------------------------------------------
(* What the record at an offset adds to its socket.                        *)

GroupAt(l, a) == IF l.tag[a].group = 0 THEN [vflag |-> {}, state |-> 0] ELSE l.groups[l.tag[a].group]
AddedAt(l, a) ==
  LET t == l.tag[a]
      n == t.len - TAG_HEADER_SIZE
  IN  CASE t.kind = XSO_SOCKET -> parse_xsocket_n(t.group, n)
        [] t.kind = XSO_RCVBUF -> parse_rcvbuf(t.group, n)
        [] t.kind = XSO_SNDBUF -> parse_sndbuf(t.group, n)
        [] t.kind = XSO_INPCB  -> parse_xinpcb_n(t.group, n, GroupAt(l, a).vflag)
        [] t.kind = XSO_TCPCB  -> parse_xtcpcb_n(t.group, n, GroupAt(l, a).state, l.hz)
        [] OTHER -> NoFields

\* Every field of rec was read from group g; the state is the group's.
OfGroup(l, rec, g) ==
  \A f \in DOMAIN rec : rec[f].from = g /\ (f = "state" => rec[f].is = l.groups[g].state)

LEMMA ReadIs ==
  ASSUME NEW g \in Nat, NEW F \in SUBSET MacFields, "state" \notin F, NEW l
  PROVE  Read(g, F) \in MacRecs /\ DOMAIN Read(g, F) = F /\ OfGroup(l, Read(g, F), g)
BY MacRecIs DEF Read, OfGroup, Value, MacValues

LEMMA NoFieldsIs ==
  ASSUME NEW g, NEW l
  PROVE  NoFields \in MacRecs /\ DOMAIN NoFields = {} /\ OfGroup(l, NoFields, g)
BY MacRecIs DEF NoFields, OfGroup

LEMMA OverlayIs ==
  ASSUME NEW r \in MacRecs, NEW s \in MacRecs
  PROVE  /\ Overlay(r, s) \in MacRecs /\ DOMAIN Overlay(r, s) = DOMAIN r \cup DOMAIN s
         /\ \A l, g : OfGroup(l, r, g) /\ OfGroup(l, s, g) => OfGroup(l, Overlay(r, s), g)
<1>1. DOMAIN r \subseteq MacFields /\ DOMAIN s \subseteq MacFields
        /\ (\A f \in DOMAIN r : r[f] \in MacValues) /\ (\A f \in DOMAIN s : s[f] \in MacValues)
  BY MacRecIs
<1> DEFINE o == Overlay(r, s)
<1>2. /\ o = [x \in DOMAIN r \cup DOMAIN s |-> IF x \in DOMAIN s THEN s[x] ELSE r[x]]
      /\ DOMAIN o = DOMAIN r \cup DOMAIN s
      /\ \A f \in DOMAIN o : o[f] = IF f \in DOMAIN s THEN s[f] ELSE r[f]
  BY DEF Overlay
<1>3. o = [f \in DOMAIN o |-> o[f]]
  BY <1>2
<1> HIDE DEF o
<1>4. o \in MacRecs
  BY <1>1, <1>2, <1>3, MacRecIs
<1>5. ASSUME NEW l, NEW g, OfGroup(l, r, g), OfGroup(l, s, g) PROVE OfGroup(l, o, g)
  BY <1>2, <1>5 DEF OfGroup
<1> QED
  BY <1>2, <1>4, <1>5 DEF o

LEMMA ListIs ==
  ASSUME NEW l \in Lists
  PROVE  /\ IsList(l) /\ AsWritten(l) /\ (l.whole => HasAll(l))
         /\ Len(l.groups) \in Nat /\ DOMAIN l.groups = 1 .. Len(l.groups)
         /\ \A g \in DOMAIN l.groups : l.groups[g].vflag \in SUBSET {4, 6} /\ l.groups[g].state \in Int
<1>1. IsList(l) /\ AsWritten(l) /\ (l.whole => HasAll(l))
  BY PcblistAssumption
<1>2. l.groups \in Seq([vflag : SUBSET {4, 6}, state : Int])
  BY <1>1 DEF IsList
<1> DEFINE G == [vflag : SUBSET {4, 6}, state : Int]
           s == l.groups
<1>3. Len(s) \in Nat /\ DOMAIN s = 1 .. Len(s) /\ \A g \in 1 .. Len(s) : s[g] \in G
  <2> HIDE DEF G, s
  <2>1. s \in Seq(G)
    BY <1>2 DEF G, s
  <2> QED
    BY <2>1, LenProperties, ElementOfSeq
<1> QED
  BY <1>1, <1>3

LEMMA WithinLayout ==
  \A layout, n : Within(layout, n) \subseteq DOMAIN layout
BY DEF Within

\* What a tag adds is a record of its group.
LEMMA AddedIs ==
  ASSUME NEW l \in Lists, NEW a \in DOMAIN l.tag
  PROVE  /\ AddedAt(l, a) \in MacRecs
         /\ l.tag[a].group # 0 => OfGroup(l, AddedAt(l, a), l.tag[a].group)
<1> DEFINE g == l.tag[a].group
           n == l.tag[a].len - TAG_HEADER_SIZE
<1>1. g \in Nat /\ g \in 0 .. Len(l.groups) /\ GroupAt(l, a).state \in Int
  <2>1. g \in 0 .. Len(l.groups)
    BY ListIs DEF IsList
  <2> HIDE DEF g
  <2>2. CASE g = 0
    BY <2>2 DEF GroupAt, g
  <2>3. CASE g # 0
    <3>1. g \in DOMAIN l.groups
      BY <2>1, <2>3, ListIs
    <3> QED
      BY <2>1, <2>3, <3>1, ListIs DEF GroupAt, g
  <2> QED
    BY <2>1, <2>2, <2>3
<1>2. g # 0 => GroupAt(l, a).state = l.groups[g].state
  BY DEF GroupAt
<1> DEFINE Good(r) == r \in MacRecs /\ (g # 0 => OfGroup(l, r, g))
<1>3. \A F \in SUBSET MacFields : "state" \notin F => Good(Read(g, F))
  BY <1>1, ReadIs
<1>4. \A v : Good(parse_xsocket_n(g, n)) /\ Good(parse_rcvbuf(g, n)) /\ Good(parse_sndbuf(g, n))
  <2>1. Within(XsocketLayout, n) \in SUBSET MacFields /\ "state" \notin Within(XsocketLayout, n)
    BY WithinLayout, LayoutFields
  <2>2. \A f \in Within(XsockbufLayout, n) : f \in {"cc", "hiwat"}
    BY WithinLayout, LayoutFields
  <2>3. {IF f = "cc" THEN "rcv_buf_used" ELSE "rcv_buf_hiwat" : f \in Within(XsockbufLayout, n)}
          \subseteq {"rcv_buf_used", "rcv_buf_hiwat"}
    OBVIOUS
  <2>4. {IF f = "cc" THEN "snd_buf_used" ELSE "snd_buf_hiwat" : f \in Within(XsockbufLayout, n)}
          \subseteq {"snd_buf_used", "snd_buf_hiwat"}
    OBVIOUS
  <2>5. /\ {"rcv_buf_used", "rcv_buf_hiwat"} \in SUBSET MacFields
        /\ {"snd_buf_used", "snd_buf_hiwat"} \in SUBSET MacFields
    BY LayoutFields
  <2> HIDE DEF g, n, Good
  <2> QED
    BY <1>3, <2>1, <2>3, <2>4, <2>5 DEF parse_xsocket_n, parse_rcvbuf, parse_sndbuf
<1>5. Good(parse_xinpcb_n(g, n, GroupAt(l, a).vflag))
  <2> DEFINE vflag == GroupAt(l, a).vflag
             version == IF 6 \in vflag THEN 6 ELSE 4
             layout  == IF version = 6 THEN In6Layout ELSE In4Layout
             family  == [f \in {"ip_version"} |-> Value(g, f, version)]
             address == Overlay(Read(g, Within(layout, n)), family)
             first   == IF vflag = {} THEN NoFields ELSE address
  <2>1. Within(layout, n) \in SUBSET MacFields /\ "state" \notin Within(layout, n)
    BY WithinLayout, LayoutFields
  <2>2. Within(XinpcbLayout, n) \in SUBSET MacFields /\ "state" \notin Within(XinpcbLayout, n)
    BY WithinLayout, LayoutFields
  <2>3. family \in MacRecs /\ OfGroup(l, family, g)
    <3>1. "ip_version" \in MacFields /\ version \in Int
      BY LayoutFields
    <3> HIDE DEF version, g
    <3>2. family["ip_version"] \in MacValues /\ family["ip_version"].from = g
      BY <1>1, <3>1 DEF Value, MacValues, g
    <3> QED
      BY <3>1, <3>2, MacRecIs DEF OfGroup
  <2> HIDE DEF g, n, layout, family
  <2>4. Good(address)
    BY <1>3, <2>1, <2>3, OverlayIs
  <2> HIDE DEF address
  <2>5. Good(first)
    BY <2>4, NoFieldsIs
  <2>6. Good(NoFields)
    BY NoFieldsIs
  <2>7. Good(Read(g, Within(XinpcbLayout, n)))
    BY <1>3, <2>2
  <2> HIDE DEF first
  <2>8. Good(Overlay(first, Read(g, Within(XinpcbLayout, n))))
    BY <2>5, <2>7, OverlayIs
  <2> HIDE DEF Good
  <2> QED
    BY <2>6, <2>8 DEF parse_xinpcb_n, first, address, family, layout
<1>6. Good(parse_xtcpcb_n(g, n, GroupAt(l, a).state, l.hz))
  <2> DEFINE F == Within(XtcpcbLayout, n) \ IF l.hz > 0 THEN {} ELSE {"rtt_us", "rttvar_us", "rto_us"}
             r == parse_xtcpcb_n(g, n, GroupAt(l, a).state, l.hz)
  <2>1. F \subseteq MacFields
    BY WithinLayout, LayoutFields
  <2> DEFINE is(f) == IF f = "state" THEN GroupAt(l, a).state ELSE 1
  <2>2. r = [f \in F |-> Value(g, f, is(f))]
    BY DEF parse_xtcpcb_n
  <2> HIDE DEF r, F, g
  <2>3. \A f \in F : is(f) \in Int
    BY <1>1
  <2>4. \A f \in F : r[f] \in MacValues /\ r[f].from = g /\ r[f].is = is(f)
    BY <1>1, <2>1, <2>2, <2>3 DEF MacValues, Value, g
  <2>5. r \in MacRecs
    BY <2>1, <2>2, <2>4, MacRecIs
  <2>6. g # 0 => OfGroup(l, r, g)
    BY <1>2, <2>2, <2>4 DEF OfGroup, g
  <2> QED
    BY <2>5, <2>6 DEF r
<1>7. Good(NoFields)
  BY NoFieldsIs
<1> HIDE DEF Good
<1>8. Good(AddedAt(l, a))
  BY <1>4, <1>5, <1>6, <1>7 DEF AddedAt
<1> QED
  BY <1>8 DEF Good

\* ... by its kind.
LEMMA AddedByKind ==
  ASSUME NEW l, NEW a, NEW t, t = l.tag[a], NEW n, n = t.len - TAG_HEADER_SIZE
  PROVE  /\ t.kind = XSO_SOCKET => AddedAt(l, a) = parse_xsocket_n(t.group, n)
         /\ t.kind = XSO_RCVBUF => AddedAt(l, a) = parse_rcvbuf(t.group, n)
         /\ t.kind = XSO_SNDBUF => AddedAt(l, a) = parse_sndbuf(t.group, n)
         /\ t.kind = XSO_INPCB => AddedAt(l, a) = parse_xinpcb_n(t.group, n, GroupAt(l, a).vflag)
         /\ t.kind = XSO_TCPCB => AddedAt(l, a) = parse_xtcpcb_n(t.group, n, GroupAt(l, a).state, l.hz)
         /\ t.kind \notin DOMAIN LayoutsOf => AddedAt(l, a) = NoFields
<1>0. DOMAIN LayoutsOf = {XSO_SOCKET, XSO_RCVBUF, XSO_SNDBUF, XSO_INPCB, XSO_TCPCB}
  BY DEF LayoutsOf
<1>1. CASE t.kind = XSO_SOCKET
  BY <1>0, <1>1 DEF AddedAt, XSO_SOCKET, XSO_RCVBUF, XSO_SNDBUF, XSO_INPCB, XSO_TCPCB
<1>2. CASE t.kind = XSO_RCVBUF
  BY <1>0, <1>2 DEF AddedAt, XSO_SOCKET, XSO_RCVBUF, XSO_SNDBUF, XSO_INPCB, XSO_TCPCB
<1>3. CASE t.kind = XSO_SNDBUF
  BY <1>0, <1>3 DEF AddedAt, XSO_SOCKET, XSO_RCVBUF, XSO_SNDBUF, XSO_INPCB, XSO_TCPCB
<1>4. CASE t.kind = XSO_INPCB
  BY <1>0, <1>4 DEF AddedAt, XSO_SOCKET, XSO_RCVBUF, XSO_SNDBUF, XSO_INPCB, XSO_TCPCB
<1>5. CASE t.kind = XSO_TCPCB
  BY <1>0, <1>5 DEF AddedAt, XSO_SOCKET, XSO_RCVBUF, XSO_SNDBUF, XSO_INPCB, XSO_TCPCB
<1>6. CASE t.kind \notin DOMAIN LayoutsOf
  BY <1>0, <1>6 DEF AddedAt, XSO_SOCKET, XSO_RCVBUF, XSO_SNDBUF, XSO_INPCB, XSO_TCPCB
<1> QED
  BY <1>0, <1>1, <1>2, <1>3, <1>4, <1>5, <1>6

\* A list that is all there has every field of every group.
LEMMA EveryFieldAdded ==
  ASSUME NEW l \in Lists, HasAll(l), NEW g \in DOMAIN l.groups, NEW f \in MacFields
  PROVE  \E a \in DOMAIN l.tag : l.tag[a].group = g /\ f \in DOMAIN AddedAt(l, a)
<1>1. l.groups[g].vflag # {} /\ l.hz > 0 /\ g # 0
  BY ListIs DEF HasAll
<1>2. ASSUME NEW k \in DOMAIN LayoutsOf
      PROVE  \E a \in DOMAIN l.tag : /\ l.tag[a].group = g /\ l.tag[a].kind = k
               /\ \A y \in LayoutsOf[k] : Within(y, l.tag[a].len - TAG_HEADER_SIZE) = DOMAIN y
  BY DEF HasAll
<1>3. DOMAIN LayoutsOf = {XSO_SOCKET, XSO_RCVBUF, XSO_SNDBUF, XSO_INPCB, XSO_TCPCB}
        /\ LayoutsOf[XSO_SOCKET] = {XsocketLayout} /\ LayoutsOf[XSO_RCVBUF] = {XsockbufLayout}
        /\ LayoutsOf[XSO_SNDBUF] = {XsockbufLayout} /\ LayoutsOf[XSO_TCPCB] = {XtcpcbLayout}
        /\ LayoutsOf[XSO_INPCB] = {XinpcbLayout, In4Layout, In6Layout}
  BY DEF LayoutsOf, XSO_SOCKET, XSO_RCVBUF, XSO_SNDBUF, XSO_INPCB, XSO_TCPCB
<1>4. CASE f \in DOMAIN XsocketLayout
  <2>1. PICK a \in DOMAIN l.tag : /\ l.tag[a].group = g /\ l.tag[a].kind = XSO_SOCKET
               /\ Within(XsocketLayout, l.tag[a].len - TAG_HEADER_SIZE) = DOMAIN XsocketLayout
    BY <1>2, <1>3
  <2>2. DOMAIN AddedAt(l, a) = DOMAIN XsocketLayout
    BY <2>1, AddedByKind DEF parse_xsocket_n, Read
  <2> QED
    BY <1>4, <2>1, <2>2
<1>5. CASE f \in {"rcv_buf_used", "rcv_buf_hiwat"}
  <2>1. PICK a \in DOMAIN l.tag : /\ l.tag[a].group = g /\ l.tag[a].kind = XSO_RCVBUF
               /\ Within(XsockbufLayout, l.tag[a].len - TAG_HEADER_SIZE) = DOMAIN XsockbufLayout
    BY <1>2, <1>3
  <2>2. DOMAIN AddedAt(l, a) = {IF c = "cc" THEN "rcv_buf_used" ELSE "rcv_buf_hiwat" : c \in {"cc", "hiwat"}}
    <3>1. AddedAt(l, a) = parse_rcvbuf(g, l.tag[a].len - TAG_HEADER_SIZE)
      BY <2>1, AddedByKind
    <3>2. Within(XsockbufLayout, l.tag[a].len - TAG_HEADER_SIZE) = {"cc", "hiwat"}
      BY <2>1, LayoutFields
    <3> QED
      BY <3>1, <3>2 DEF parse_rcvbuf, Read
  <2> QED
    BY <1>5, <2>1, <2>2
<1>6. CASE f \in {"snd_buf_used", "snd_buf_hiwat"}
  <2>1. PICK a \in DOMAIN l.tag : /\ l.tag[a].group = g /\ l.tag[a].kind = XSO_SNDBUF
               /\ Within(XsockbufLayout, l.tag[a].len - TAG_HEADER_SIZE) = DOMAIN XsockbufLayout
    BY <1>2, <1>3
  <2>2. DOMAIN AddedAt(l, a) = {IF c = "cc" THEN "snd_buf_used" ELSE "snd_buf_hiwat" : c \in {"cc", "hiwat"}}
    <3>1. AddedAt(l, a) = parse_sndbuf(g, l.tag[a].len - TAG_HEADER_SIZE)
      BY <2>1, AddedByKind
    <3>2. Within(XsockbufLayout, l.tag[a].len - TAG_HEADER_SIZE) = {"cc", "hiwat"}
      BY <2>1, LayoutFields
    <3> QED
      BY <3>1, <3>2 DEF parse_sndbuf, Read
  <2> QED
    BY <1>6, <2>1, <2>2
<1>7. CASE f \in DOMAIN XinpcbLayout \cup DOMAIN In4Layout \cup {"ip_version"}
  <2>1. PICK a \in DOMAIN l.tag : /\ l.tag[a].group = g /\ l.tag[a].kind = XSO_INPCB
          /\ \A y \in {XinpcbLayout, In4Layout, In6Layout} :
               Within(y, l.tag[a].len - TAG_HEADER_SIZE) = DOMAIN y
    BY <1>2, <1>3
  <2> DEFINE n == l.tag[a].len - TAG_HEADER_SIZE
             vflag == l.groups[g].vflag
             version == IF 6 \in vflag THEN 6 ELSE 4
             layout  == IF version = 6 THEN In6Layout ELSE In4Layout
             family  == [x \in {"ip_version"} |-> Value(g, x, version)]
             address == Overlay(Read(g, Within(layout, n)), family)
  <2>2. AddedAt(l, a) = parse_xinpcb_n(g, n, vflag)
    <3>1. GroupAt(l, a).vflag = vflag
      BY <1>1, <2>1 DEF GroupAt
    <3> QED
      BY <2>1, <3>1, AddedByKind
  <2>3. n > INP_VFLAG_OFFSET
    <3>1. "inp_gencnt" \in Within(XinpcbLayout, n)
      BY <2>1, LayoutNames
    <3>2. n > XinpcbLayout["inp_gencnt"][1] + XinpcbLayout["inp_gencnt"][2]
      BY <3>1 DEF Within
    <3>3. XinpcbLayout["inp_gencnt"][1] = 104 /\ XinpcbLayout["inp_gencnt"][2] = 8
      BY DEF XinpcbLayout
    <3>4. n \in Int
      BY ListIs DEF IsList, TAG_HEADER_SIZE
    <3> HIDE DEF n
    <3> QED
      BY <3>2, <3>3, <3>4 DEF INP_VFLAG_OFFSET
  <2>4. parse_xinpcb_n(g, n, vflag) = Overlay(address, Read(g, Within(XinpcbLayout, n)))
    <3>1. ~ (n <= INP_VFLAG_OFFSET)
      <4>1. n \in Int
        BY ListIs DEF IsList, TAG_HEADER_SIZE
      <4> HIDE DEF n
      <4> QED
        BY <2>3, <4>1 DEF INP_VFLAG_OFFSET
    <3> HIDE DEF n, vflag
    <3>2. vflag # {}
      BY <1>1 DEF vflag
    <3> QED
      BY <3>1, <3>2 DEF parse_xinpcb_n
  <2>5. DOMAIN address = DOMAIN layout \cup {"ip_version"}
    <3>1. Within(layout, n) = DOMAIN layout
      BY <2>1
    <3> HIDE DEF n, layout
    <3> QED
      BY <3>1 DEF Overlay, Read
  <2>6. DOMAIN layout = DOMAIN In4Layout
    BY LayoutFields
  <2> HIDE DEF address, layout
  <2>7. DOMAIN Overlay(address, Read(g, Within(XinpcbLayout, n))) = DOMAIN address \cup DOMAIN XinpcbLayout
    <3>1. Within(XinpcbLayout, n) = DOMAIN XinpcbLayout
      BY <2>1
    <3> HIDE DEF n
    <3> QED
      BY <3>1 DEF Overlay, Read
  <2> HIDE DEF n, vflag
  <2> QED
    BY <1>7, <2>1, <2>2, <2>4, <2>5, <2>6, <2>7
<1>8. CASE f \in DOMAIN XtcpcbLayout
  <2>1. PICK a \in DOMAIN l.tag : /\ l.tag[a].group = g /\ l.tag[a].kind = XSO_TCPCB
               /\ Within(XtcpcbLayout, l.tag[a].len - TAG_HEADER_SIZE) = DOMAIN XtcpcbLayout
    BY <1>2, <1>3
  <2>2. DOMAIN AddedAt(l, a) = DOMAIN XtcpcbLayout
    <3>1. AddedAt(l, a) = parse_xtcpcb_n(g, l.tag[a].len - TAG_HEADER_SIZE, GroupAt(l, a).state, l.hz)
      BY <2>1, AddedByKind
    <3> QED
      BY <1>1, <2>1, <3>1 DEF parse_xtcpcb_n
  <2> QED
    BY <1>8, <2>1, <2>2
<1> QED
  BY <1>4, <1>5, <1>6, <1>7, <1>8 DEF MacFields

---------------------------------------------------------------------------
(* The walk over the list, as far as it has come.                          *)

\* The number in the trailer is none of the kinds the parser knows.
QuietTrailer(l) ==
  \A a \in DOMAIN l.tag : l.tag[a].group = 0 => l.tag[a].kind \notin DOMAIN LayoutsOf

\* The i-th socket: one of those emitted, or the one at hand.
PartOf(rs, rec, i) == IF i <= Len(rs) THEN rs[i].fields ELSE rec

\* The cursor is at p, k groups have begun, the records rs were emitted and
\* rec is what the last group has so far.
Progress(l, p, k, rs, rec) ==
  /\ k \in 0 .. Len(l.groups)
  /\ k = 0 => rec = NoFields
  /\ \A i \in 1 .. k : OfGroup(l, PartOf(rs, rec, i), i)
  /\ \/ p \in DOMAIN l.tag /\ Follows(l, k, p)
     \/ l.size <= p /\ k = Len(l.groups)
  /\ \A a \in DOMAIN l.tag : a < p =>
       /\ a + l.tag[a].len <= l.size
       /\ l.tag[a].group <= k
       /\ l.tag[a].group # 0 =>
            DOMAIN AddedAt(l, a) \subseteq DOMAIN PartOf(rs, rec, l.tag[a].group)

\* What the two properties say of a list that was accepted.
Exact(l, rs) ==
  /\ Len(rs) <= Len(l.groups)
  /\ \A i \in 1 .. Len(rs) : OfGroup(l, rs[i].fields, i)
  /\ \A a \in DOMAIN l.tag : l.tag[a].group # 0 /\ a + TAG_HEADER_SIZE <= l.size
       => a + l.tag[a].len <= l.size
  /\ l.whole => Len(rs) = Len(l.groups)
                  /\ \A i \in 1 .. Len(rs) : MacFields \subseteq DOMAIN rs[i].fields

LEMMA RoundedUp ==
  ASSUME NEW n \in Nat
  PROVE  RoundUp64(n) \in Nat /\ n <= RoundUp64(n)
BY DEF RoundUp64

LEMMA TagIs ==
  ASSUME NEW l \in Lists, NEW a \in DOMAIN l.tag
  PROVE  /\ a \in Nat /\ l.size \in Nat /\ l.tag[a].len \in Nat /\ l.tag[a].kind \in Nat
         /\ l.tag[a].group \in 0 .. Len(l.groups) /\ Len(l.groups) \in Nat
         /\ LET p2 == a + RoundUp64(l.tag[a].len) IN
            /\ p2 \in Nat
            /\ \A b \in DOMAIN l.tag : a < b => p2 <= b
            /\ l.tag[a].group = 0 => l.size <= p2
            /\ l.tag[a].group # 0 =>
                 /\ l.tag[a].kind # 0 /\ l.tag[a].len >= TAG_HEADER_SIZE
                 /\ p2 \in DOMAIN l.tag /\ Follows(l, l.tag[a].group, p2)
<1>1. IsList(l) /\ AsWritten(l) /\ Len(l.groups) \in Nat
  BY ListIs
<1>2. /\ a \in Nat /\ l.size \in Nat /\ l.tag[a].len \in Nat /\ l.tag[a].kind \in Nat
      /\ l.tag[a].group \in 0 .. Len(l.groups)
  BY <1>1 DEF IsList
<1>3. RoundUp64(l.tag[a].len) \in Nat /\ l.tag[a].len <= RoundUp64(l.tag[a].len)
  BY <1>2, RoundedUp
<1>4. l.tag[a].group = 0 => l.size <= a + l.tag[a].len
  BY <1>1 DEF AsWritten
<1> QED
  BY <1>1, <1>2, <1>3, <1>4 DEF AsWritten

\* The records emitted when a group ends.
LEMMA EmittedIs ==
  ASSUME NEW rs \in Seq(MacRaws), NEW rec \in MacRecs, NEW k \in Nat, k = Len(rs) + 1,
         NEW rs2, rs2 = Append(rs, Raw(rec, << 1 >>))
  PROVE  /\ rs2 \in Seq(MacRaws) /\ Len(rs2) = k
         /\ \A i \in 1 .. k : rs2[i].fields = PartOf(rs, rec, i)
<1>1. Raw(rec, << 1 >>) \in MacRaws /\ Raw(rec, << 1 >>).fields = rec
  BY DEF MacRaws, Raw
<1> DEFINE raw == Raw(rec, << 1 >>)
<1> HIDE DEF raw
<1>2. Len(rs) \in Nat /\ rs2 \in Seq(MacRaws) /\ Len(rs2) = Len(rs) + 1
        /\ rs2[Len(rs) + 1] = raw /\ \A i \in 1 .. Len(rs) : rs2[i] = rs[i]
  <2> HIDE DEF MacRaws
  <2> QED
    BY <1>1, AppendProperties, LenProperties DEF raw
<1>3. ASSUME NEW i \in 1 .. k PROVE rs2[i].fields = PartOf(rs, rec, i)
  BY <1>1, <1>2 DEF PartOf, raw
<1> QED
  BY <1>2, <1>3

\* An xsocket_n: the next group begins.
LEMMA ProgressBegin ==
  ASSUME NEW l \in Lists, QuietTrailer(l), NEW p \in DOMAIN l.tag, l.tag[p].kind = XSO_SOCKET,
         p + l.tag[p].len <= l.size,
         NEW rs, NEW rec, NEW k, Progress(l, p, k, rs, rec),
         NEW rs2, Len(rs2) = k, \A i \in 1 .. k : rs2[i].fields = PartOf(rs, rec, i)
  PROVE  Progress(l, p + RoundUp64(l.tag[p].len), k + 1, rs2, AddedAt(l, p))
<1> DEFINE p2 == p + RoundUp64(l.tag[p].len)
           rec2 == AddedAt(l, p)
<1>1. k \in 0 .. Len(l.groups) /\ Len(l.groups) \in Nat /\ k \in Nat
  BY ListIs DEF Progress
<1>2. l.tag[p].group = k + 1
  <2>1. Follows(l, k, p) \/ l.size <= p
    BY DEF Progress
  <2>2. CASE l.size <= p
    <3>1. p \in Nat /\ l.size \in Nat /\ l.tag[p].len = 0
      BY <2>2, TagIs
    <3>2. l.tag[p].group = 0
      BY <3>1, TagIs DEF TAG_HEADER_SIZE
    <3> QED
      BY <3>2 DEF QuietTrailer, LayoutsOf
  <2>3. CASE Follows(l, k, p)
    BY <2>3 DEF Follows, QuietTrailer, LayoutsOf
  <2> QED
    BY <2>1, <2>2, <2>3
<1>3. k + 1 \in 1 .. Len(l.groups) /\ p2 \in DOMAIN l.tag /\ Follows(l, k + 1, p2)
  BY <1>1, <1>2, TagIs
<1>4. \A i \in 1 .. k : PartOf(rs2, rec2, i) = PartOf(rs, rec, i)
  BY <1>1 DEF PartOf
<1>5. PartOf(rs2, rec2, k + 1) = rec2
  BY <1>1 DEF PartOf
<1>6. OfGroup(l, rec2, k + 1)
  BY <1>1, <1>2, AddedIs
<1> HIDE DEF rec2
<1>7. \A i \in 1 .. k + 1 : OfGroup(l, PartOf(rs2, rec2, i), i)
  <2> SUFFICES ASSUME NEW i \in 1 .. k + 1 PROVE OfGroup(l, PartOf(rs2, rec2, i), i)
    OBVIOUS
  <2>1. CASE i = k + 1
    BY <1>5, <1>6, <2>1
  <2>2. CASE i # k + 1
    <3>1. i \in 1 .. k
      BY <1>1, <2>2
    <3> QED
      BY <1>4, <3>1 DEF Progress
  <2> QED
    BY <2>1, <2>2
<1>8. ASSUME NEW a \in DOMAIN l.tag, a < p2
      PROVE  /\ a + l.tag[a].len <= l.size
             /\ l.tag[a].group <= k + 1
             /\ l.tag[a].group # 0 =>
                  DOMAIN AddedAt(l, a) \subseteq DOMAIN PartOf(rs2, rec2, l.tag[a].group)
  <2>1. a = p \/ a < p
    <3>1. a \in Nat /\ p \in Nat /\ p2 \in Nat /\ (p < a => p2 <= a)
      BY TagIs
    <3> HIDE DEF p2
    <3> QED
      BY <1>8, <3>1
  <2>2. CASE a = p
    BY <1>1, <1>2, <1>5, <2>2 DEF rec2
  <2>3. CASE a < p
    <3>1. a + l.tag[a].len <= l.size /\ l.tag[a].group <= k
            /\ (l.tag[a].group # 0 => DOMAIN AddedAt(l, a) \subseteq DOMAIN PartOf(rs, rec, l.tag[a].group))
      BY <2>3 DEF Progress
    <3>2. l.tag[a].group \in Nat
      BY TagIs
    <3>3. l.tag[a].group # 0 => l.tag[a].group \in 1 .. k
      BY <1>1, <3>1, <3>2
    <3> QED
      BY <1>1, <1>4, <3>1, <3>2, <3>3
  <2> QED
    BY <2>1, <2>2, <2>3
<1> HIDE DEF p2
<1>9. k + 1 # 0 /\ k + 1 \in 0 .. Len(l.groups)
  BY <1>1, <1>3
<1>10. Progress(l, p2, k + 1, rs2, rec2)
  BY <1>3, <1>7, <1>8, <1>9 DEF Progress
<1> QED
  BY <1>10 DEF p2, rec2

\* Any other record: the group at hand has what it adds.
LEMMA ProgressExtend ==
  ASSUME NEW l \in Lists, QuietTrailer(l), NEW p \in DOMAIN l.tag, l.tag[p].kind # XSO_SOCKET,
         p + l.tag[p].len <= l.size, p < l.size,
         NEW rs, NEW rec \in MacRecs, NEW k, Progress(l, p, k, rs, rec),
         k # 0 => k = Len(rs) + 1, k = 0 => Len(rs) = 0
  PROVE  Progress(l, p + RoundUp64(l.tag[p].len), k, rs, Overlay(rec, AddedAt(l, p)))
<1> DEFINE p2 == p + RoundUp64(l.tag[p].len)
           add == AddedAt(l, p)
           rec2 == Overlay(rec, add)
<1>1. k \in 0 .. Len(l.groups) /\ Len(l.groups) \in Nat /\ k \in Nat
  BY ListIs DEF Progress
<1>2. Follows(l, k, p)
  <2>1. p \in Nat /\ l.size \in Nat
    BY TagIs
  <2> QED
    BY <2>1 DEF Progress
<1>3. \/ l.tag[p].group = k /\ k # 0 /\ p2 \in DOMAIN l.tag /\ Follows(l, k, p2)
      \/ l.tag[p].group = 0 /\ k = Len(l.groups) /\ l.size <= p2
  <2>1. \/ l.tag[p].group = k /\ k # 0
        \/ l.tag[p].group = 0 /\ k = Len(l.groups)
    BY <1>2 DEF Follows
  <2> QED
    BY <2>1, TagIs
<1>4. add \in MacRecs /\ (l.tag[p].group # 0 => OfGroup(l, add, l.tag[p].group))
  BY AddedIs
<1>5. l.tag[p].group = 0 => add = NoFields
  BY AddedByKind DEF QuietTrailer
<1> HIDE DEF add
<1>6. DOMAIN rec2 = DOMAIN rec \cup DOMAIN add
        /\ \A g : OfGroup(l, rec, g) /\ OfGroup(l, add, g) => OfGroup(l, rec2, g)
  BY <1>4, OverlayIs
<1>7. \A i \in 1 .. k : OfGroup(l, add, i) \/ PartOf(rs, rec2, i) = PartOf(rs, rec, i)
  BY <1>1, <1>3, <1>4, <1>5, NoFieldsIs DEF PartOf
<1>8. \A i \in 1 .. k : DOMAIN PartOf(rs, rec, i) \subseteq DOMAIN PartOf(rs, rec2, i)
  BY <1>6 DEF PartOf
<1>9. k = 0 => rec2 = NoFields
  <2> SUFFICES ASSUME k = 0 PROVE rec2 = NoFields
    OBVIOUS
  <2>1. rec = NoFields /\ add = NoFields
    BY <1>3, <1>5 DEF Progress
  <2>2. DOMAIN rec2 = {} /\ rec2 = [f \in DOMAIN rec2 |-> rec2[f]]
    BY <1>6, <2>1, NoFieldsIs DEF Overlay
  <2>3. NoFields = [f \in {} |-> NoFields[f]]
    BY DEF NoFields
  <2> QED
    BY <2>2, <2>3
<1> HIDE DEF rec2
<1>10. \A i \in 1 .. k : OfGroup(l, PartOf(rs, rec2, i), i)
  <2> SUFFICES ASSUME NEW i \in 1 .. k PROVE OfGroup(l, PartOf(rs, rec2, i), i)
    OBVIOUS
  <2>1. OfGroup(l, PartOf(rs, rec, i), i)
    BY DEF Progress
  <2>2. CASE i <= Len(rs)
    BY <2>1, <2>2 DEF PartOf
  <2>3. CASE ~ (i <= Len(rs))
    <3>1. PartOf(rs, rec, i) = rec /\ PartOf(rs, rec2, i) = rec2
      BY <2>3 DEF PartOf
    <3>2. i = k
      BY <1>1, <2>3
    <3>3. OfGroup(l, add, k)
      <4>1. CASE l.tag[p].group = k
        BY <1>4, <3>2, <4>1
      <4>2. CASE l.tag[p].group = 0
        BY <1>5, <4>2, NoFieldsIs
      <4> QED
        BY <1>3, <4>1, <4>2
    <3> QED
      BY <1>6, <2>1, <3>1, <3>2, <3>3
  <2> QED
    BY <2>2, <2>3
<1>11. ASSUME NEW a \in DOMAIN l.tag, a < p2
       PROVE  /\ a + l.tag[a].len <= l.size
              /\ l.tag[a].group <= k
              /\ l.tag[a].group # 0 =>
                   DOMAIN AddedAt(l, a) \subseteq DOMAIN PartOf(rs, rec2, l.tag[a].group)
  <2>1. a = p \/ a < p
    <3>1. a \in Nat /\ p \in Nat /\ p2 \in Nat /\ (p < a => p2 <= a)
      BY TagIs
    <3> HIDE DEF p2
    <3> QED
      BY <1>11, <3>1
  <2>2. CASE a = p
    <3>1. l.tag[a].group # 0 => PartOf(rs, rec2, l.tag[a].group) = rec2
      BY <1>1, <1>3, <2>2 DEF PartOf
    <3> QED
      BY <1>1, <1>3, <1>6, <2>2, <3>1 DEF add
  <2>3. CASE a < p
    <3>1. a + l.tag[a].len <= l.size /\ l.tag[a].group <= k
            /\ (l.tag[a].group # 0 => DOMAIN AddedAt(l, a) \subseteq DOMAIN PartOf(rs, rec, l.tag[a].group))
      BY <2>3 DEF Progress
    <3>2. l.tag[a].group \in Nat
      BY TagIs
    <3>3. l.tag[a].group # 0 => l.tag[a].group \in 1 .. k
      BY <1>1, <3>1, <3>2
    <3> QED
      BY <1>8, <3>1, <3>3
  <2> QED
    BY <2>1, <2>2, <2>3
<1> HIDE DEF p2
<1>12. Progress(l, p2, k, rs, rec2)
  BY <1>1, <1>3, <1>9, <1>10, <1>11 DEF Progress
<1> QED
  BY <1>12 DEF p2, rec2, add

\* The end of the list, or of what there is of it.
LEMMA ProgressEnd ==
  ASSUME NEW l \in Lists, NEW p \in Nat,
         \/ p + TAG_HEADER_SIZE > l.size
         \/ p \in DOMAIN l.tag /\ (l.tag[p].len = 0 \/ l.tag[p].kind = 0),
         NEW rs, NEW rec, NEW k, Progress(l, p, k, rs, rec),
         NEW rs2, Len(rs2) = k, \A i \in 1 .. k : rs2[i].fields = PartOf(rs, rec, i)
  PROVE  Exact(l, rs2)
<1>1. k \in 0 .. Len(l.groups) /\ Len(l.groups) \in Nat /\ k \in Nat /\ l.size \in Nat
  BY ListIs DEF Progress, IsList
<1>2. \A i \in 1 .. k : OfGroup(l, rs2[i].fields, i)
  BY DEF Progress
\* Every record of a socket with its tag in the buffer is behind the cursor.
<1>3. ASSUME NEW a \in DOMAIN l.tag, l.tag[a].group # 0, a + TAG_HEADER_SIZE <= l.size
      PROVE  a < p
  <2>1. a \in Nat /\ l.tag[a].len \in Nat /\ l.tag[a].kind # 0 /\ l.tag[a].len >= TAG_HEADER_SIZE
    BY <1>3, TagIs
  <2>2. CASE p + TAG_HEADER_SIZE > l.size
    BY <1>1, <1>3, <2>1, <2>2 DEF TAG_HEADER_SIZE
  <2>3. CASE p \in DOMAIN l.tag /\ (l.tag[p].len = 0 \/ l.tag[p].kind = 0)
    <3>1. l.tag[p].group = 0
      BY <2>3, TagIs DEF TAG_HEADER_SIZE
    <3>2. l.size <= p + l.tag[p].len
      BY <3>1, <2>3, ListIs DEF AsWritten
    <3>3. a # p
      BY <1>3, <3>1
    <3>4. ~ (p < a)
      <4>1. p < a => p + RoundUp64(l.tag[p].len) <= a
        BY <2>3, TagIs
      <4>2. l.size <= p + RoundUp64(l.tag[p].len) /\ p + RoundUp64(l.tag[p].len) \in Nat
        BY <2>3, <3>1, TagIs
      <4> HIDE DEF RoundUp64
      <4> QED
        BY <1>1, <1>3, <2>1, <4>1, <4>2 DEF TAG_HEADER_SIZE
    <3> QED
      BY <2>1, <3>3, <3>4
  <2> QED
    BY <2>2, <2>3
<1>4. ASSUME NEW a \in DOMAIN l.tag, l.tag[a].group # 0, a + TAG_HEADER_SIZE <= l.size
      PROVE  a + l.tag[a].len <= l.size
  BY <1>3, <1>4 DEF Progress
<1>5. ASSUME l.whole
      PROVE  k = Len(l.groups) /\ \A i \in 1 .. k : MacFields \subseteq DOMAIN rs2[i].fields
  <2>1. HasAll(l)
    BY <1>5, ListIs
  <2>2. ASSUME NEW a \in DOMAIN l.tag, l.tag[a].group # 0
        PROVE  a < p
    <3>1. a + l.tag[a].len <= l.size /\ a \in Nat /\ l.tag[a].len \in Nat /\ l.tag[a].len >= TAG_HEADER_SIZE
      BY <2>1, <2>2, TagIs DEF HasAll
    <3>2. a + TAG_HEADER_SIZE <= l.size
      BY <1>1, <3>1 DEF TAG_HEADER_SIZE
    <3> QED
      BY <1>3, <2>2, <3>2
  <2>3. k = Len(l.groups)
    <3> SUFFICES ASSUME p \in DOMAIN l.tag, Follows(l, k, p) PROVE k = Len(l.groups)
      BY DEF Progress
    <3>1. l.tag[p].group = 0
      BY <2>2
    <3> QED
      BY <1>1, <3>1 DEF Follows
  <2>4. ASSUME NEW i \in 1 .. k, NEW f \in MacFields
        PROVE  f \in DOMAIN rs2[i].fields
    <3>1. i \in DOMAIN l.groups /\ i # 0
      BY <1>1, ListIs
    <3>2. PICK a \in DOMAIN l.tag : l.tag[a].group = i /\ f \in DOMAIN AddedAt(l, a)
      BY <2>1, <3>1, EveryFieldAdded
    <3>3. a < p
      BY <2>2, <3>1, <3>2
    <3>4. DOMAIN AddedAt(l, a) \subseteq DOMAIN PartOf(rs, rec, i)
      BY <3>1, <3>2, <3>3 DEF Progress
    <3> QED
      BY <3>2, <3>4
  <2> QED
    BY <2>3, <2>4
<1> QED
  BY <1>1, <1>2, <1>4, <1>5 DEF Exact

---------------------------------------------------------------------------
(* The invariant of the macOS parser.                                      *)

\* The socket at hand is the first, when none was begun, or the one after
\* those emitted.
Begun == IF acc.has_socket THEN Len(records) + 1 ELSE 0

MacTyped ==
  /\ list \in Lists
  /\ pos \in Nat
  /\ acc.has_socket \in BOOLEAN /\ acc.rec \in MacRecs
  /\ records \in Seq(MacRaws)
  /\ outcome \in {"start", "loop", "ok", "truncated", "parse error"}
  /\ outcome = "start" => acc = NoConnection /\ records = <<>>
  /\ outcome \in {"truncated", "parse error"} => records = <<>>
  /\ ~ acc.has_socket => records = <<>>

WalkInv ==
  QuietTrailer(list) =>
    /\ outcome = "loop" => Progress(list, pos, Begun, records, acc.rec)
    /\ outcome = "ok" => Exact(list, records)

MacInv == MacTyped /\ WalkInv

LEMMA NoRecords == <<>> \in Seq(MacRaws) /\ Len(<<>>) = 0
OBVIOUS

LEMMA NoConnectionIs ==
  NoConnection.has_socket = FALSE /\ NoConnection.rec = NoFields
    /\ NoConnection.rec \in MacRecs
BY NoFieldsIs DEF NoConnection

LEMMA MacInitInv == Init => MacInv
<1> SUFFICES ASSUME Init PROVE MacInv
  OBVIOUS
<1> USE DEF Init
<1>1. MacTyped
  BY NoRecords, NoConnectionIs DEF MacTyped
<1>2. WalkInv
  BY DEF WalkInv
<1> QED
  BY <1>1, <1>2 DEF MacInv

LEMMA SkipHeaderInv == MacInv /\ SkipHeader => MacInv'
<1> SUFFICES ASSUME MacInv, SkipHeader PROVE MacInv'
  OBVIOUS
<1>1. /\ outcome = "start" /\ outcome' \in {"truncated", "parse error", "loop"}
      /\ pos' = RoundUp64(list.header) /\ list' = list /\ acc' = acc /\ records' = records
  BY DEF SkipHeader
<1>2. list \in Lists /\ acc = NoConnection /\ records = <<>> /\ IsList(list) /\ AsWritten(list)
  BY <1>1, ListIs DEF MacInv, MacTyped
<1>3. pos' \in Nat
  BY <1>1, <1>2, RoundedUp DEF IsList
<1>4. MacTyped'
  BY <1>1, <1>2, <1>3, NoRecords, NoConnectionIs DEF MacTyped
<1>5. Progress(list, RoundUp64(list.header), 0, <<>>, NoFields)
  <2> DEFINE p == RoundUp64(list.header)
  <2>1. p \in DOMAIN list.tag /\ Follows(list, 0, p) /\ \A a \in DOMAIN list.tag : p <= a
    BY <1>2 DEF AsWritten
  <2>2. \A a \in DOMAIN list.tag : ~ (a < p)
    <3>1. p \in Nat
      BY <1>1, <1>3
    <3> HIDE DEF p
    <3> QED
      BY <1>2, <2>1, <3>1, TagIs
  <2>3. 0 \in 0 .. Len(list.groups) /\ 1 .. 0 = {}
    BY <1>2, ListIs
  <2> HIDE DEF p
  <2>4. Progress(list, p, 0, <<>>, NoFields)
    BY <2>1, <2>2, <2>3 DEF Progress
  <2> QED
    BY <2>4 DEF p
<1>6. WalkInv'
  <2>1. Begun' = 0 /\ acc'.rec = NoFields /\ records' = <<>>
    BY <1>1, <1>2, NoConnectionIs DEF Begun
  <2> QED
    BY <1>1, <1>5, <2>1 DEF WalkInv
<1> QED
  BY <1>4, <1>6 DEF MacInv

\* What is emitted at the end of a group.
LEMMA EmittedInv ==
  ASSUME MacTyped
  PROVE  /\ Emitted \in Seq(MacRaws) /\ Len(Emitted) = Begun
         /\ \A i \in 1 .. Begun : Emitted[i].fields = PartOf(records, acc.rec, i)
<1>1. CASE acc.has_socket
  <2>1. /\ records \in Seq(MacRaws) /\ Len(records) \in Nat /\ acc.rec \in MacRecs
        /\ Emitted = Append(records, Raw(acc.rec, << 1 >>)) /\ Begun = Len(records) + 1
    BY <1>1, LenProperties DEF MacTyped, Emitted, Begun
  <2> QED
    BY <2>1, EmittedIs
<1>2. CASE ~ acc.has_socket
  <2>1. Emitted = <<>> /\ Begun = 0
    BY <1>2 DEF MacTyped, Emitted, Begun
  <2>2. 1 .. 0 = {}
    OBVIOUS
  <2> QED
    BY <2>1, <2>2, NoRecords
<1> QED
  BY <1>1, <1>2 DEF MacTyped

LEMMA FinishInv == MacInv /\ Finish => MacInv'
<1> SUFFICES ASSUME MacInv, Finish PROVE MacInv'
  OBVIOUS
<1>1. /\ outcome = "loop" /\ AtEnd /\ outcome' = "ok" /\ records' = Emitted
      /\ list' = list /\ pos' = pos /\ acc' = acc
  BY DEF Finish
<1>2. MacTyped
  BY DEF MacInv
<1>3. MacTyped'
  <2>1. ~ acc.has_socket => Emitted = <<>>
    BY <1>2 DEF MacTyped, Emitted
  <2> QED
    BY <1>1, <1>2, <2>1, EmittedInv DEF MacTyped
<1>4. ASSUME QuietTrailer(list) PROVE Exact(list, Emitted)
  <2>1. list \in Lists /\ pos \in Nat /\ Progress(list, pos, Begun, records, acc.rec)
    BY <1>1, <1>2, <1>4 DEF MacInv, MacTyped, WalkInv
  <2>2. \/ pos + TAG_HEADER_SIZE > list.size
        \/ pos \in DOMAIN list.tag /\ (list.tag[pos].len = 0 \/ list.tag[pos].kind = 0)
    BY <1>1 DEF AtEnd, Tag, TAG_HEADER_SIZE
  <2> QED
    BY <1>2, <2>1, <2>2, EmittedInv, ProgressEnd
<1>5. WalkInv'
  BY <1>1, <1>4 DEF WalkInv
<1> QED
  BY <1>3, <1>5 DEF MacInv

LEMMA OverrunInv == MacInv /\ Overrun => MacInv'
<1> SUFFICES ASSUME MacInv, Overrun PROVE MacInv'
  OBVIOUS
<1>1. outcome' = "truncated" /\ records' = <<>> /\ list' = list /\ pos' = pos /\ acc' = acc
  BY DEF Overrun
<1>2. MacTyped'
  BY <1>1, NoRecords DEF MacInv, MacTyped
<1>3. WalkInv'
  BY <1>1 DEF WalkInv
<1> QED
  BY <1>2, <1>3 DEF MacInv

\* Where the parser takes a record: in the buffer, and on a list with a
\* quiet trailer at a tag.
LEMMA TakenIs ==
  ASSUME MacInv, Fits
  PROVE  /\ Tag.len \in Nat /\ pos + RoundUp64(Tag.len) \in Nat
         /\ QuietTrailer(list) =>
              /\ pos \in DOMAIN list.tag /\ Tag = list.tag[pos] /\ pos < list.size
              /\ pos + list.tag[pos].len <= list.size
              /\ Progress(list, pos, Begun, records, acc.rec)
<1>1. list \in Lists /\ pos \in Nat /\ IsList(list) /\ list.size \in Nat
  BY ListIs DEF MacInv, MacTyped, IsList
<1>2. Tag.len \in Nat
  BY <1>1, TagIs DEF Tag, TAG_HEADER_SIZE
<1>3. pos + RoundUp64(Tag.len) \in Nat
  BY <1>1, <1>2, RoundedUp
<1>4. pos + TAG_HEADER_SIZE <= list.size
  BY <1>1 DEF Fits, AtEnd, TAG_HEADER_SIZE
<1>5. ASSUME QuietTrailer(list)
      PROVE  /\ pos \in DOMAIN list.tag /\ Tag = list.tag[pos] /\ pos < list.size
             /\ pos + list.tag[pos].len <= list.size
             /\ Progress(list, pos, Begun, records, acc.rec)
  <2>1. Progress(list, pos, Begun, records, acc.rec)
    BY <1>5 DEF MacInv, WalkInv, Fits
  <2>2. pos < list.size
    BY <1>1, <1>4 DEF TAG_HEADER_SIZE
  <2>3. pos \in DOMAIN list.tag
    BY <1>1, <2>1, <2>2 DEF Progress
  <2> QED
    BY <2>1, <2>2, <2>3 DEF Tag, Fits
<1> QED
  BY <1>2, <1>3, <1>5

LEMMA AddsIs ==
  ASSUME pos \in DOMAIN list.tag
  PROVE  /\ Tag.kind = XSO_SOCKET => parse_xsocket_n(Tag.group, Body) = AddedAt(list, pos)
         /\ Tag.kind # XSO_SOCKET => Added = AddedAt(list, pos)
<1>1. Tag = list.tag[pos] /\ Group = GroupAt(list, pos)
  BY DEF Tag, Group, GroupAt
<1>2. Body = list.tag[pos].len - TAG_HEADER_SIZE
  BY <1>1 DEF Body
<1>3. Tag.kind = XSO_SOCKET => parse_xsocket_n(Tag.group, Body) = AddedAt(list, pos)
  BY <1>1, <1>2, AddedByKind
<1>4. ASSUME Tag.kind # XSO_SOCKET PROVE Added = AddedAt(list, pos)
  BY <1>1, <1>2, <1>4 DEF AddedAt, Added
<1> QED
  BY <1>3, <1>4

LEMMA TakeSocketInv == MacInv /\ TakeSocket => MacInv'
<1> SUFFICES ASSUME MacInv, TakeSocket PROVE MacInv'
  OBVIOUS
<1>1. /\ outcome = "loop" /\ outcome' = outcome /\ list' = list /\ Fits /\ Tag.kind = XSO_SOCKET
      /\ records' = Emitted /\ pos' = pos + RoundUp64(Tag.len)
      /\ acc' = [has_socket |-> TRUE, rec |-> parse_xsocket_n(Tag.group, Body)]
  BY DEF TakeSocket, Advance, Fits
<1>2. MacTyped
  BY DEF MacInv
<1>3. pos \in DOMAIN list.tag
  BY <1>1 DEF Tag, XSO_SOCKET
<1>4. acc'.has_socket = TRUE /\ acc'.rec = AddedAt(list, pos)
  BY <1>1, <1>3, AddsIs
<1>5. AddedAt(list, pos) \in MacRecs
  BY <1>2, <1>3, AddedIs DEF MacTyped
<1>6. MacTyped'
  BY <1>1, <1>2, <1>4, <1>5, EmittedInv, TakenIs DEF MacTyped
<1>7. ASSUME QuietTrailer(list)
      PROVE  Progress(list, pos + RoundUp64(Tag.len), Begun + 1, Emitted, AddedAt(list, pos))
  <2>1. /\ list \in Lists /\ Tag = list.tag[pos] /\ pos + list.tag[pos].len <= list.size
        /\ Progress(list, pos, Begun, records, acc.rec)
    BY <1>1, <1>2, <1>7, TakenIs DEF MacTyped
  <2>2. Len(Emitted) = Begun /\ \A i \in 1 .. Begun : Emitted[i].fields = PartOf(records, acc.rec, i)
    BY <1>2, EmittedInv
  <2> QED
    BY <1>1, <1>3, <1>7, <2>1, <2>2, ProgressBegin
<1>8. WalkInv'
  <2>1. Begun' = Begun + 1
    BY <1>1, <1>2, <1>4, EmittedInv DEF Begun
  <2>2. QuietTrailer(list) =>
          Progress(list', pos', Begun + 1, records', acc'.rec)
    BY <1>1, <1>4, <1>7
  <2> QED
    BY <1>1, <2>1, <2>2 DEF WalkInv
<1> QED
  BY <1>6, <1>8 DEF MacInv

LEMMA BegunIs ==
  ASSUME MacTyped
  PROVE  /\ Begun \in Nat /\ Len(records) <= Begun
         /\ Begun # 0 => Begun = Len(records) + 1
         /\ Begun = 0 => Len(records) = 0
<1>1. Len(records) \in Nat
  BY LenProperties DEF MacTyped
<1>2. CASE acc.has_socket
  BY <1>1, <1>2 DEF Begun
<1>3. CASE ~ acc.has_socket
  <2>1. records = <<>> /\ Begun = 0
    BY <1>3 DEF MacTyped, Begun
  <2>2. Len(records) = 0
    BY <2>1, NoRecords
  <2> QED
    BY <2>1, <2>2
<1> QED
  BY <1>2, <1>3 DEF MacTyped

LEMMA TakeOtherInv == MacInv /\ TakeOther => MacInv'
<1> SUFFICES ASSUME MacInv, TakeOther PROVE MacInv'
  OBVIOUS
<1>1. /\ outcome = "loop" /\ outcome' = outcome /\ list' = list /\ Fits /\ Tag.kind # XSO_SOCKET
      /\ records' = records /\ pos' = pos + RoundUp64(Tag.len)
      /\ acc' = [acc EXCEPT !.rec = Overlay(@, Added)]
  BY DEF TakeOther, Advance, Fits
<1>2. MacTyped
  BY DEF MacInv
<1>3. Added \in MacRecs
  <2>1. CASE pos \in DOMAIN list.tag
    BY <1>1, <1>2, <2>1, AddsIs, AddedIs DEF MacTyped
  <2>2. CASE pos \notin DOMAIN list.tag
    <3>1. Tag.kind = 99
      BY <2>2 DEF Tag
    <3> QED
      BY <3>1, NoFieldsIs DEF Added, XSO_SOCKET, XSO_RCVBUF, XSO_SNDBUF, XSO_INPCB, XSO_TCPCB
  <2> QED
    BY <2>1, <2>2
<1>4. acc'.has_socket = acc.has_socket /\ acc'.rec = Overlay(acc.rec, Added)
  BY <1>1
<1>5. Overlay(acc.rec, Added) \in MacRecs
  BY <1>2, <1>3, OverlayIs DEF MacTyped
<1>6. MacTyped'
  BY <1>1, <1>2, <1>4, <1>5, TakenIs DEF MacTyped
<1>7. ASSUME QuietTrailer(list)
      PROVE  Progress(list, pos + RoundUp64(Tag.len), Begun, records, Overlay(acc.rec, Added))
  <2>1. /\ list \in Lists /\ acc.rec \in MacRecs /\ pos \in DOMAIN list.tag
        /\ Tag = list.tag[pos] /\ pos < list.size
        /\ pos + list.tag[pos].len <= list.size /\ Progress(list, pos, Begun, records, acc.rec)
    BY <1>1, <1>2, <1>7, TakenIs DEF MacTyped
  <2>2. Added = AddedAt(list, pos)
    BY <1>1, <2>1, AddsIs
  <2>3. (Begun # 0 => Begun = Len(records) + 1) /\ (Begun = 0 => Len(records) = 0)
    BY <1>2, BegunIs
  <2>4. list.tag[pos].kind # XSO_SOCKET
    BY <1>1, <2>1
  <2> QED
    BY <1>7, <2>1, <2>2, <2>3, <2>4, ProgressExtend
<1>8. WalkInv'
  <2>1. Begun' = Begun
    BY <1>1, <1>4 DEF Begun
  <2>2. QuietTrailer(list) =>
          Progress(list', pos', Begun, records', acc'.rec)
    BY <1>1, <1>4, <1>7
  <2> QED
    BY <1>1, <2>1, <2>2 DEF WalkInv
<1> QED
  BY <1>6, <1>8 DEF MacInv

LEMMA MacNextInv == MacInv /\ [Next]_pcblistVars => MacInv'
<1>1. MacInv /\ UNCHANGED pcblistVars => MacInv'
  BY DEF MacInv, MacTyped, WalkInv, Begun, pcblistVars
<1> QED
  BY <1>1, SkipHeaderInv, FinishInv, OverrunInv, TakeSocketInv, TakeOtherInv DEF Next

\* The parser of the other platform does nothing.
Absent ==
  platform = "freebsd" /\ list = NoList /\ records = <<>> /\ outcome = "absent"

MacosInv == IF platform = "macos" THEN MacInv ELSE Absent

LEMMA MacosInitInv == RecordsInit => MacosInv
BY MacInitInv DEF RecordsInit, MacosInv, Absent

LEMMA MacosNextInv == MacosInv /\ [RecordsNext]_recordsVars => MacosInv'
<1> SUFFICES ASSUME MacosInv, [RecordsNext]_recordsVars PROVE MacosInv'
  OBVIOUS
<1>1. platform' = platform
  BY DEF RecordsNext, Convert, Parse, recordsVars
<1>2. IF platform = "macos" THEN [Next]_pcblistVars ELSE UNCHANGED pcblistVars
  BY DEF RecordsNext, Convert, Parse, recordsVars
<1>3. CASE platform = "macos"
  BY <1>1, <1>2, <1>3, MacNextInv DEF MacosInv
<1>4. CASE platform # "macos"
  BY <1>1, <1>2, <1>4 DEF MacosInv, Absent, pcblistVars
<1> QED
  BY <1>3, <1>4

LEMMA RecordFields ==
  ASSUME NEW rs \in Seq(MacRaws), NEW i \in DOMAIN rs
  PROVE  i \in 1 .. Len(rs) /\ DOMAIN rs[i].fields \subseteq MacFields
<1>1. i \in 1 .. Len(rs) /\ rs[i] \in MacRaws
  BY LenProperties, ElementOfSeq
<1>2. PICK rec \in MacRecs : rs[i] = Raw(rec, << 1 >>)
  BY <1>1 DEF MacRaws
<1>3. rs[i].fields = rec
  BY <1>2 DEF Raw
<1> QED
  BY <1>1, <1>3, MacRecIs

\* On a list whose trailer's number is none of the kinds the parser knows, a
\* list that is all there gives one record for each socket, in order, with
\* every field, each read from the group of that socket: the xsocket_n alone
\* tells the groups apart, whatever unknown records lie between, and the
\* cursor meets every tag.
THEOREM ListParsedExactly == RecordsSpec => [](QuietTrailer(list) => ParsedExact)
<1>1. MacosInv => (QuietTrailer(list) => ParsedExact)
  <2> SUFFICES ASSUME MacosInv, QuietTrailer(list), outcome = "ok", list.whole
               PROVE  /\ Len(records) = Len(list.groups)
                      /\ \A i \in DOMAIN records :
                           /\ DOMAIN records[i].fields = MacFields
                           /\ \A f \in MacFields : records[i].fields[f].from = i
                           /\ records[i].fields["state"].is = list.groups[i].state
    BY DEF ParsedExact
  <2>1. records \in Seq(MacRaws) /\ Exact(list, records)
    BY DEF MacosInv, Absent, MacInv, MacTyped, WalkInv
  <2>2. \A i \in DOMAIN records : i \in 1 .. Len(records) /\ DOMAIN records[i].fields = MacFields
    BY <2>1, RecordFields DEF Exact
  <2>3. "state" \in MacFields
    BY LayoutNames DEF MacFields
  <2> QED
    BY <2>1, <2>2, <2>3 DEF Exact, OfGroup
<1> QED
  BY <1>1, MacosInitInv, MacosNextInv, PTL DEF RecordsSpec

\* On such a list cut anywhere, each record shown is of the socket at its
\* place in the list, no field is taken from beyond the cut, and a cut in the
\* body of a record of a socket is an error.  A cut between two records of a
\* group, in a tag or in padding ends the list there (macos.rs:333-352).
THEOREM CutIsReported == RecordsSpec => [](QuietTrailer(list) => CutReported)
<1>1. MacosInv => (QuietTrailer(list) => CutReported)
  <2> SUFFICES ASSUME MacosInv, QuietTrailer(list) PROVE CutReported
    OBVIOUS
  <2>1. CASE Absent
    <3>1. list.groups = <<>> /\ DOMAIN list.tag = {} /\ outcome # "ok" /\ records = <<>>
      BY <2>1 DEF Absent, NoList
    <3> QED
      BY <3>1 DEF CutReported
  <2>2. CASE MacInv
    <3>1. records \in Seq(MacRaws) /\ list \in Lists /\ Len(records) \in Nat /\ Len(list.groups) \in Nat
      BY <2>2, ListIs, LenProperties DEF MacInv, MacTyped
    <3>2. CASE outcome = "ok"
      <4>1. Exact(list, records)
        BY <2>2, <3>2 DEF MacInv, WalkInv
      <4> QED
        BY <3>1, <4>1, RecordFields DEF CutReported, Exact, OfGroup
    <3>3. CASE outcome = "loop"
      <4>1. Progress(list, pos, Begun, records, acc.rec)
        BY <2>2, <3>3 DEF MacInv, WalkInv
      <4>2. Len(records) <= Begun /\ Begun \in Nat
        BY <2>2, BegunIs DEF MacInv
      <4>3. \A i \in 1 .. Len(records) :
              i \in 1 .. Begun /\ PartOf(records, acc.rec, i) = records[i].fields
        BY <3>1, <4>2 DEF PartOf
      <4>4. \A i \in 1 .. Len(records) : OfGroup(list, records[i].fields, i)
        BY <4>1, <4>3 DEF Progress
      <4>5. Len(records) <= Len(list.groups)
        BY <3>1, <4>1, <4>2 DEF Progress
      <4> QED
        BY <3>1, <3>3, <4>4, <4>5, RecordFields DEF CutReported, OfGroup
    <3>4. CASE outcome \notin {"ok", "loop"}
      <4>1. records = <<>>
        BY <2>2, <3>4 DEF MacInv, MacTyped
      <4> QED
        BY <3>1, <3>4, <4>1, NoRecords DEF CutReported
    <3> QED
      BY <3>2, <3>3, <3>4
  <2> QED
    BY <2>1, <2>2 DEF MacosInv
<1> QED
  BY <1>1, MacosInitInv, MacosNextInv, PTL DEF RecordsSpec


---------------------------------------------------------------------------
(* The two programs that use what was collected.                           *)

LEMMA BatchInitInv == RecordsInit => BatchInv
BY DEF RecordsInit, BatchInv

\* A parser that has succeeded takes no further step.
LEMMA BatchNextInv == BatchInv /\ [RecordsNext]_recordsVars => BatchInv'
<1> SUFFICES ASSUME BatchInv, [RecordsNext]_recordsVars PROVE BatchInv'
  OBVIOUS
<1>1. CASE Convert
  <2>1. IsOk /\ IsOk' /\ Collected' = Collected
    BY <1>1 DEF Convert, IsOk, Collected, pcblistVars, kldVars
  <2>2. batch' = build_batch(Collected) /\ snapshot' = collect(Collected)
    BY <1>1 DEF Convert
  <2> QED
    BY <2>1, <2>2 DEF BatchInv
<1>2. CASE Parse
  <2>1. batch' = batch /\ snapshot' = snapshot /\ platform' = platform
    BY <1>2 DEF Parse
  <2>2. ~ IsOk
    BY <1>2 DEF Parse, IsOk, Next, SkipHeader, Finish, Overrun, TakeSocket, TakeOther, Fits,
                KldNext, CheckSize, TakeRecord, Parsed, Enrich
  <2> QED
    BY <2>1, <2>2 DEF BatchInv
<1>3. CASE UNCHANGED recordsVars
  <2>1. batch' = batch /\ snapshot' = snapshot /\ IsOk' = IsOk /\ Collected' = Collected
    BY <1>3 DEF recordsVars, IsOk, Collected, pcblistVars, kldVars
  <2> QED
    BY <2>1 DEF BatchInv
<1> QED
  BY <1>1, <1>2, <1>3 DEF RecordsNext

FreebsdInv == platform = "freebsd" => KldInv

LEMMA FreebsdInitInv == RecordsInit => FreebsdInv
BY KldInitInv DEF RecordsInit, FreebsdInv

LEMMA FreebsdNextInv == FreebsdInv /\ [RecordsNext]_recordsVars => FreebsdInv'
<1> SUFFICES ASSUME FreebsdInv, [RecordsNext]_recordsVars PROVE FreebsdInv'
  OBVIOUS
<1>1. platform' = platform
  BY DEF RecordsNext, Convert, Parse, recordsVars
<1>2. platform = "freebsd" => [KldNext]_kldVars
  BY DEF RecordsNext, Convert, Parse, recordsVars
<1> QED
  BY <1>1, <1>2, KldNextInv DEF FreebsdInv

\* The summary has one message for each raw record.
LEMMA BatchRecords ==
  ASSUME NEW S, NEW raw \in Seq(S)
  PROVE  LET b == build_batch(raw) IN
         /\ Len(b.records) = Len(raw) /\ b.total_sockets = Len(raw)
         /\ \A i \in 1 .. Len(raw) : b.records[i] = raw_to_proto(raw[i])
<1>1. Len(raw) \in Nat /\ DOMAIN raw = 1 .. Len(raw)
  BY LenProperties
<1> DEFINE protos == [i \in DOMAIN raw |-> raw_to_proto(raw[i])]
<1>2. protos = [i \in 1 .. Len(raw) |-> raw_to_proto(raw[i])]
  BY <1>1
<1>3. Len(protos) = Len(raw) /\ \A i \in 1 .. Len(raw) : protos[i] = raw_to_proto(raw[i])
  BY <1>1, <1>2
<1> QED
  BY <1>3 DEF build_batch

\* On FreeBSD a batch has everything the kernel module measured, once, in the
\* kernel's order, each socket with a process of its own; a batch is made only
\* of a buffer that was understood to its last byte.
THEOREM BatchIsMeasured == RecordsSpec => []EachMeasuredOnce
<1>1. FreebsdInv /\ BatchInv => EachMeasuredOnce
  <2> SUFFICES ASSUME FreebsdInv, BatchInv, platform = "freebsd", batch # NoBatch
               PROVE  /\ Len(batch.records) = Len(input.chunks)
                      /\ input.rest = 0
                      /\ \A i \in DOMAIN input.chunks :
                           /\ input.chunks[i].version = TCP_STATS_VERSION
                           /\ OneOwner(batch.records[i], input.chunks[i], input.xfiles)
                           /\ MeasuredOnce(batch.records[i], input.chunks[i], i)
    BY DEF EachMeasuredOnce, MeasuredOnce
  <2>1. KldInv /\ result = "ok" /\ batch = build_batch(raws)
    BY DEF FreebsdInv, BatchInv, IsOk, Collected
  <2>2. /\ input.rest = 0 /\ Understood(input, Len(input.chunks)) /\ input \in KldInputs
        /\ raws \in Seq(RawsOf(input)) /\ Len(raws) = Len(input.chunks)
        /\ \A i \in 1 .. Len(input.chunks) : raws[i] \in {Plain(input, i), Joined(input, i)}
    BY <2>1 DEF KldInv
  <2>3. DOMAIN input.chunks = 1 .. Len(input.chunks) /\ Len(input.chunks) \in Nat
    BY <2>2, ChunksLength
  <2>4. /\ Len(batch.records) = Len(raws)
        /\ \A i \in 1 .. Len(raws) : batch.records[i] = raw_to_proto(raws[i])
    BY <2>1, <2>2, BatchRecords
  <2>5. ASSUME NEW i \in DOMAIN input.chunks
        PROVE  /\ input.chunks[i].version = TCP_STATS_VERSION
               /\ OneOwner(batch.records[i], input.chunks[i], input.xfiles)
               /\ MeasuredOnce(batch.records[i], input.chunks[i], i)
    <3> DEFINE tsr == input.chunks[i]
               raw == raws[i]
    <3>1. i \in Nat \ {0} /\ i \in 1 .. Len(input.chunks)
      BY <2>3
    <3>2. tsr.version = TCP_STATS_VERSION
      BY <2>2, <3>1 DEF Understood
    <3>3. batch.records[i] = raw_to_proto(raw)
      BY <2>2, <2>4, <3>1
    <3>4. FromKernel(raw, tsr, i) /\ OneOwner(raw, tsr, input.xfiles)
      <4>1. CASE raw = Plain(input, i)
        BY <4>1, PlainOwner DEF Plain
      <4>2. CASE raw = Joined(input, i)
        BY <2>2, <4>2, JoinedFromKernel DEF Joined, Plain
      <4> QED
        BY <2>2, <3>1, <4>1, <4>2
    <3>5. OneOwner(raw_to_proto(raw), tsr, input.xfiles)
      BY <3>4, OwnerCarried
    <3> QED
      BY <3>1, <3>2, <3>3, <3>4, <3>5, MeasuredOnceOf
  <2> QED
    BY <2>2, <2>4, <2>5
<1> QED
  BY <1>1, BatchInitInv, BatchNextInv, FreebsdInitInv, FreebsdNextInv, PTL DEF RecordsSpec

---------------------------------------------------------------------------
(* The two summaries.                                                      *)

SumOf(b) == MapThenSumSet(LAMBDA s : b[s], DOMAIN b)

\* The counts of a tally add up to the length of what was counted.
LEMMA SumByChoice ==
  ASSUME NEW b
  PROVE  LET S == DOMAIN b
             Step(g) == [u \in SUBSET S |-> IF u = {} THEN 0
                           ELSE LET x == CHOOSE x \in u : TRUE IN b[x] + g[u \ {x}]]
             iter == CHOOSE g : g = Step(g)
         IN  SumOf(b) = iter[S]
BY DEF SumOf, MapThenSumSet, MapThenFoldSet

LEMMA SumIs ==
  ASSUME NEW b, IsFiniteSet(DOMAIN b), NEW W,
         W = [u \in SUBSET (DOMAIN b) |-> IF u = {} THEN 0
                           ELSE LET x == CHOOSE x \in u : TRUE IN b[x] + W[u \ {x}]]
  PROVE  SumOf(b) = W[DOMAIN b]
<1> DEFINE S == DOMAIN b
           Step(g) == [u \in SUBSET S |-> IF u = {} THEN 0
                           ELSE LET x == CHOOSE x \in u : TRUE IN b[x] + g[u \ {x}]]
           iter == CHOOSE g : g = Step(g)
<1>1. W = Step(W)
  OBVIOUS
<1>2. iter = Step(iter)
  <2> HIDE DEF Step
  <2> QED
    BY <1>1
<1> HIDE DEF iter
<1>3. \A u \in SUBSET S : /\ iter[u] = IF u = {} THEN 0 ELSE b[CHOOSE x \in u : TRUE] + iter[u \ {CHOOSE x \in u : TRUE}]
                          /\ W[u] = IF u = {} THEN 0 ELSE b[CHOOSE x \in u : TRUE] + W[u \ {CHOOSE x \in u : TRUE}]
  BY <1>1, <1>2
<1> DEFINE T == {u \in SUBSET S : iter[u] # W[u]}
<1>4. ASSUME T # {} PROVE FALSE
  <2>1. PICK m \in T : \A u \in T : ~ (u \subseteq m /\ u # m)
    <3>1. \A u \in T : u \subseteq S
      OBVIOUS
    <3> HIDE DEF T
    <3> QED
      BY <1>4, <3>1, MinimalSubset
  <2>2. m # {}
    BY <1>3
  <2> DEFINE x == CHOOSE x \in m : TRUE
  <2>3. x \in m
    BY <2>2
  <2>4. m \ {x} \in SUBSET S /\ iter[m \ {x}] = W[m \ {x}]
    BY <2>1, <2>3
  <2>5. m \in SUBSET S /\ iter[m] # W[m]
    BY <2>1
  <2>6. iter[m] = b[x] + iter[m \ {x}] /\ W[m] = b[x] + W[m \ {x}]
    BY <1>3, <2>2, <2>5
  <2> QED
    BY <2>4, <2>5, <2>6
<1>5. iter[S] = W[S]
  BY <1>4
<1> QED
  BY <1>5, SumByChoice DEF iter

\* The positions of s that hold a value of u.
Places(s, u) == {i \in DOMAIN s : s[i] \in u}

LEMMA PlacesFinite ==
  ASSUME NEW s, NEW n \in Nat, DOMAIN s = 1 .. n, NEW u
  PROVE  IsFiniteSet(Places(s, u)) /\ Cardinality(Places(s, u)) \in Nat
<1>1. IsFiniteSet(1 .. n) /\ Places(s, u) \subseteq 1 .. n
  BY FS_Interval DEF Places
<1> QED
  BY <1>1, FS_Subset, FS_CardinalityType

LEMMA TallySum ==
  ASSUME NEW s, NEW n \in Nat, DOMAIN s = 1 .. n
  PROVE  SumOf(Tally(s)) = n
<1> DEFINE b == Tally(s)
           S == DOMAIN b
           W == [u \in SUBSET S |-> Cardinality(Places(s, u))]
<1>1. S = {s[i] : i \in DOMAIN s} /\ \A x \in S : b[x] = Cardinality(Places(s, {x}))
  BY DEF Tally, Places
<1>2. IsFiniteSet(S)
  <2>1. IsFiniteSet(1 .. n)
    BY FS_Interval
  <2> DEFINE f == [i \in 1 .. n |-> s[i]]
  <2>2. f \in Surjection(1 .. n, S)
    BY <1>1 DEF Surjection
  <2>3. IsFiniteSet(S)
    BY <2>1, <2>2, FS_Surjection
  <2> QED
    BY <2>3
<1> HIDE DEF b
<1>3. ASSUME NEW u \in SUBSET S
      PROVE  W[u] = IF u = {} THEN 0
                    ELSE LET x == CHOOSE x \in u : TRUE IN b[x] + W[u \ {x}]
  <2>1. CASE u = {}
    <3>1. Places(s, u) = {}
      BY <2>1 DEF Places
    <3> QED
      BY <2>1, <3>1, FS_EmptySet
  <2>2. CASE u # {}
    <3> DEFINE x == CHOOSE x \in u : TRUE
               A == Places(s, {x})
               B == Places(s, u \ {x})
    <3>1. x \in u
      BY <2>2
    <3> HIDE DEF x
    <3>2. Places(s, u) = A \cup B /\ A \cap B = {}
      BY <3>1 DEF Places
    <3>3. IsFiniteSet(A) /\ IsFiniteSet(B) /\ Cardinality(A) \in Nat /\ Cardinality(B) \in Nat
      BY PlacesFinite
    <3> HIDE DEF A, B
    <3>4. Cardinality(Places(s, u)) = Cardinality(A) + Cardinality(B)
      <4>1. Cardinality(A \cup B) = Cardinality(A) + Cardinality(B) - Cardinality(A \cap B)
        BY <3>3, FS_Union
      <4>2. Cardinality(A \cap B) = 0
        BY <3>2, FS_EmptySet
      <4> QED
        BY <3>2, <3>3, <4>1, <4>2
    <3>5. W[u] = Cardinality(Places(s, u)) /\ W[u \ {x}] = Cardinality(B) /\ b[x] = Cardinality(A)
      BY <1>1, <3>1 DEF A, B
    <3> HIDE DEF W
    <3> QED
      BY <2>2, <3>4, <3>5 DEF x
  <2> QED
    BY <2>1, <2>2
<1>4. W = [u \in SUBSET S |-> IF u = {} THEN 0
             ELSE LET x == CHOOSE x \in u : TRUE IN b[x] + W[u \ {x}]]
  <2>1. W = [u \in SUBSET S |-> W[u]]
    OBVIOUS
  <2> HIDE DEF W
  <2> QED
    BY <1>3, <2>1
<1>5. W[S] = n
  <2>1. Places(s, S) = 1 .. n
    BY <1>1 DEF Places
  <2>2. Cardinality(1 .. n) = n
    BY FS_Interval
  <2> QED
    BY <2>1, <2>2
<1> HIDE DEF W
<1>6. SumOf(b) = W[DOMAIN b]
  BY <1>2, <1>4, SumIs
<1> QED
  BY <1>5, <1>6 DEF b

LEMMA ProtoNameOneToOne ==
  \A x, y \in 0 .. 11 : ProtoName(x) = ProtoName(y) => x = y
<1> SUFFICES ASSUME NEW x \in 0 .. 11, NEW y \in 0 .. 11, ProtoName(x) = ProtoName(y) PROVE x = y
  OBVIOUS
<1>1. x \in {0, 1, 2, 3, 4, 5, 6, 7, 8, 9, 10, 11} /\ y \in {0, 1, 2, 3, 4, 5, 6, 7, 8, 9, 10, 11}
  OBVIOUS
<1> QED
  BY <1>1 DEF ProtoName, ProtoStates

\* A tally of names is the tally of the values they name.
LEMMA TallyNamed ==
  ASSUME NEW s, NEW t, DOMAIN s = DOMAIN t,
         \A i \in DOMAIN s : s[i] \in 0 .. 11 /\ t[i] = ProtoName(s[i])
  PROVE  /\ {ProtoName(x) : x \in DOMAIN Tally(s)} = DOMAIN Tally(t)
         /\ \A x \in DOMAIN Tally(s) : Tally(s)[x] = Tally(t)[ProtoName(x)]
<1>1. DOMAIN Tally(s) = {s[i] : i \in DOMAIN s} /\ DOMAIN Tally(t) = {t[i] : i \in DOMAIN t}
  BY DEF Tally
<1>2. {ProtoName(x) : x \in DOMAIN Tally(s)} = DOMAIN Tally(t)
  BY <1>1
<1>3. ASSUME NEW x \in DOMAIN Tally(s)
      PROVE  Tally(s)[x] = Tally(t)[ProtoName(x)]
  <2>1. x \in 0 .. 11
    BY <1>1
  <2>2. {i \in DOMAIN s : s[i] = x} = {i \in DOMAIN t : t[i] = ProtoName(x)}
    BY <2>1, ProtoNameOneToOne
  <2>3. ProtoName(x) \in DOMAIN Tally(t)
    BY <1>2
  <2> QED
    BY <1>1, <2>2, <2>3 DEF Tally
<1> QED
  BY <1>2, <1>3

\* One record: the state in the message and the exporter's name for it.
HasState(raw) ==
  /\ DOMAIN raw.fields \subseteq RawFields
  /\ "state" \in DOMAIN raw.fields => \E i, f, v : raw.fields["state"] = Value(i, f, v)
StateOf(raw) == raw_to_proto(raw).fields["state"].is
NameOf(raw) == state_name(IF "state" \in DOMAIN raw.fields THEN raw.fields["state"].is ELSE -1)

LEMMA StateNamed ==
  ASSUME NEW raw, HasState(raw)
  PROVE  StateOf(raw) \in 0 .. 11 /\ NameOf(raw) = ProtoName(StateOf(raw))
<1> DEFINE rec == raw_to_proto(raw)
<1>1. "state" \in Required /\ "state" \in ProtoFields /\ RawName("state") = "state"
  BY RequiredNames DEF Required
<1>2. CASE "state" \notin DOMAIN raw.fields
  <2>1. rec.fields["state"] = Value(0, "", 0)
    BY <1>1, <1>2, ProtoFieldIs DEF HasState
  <2>2. StateOf(raw) = 0
    <3>1. Value(0, "", 0).is = 0
      BY DEF Value
    <3>2. StateOf(raw) = rec.fields["state"].is
      BY DEF StateOf
    <3> HIDE DEF rec
    <3> QED
      BY <2>1, <3>1, <3>2
  <2>3. NameOf(raw) = "UNKNOWN"
    BY <1>2 DEF NameOf, state_name
  <2> QED
    BY <2>2, <2>3 DEF ProtoName
<1>3. CASE "state" \in DOMAIN raw.fields
  <2>1. PICK i, f, v : raw.fields["state"] = Value(i, f, v)
    BY <1>3 DEF HasState
  <2>2. rec.fields["state"] = [raw.fields["state"] EXCEPT !.is = kernel_state_to_proto(@)]
    BY <1>1, <1>3, ProtoFieldIs DEF HasState
  <2>3. raw.fields["state"].is = v
    BY <2>1, ValueParts
  <2>4. rec.fields["state"] = Value(i, f, kernel_state_to_proto(v))
    BY <2>1, <2>2, <2>3, ValueExcept
  <2>5. StateOf(raw) = kernel_state_to_proto(v)
    BY <2>4, ValueParts DEF StateOf
  <2>6. NameOf(raw) = state_name(v)
    BY <1>3, <2>3 DEF NameOf
  <2>7. kernel_state_to_proto(v) \in 0 .. 11 /\ state_name(v) = ProtoName(kernel_state_to_proto(v))
    <3>1. CASE v \in 0 .. 10
      BY <3>1 DEF kernel_state_to_proto, state_name, ProtoName, ProtoStates, ExporterStates
    <3>2. CASE v \notin 0 .. 10
      BY <3>2 DEF kernel_state_to_proto, state_name, ProtoName
    <3> QED
      BY <3>1, <3>2
  <2> QED
    BY <2>5, <2>6, <2>7
<1> QED
  BY <1>2, <1>3

LEMMA CountsOf ==
  ASSUME NEW raw, NEW n \in Nat, DOMAIN raw = 1 .. n, Len(raw) = n,
         \A i \in 1 .. n : HasState(raw[i])
  PROVE  LET b == build_batch(raw).state_counts
             e == collect(raw).state_counts
         IN  /\ {ProtoName(s) : s \in DOMAIN b} = DOMAIN e
             /\ \A s \in DOMAIN b : b[s] = e[ProtoName(s)]
             /\ build_batch(raw).total_sockets = SumOf(b)
<1> DEFINE states == [i \in DOMAIN raw |-> StateOf(raw[i])]
           names  == [i \in DOMAIN raw |-> NameOf(raw[i])]
           protos == [i \in DOMAIN raw |-> raw_to_proto(raw[i])]
<1>1. build_batch(raw).total_sockets = n
  <2>1. build_batch(raw).total_sockets = Len(protos)
    BY DEF build_batch
  <2>2. Len(protos) = n
    OBVIOUS
  <2> QED
    BY <2>1, <2>2
<1>2. build_batch(raw).state_counts = Tally(states)
  <2>1. build_batch(raw).state_counts = Tally([i \in DOMAIN raw |-> protos[i].fields["state"].is])
    BY DEF build_batch
  <2>2. [i \in DOMAIN raw |-> protos[i].fields["state"].is] = states
    BY DEF StateOf
  <2> QED
    BY <2>1, <2>2
<1>3. collect(raw).state_counts = Tally(names)
  BY DEF collect, NameOf
<1>4. DOMAIN states = 1 .. n /\ DOMAIN names = 1 .. n
        /\ \A i \in 1 .. n : states[i] \in 0 .. 11 /\ names[i] = ProtoName(states[i])
  BY StateNamed
<1> HIDE DEF states, names
<1>5. /\ {ProtoName(x) : x \in DOMAIN Tally(states)} = DOMAIN Tally(names)
      /\ \A x \in DOMAIN Tally(states) : Tally(states)[x] = Tally(names)[ProtoName(x)]
  <2>1. DOMAIN states = DOMAIN names
          /\ \A i \in DOMAIN states : states[i] \in 0 .. 11 /\ names[i] = ProtoName(states[i])
    BY <1>4
  <2> QED
    BY <2>1, TallyNamed
<1>6. SumOf(Tally(states)) = n
  BY <1>4, TallySum
<1> QED
  BY <1>1, <1>2, <1>3, <1>5, <1>6

LEMMA MacHasState ==
  ASSUME NEW rs \in Seq(MacRaws), NEW i \in 1 .. Len(rs)
  PROVE  HasState(rs[i])
<1>1. PICK rec \in MacRecs : rs[i] = Raw(rec, << 1 >>)
  BY ElementOfSeq DEF MacRaws
<1>2. rs[i].fields = rec
  BY <1>1 DEF Raw
<1>3. DOMAIN rec \subseteq RawFields /\ \A f \in DOMAIN rec : rec[f] \in MacValues
  BY MacRecIs, MacFieldsRaw
<1>4. ASSUME "state" \in DOMAIN rec PROVE \E g, f, v : rec["state"] = Value(g, f, v)
  <2>1. rec["state"] \in MacValues
    BY <1>3, <1>4
  <2>2. rec["state"] = Value(rec["state"].from, rec["state"].field, rec["state"].is)
    BY <2>1 DEF MacValues, Value
  <2> QED
    BY <2>2
<1> QED
  BY <1>2, <1>3, <1>4 DEF HasState

LEMMA KldHasState ==
  ASSUME NEW x \in KldInputs, NEW rs \in Seq(RawsOf(x)), NEW i \in 1 .. Len(rs)
  PROVE  HasState(rs[i])
<1>1. rs[i] \in RawsOf(x)
  BY ElementOfSeq
<1>2. PICK j \in DOMAIN x.chunks : rs[i] = Plain(x, j) \/ rs[i] = Joined(x, j)
  BY <1>1 DEF RawsOf
<1>3. FromKernel(rs[i], x.chunks[j], j)
  BY <1>2, PlainOwner, JoinedFromKernel DEF Plain, Joined
<1>4. DOMAIN rs[i].fields \subseteq RawFields
  BY <1>3, KldFieldsRaw DEF FromKernel, Given
<1>5. "state" \in Given(x.chunks[j]) /\ TsrName("state") = "state"
  BY DEF Given, KldFields, TsrName, KldNames, RawFields, TsrFields, NameFields
<1>6. rs[i].fields["state"] = Value(j, "state", Content(x.chunks[j], "state"))
  BY <1>3, <1>5 DEF FromKernel
<1> QED
  BY <1>4, <1>6 DEF HasState

\* The summary of tcpstats-reader and the gauges of the exporter, two tables
\* made by two programs, agree on every collection of either platform.
THEOREM SummariesAgree == RecordsSpec => []CountsAgree
<1>1. MacosInv /\ FreebsdInv /\ BatchInv => CountsAgree
  <2> SUFFICES ASSUME MacosInv, FreebsdInv, BatchInv, batch # NoBatch
               PROVE  CountsAgree
    BY DEF CountsAgree
  <2>1. IsOk /\ batch = build_batch(Collected) /\ snapshot = collect(Collected)
    BY DEF BatchInv
  <2>2. \E n \in Nat : DOMAIN Collected = 1 .. n /\ Len(Collected) = n
                         /\ \A i \in 1 .. n : HasState(Collected[i])
    <3>1. CASE platform = "macos"
      <4>1. Collected = records /\ records \in Seq(MacRaws)
        BY <3>1 DEF Collected, MacosInv, MacInv, MacTyped
      <4>2. \A i \in 1 .. Len(records) : HasState(records[i])
        BY <4>1, MacHasState
      <4> QED
        BY <4>1, <4>2, LenProperties
    <3>2. CASE platform # "macos" /\ platform = "freebsd"
      <4>1. KldInv /\ Collected = raws /\ result = "ok"
        BY <2>1, <3>2 DEF Collected, FreebsdInv, IsOk
      <4>2. raws \in Seq(RawsOf(input)) /\ input \in KldInputs
        BY <4>1 DEF KldInv
      <4>3. \A i \in 1 .. Len(raws) : HasState(raws[i])
        BY <4>2, KldHasState
      <4>4. Len(raws) \in Nat /\ DOMAIN raws = 1 .. Len(raws)
        BY <4>2, LenProperties
      <4> QED
        BY <4>1, <4>3, <4>4
    <3> QED
      BY <3>1, <3>2 DEF MacosInv, Absent
  <2> DEFINE b == batch.state_counts
             e == snapshot.state_counts
  <2>3. /\ {ProtoName(s) : s \in DOMAIN b} = DOMAIN e
        /\ \A s \in DOMAIN b : b[s] = e[ProtoName(s)]
        /\ batch.total_sockets = SumOf(b)
    BY <2>1, <2>2, CountsOf
  <2> HIDE DEF b, e
  <2>4. batch.total_sockets = MapThenSumSet(LAMBDA s : b[s], DOMAIN b)
    BY <2>3 DEF SumOf
  <2> QED
    BY <2>3, <2>4 DEF CountsAgree, b, e
<1> QED
  BY <1>1, BatchInitInv, BatchNextInv, FreebsdInitInv, FreebsdNextInv, MacosInitInv,
     MacosNextInv, PTL DEF RecordsSpec

============================================================================
