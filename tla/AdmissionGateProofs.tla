------------------------ MODULE AdmissionGateProofs ------------------------
(***************************************************************************)
(* For any finite set of clients and any bounded set of limits, the        *)
(* admission gate keeps its count exact and never lets in more clients     *)
(* than its largest limit.                                                 *)
(*                                                                         *)
(* InWithinLimit alone is not inductive: a claim that is still to be       *)
(* compared may turn into an admission.  GateInv counts those claims as    *)
(* places already taken, which is what the value fetched stands for.       *)
(***************************************************************************)
EXTENDS AdmissionGate, FiniteSetTheorems, TLAPS

GateInv == GateTypeOK /\ CountBalanced /\ PlacesReserved

\* The largest limit is one of the limits and bounds them all.
LEMMA MaxLimitIsMax ==
  MaxLimit \in Limits /\ MaxLimit \in Nat /\ \A n \in Limits : n <= MaxLimit
BY GateAssumption DEF MaxLimit

\* The sets of clients the invariant counts are finite, and a part of a set
\* of clients is no larger than the set.
LEMMA ClientSets ==
  ASSUME NEW S \in SUBSET Clients, NEW T \in SUBSET S
  PROVE  /\ IsFiniteSet(S) /\ IsFiniteSet(T)
         /\ Cardinality(S) \in Nat /\ Cardinality(T) \in Nat
         /\ Cardinality(T) <= Cardinality(S)
<1>1. IsFiniteSet(S)
  BY GateAssumption, FS_Subset
<1>2. IsFiniteSet(T) /\ Cardinality(T) <= Cardinality(S)
  BY <1>1, FS_Subset
<1> QED
  BY <1>1, <1>2, FS_CardinalityType

---------------------------------------------------------------------------
LEMMA GateInitInv == GateInit => GateInv
<1> SUFFICES ASSUME GateInit PROVE GateInv
  OBVIOUS
<1>1. GateTypeOK
  BY DEF GateInit, GateTypeOK
<1>2. Counted = {} /\ MayBeIn = {}
  BY DEF GateInit, Counted, MayBeIn, In, Claiming
<1>3. Cardinality({}) = 0
  BY FS_EmptySet
<1>4. CountBalanced /\ PlacesReserved
  BY <1>2, <1>3, MaxLimitIsMax DEF CountBalanced, PlacesReserved, GateInit
<1> QED
  BY <1>1, <1>4 DEF GateInv

\* The fetch-and-add: the value it returns is the number of clients counted,
\* so a value below the largest limit means that a place is left.
LEMMA ClaimInv ==
  ASSUME GateInv, NEW c \in Clients, Claim(c)
  PROVE  GateInv'
<1> USE DEF GateInv
<1>1. GateTypeOK'
  BY DEF GateTypeOK, Claim
<1>2. Counted' = Counted \cup {c} /\ c \notin Counted
  BY DEF GateTypeOK, Claim, Counted
<1>3. IsFiniteSet(Counted)
  BY ClientSets DEF Counted
<1>4. Cardinality(Counted') = Cardinality(Counted) + 1
  BY <1>2, <1>3, FS_AddElement
<1>5. CountBalanced'
  BY <1>4 DEF CountBalanced, Claim
<1>6. PlacesReserved'
  <2>1. c \notin MayBeIn
    BY DEF Claim, MayBeIn, In, Claiming
  <2>2. MayBeIn \subseteq Counted /\ Counted \subseteq Clients
    BY DEF MayBeIn, In, Claiming, Counted
  <2>3. IsFiniteSet(MayBeIn) /\ Cardinality(MayBeIn) \in Nat
          /\ Cardinality(MayBeIn) <= count
    BY <2>2, ClientSets DEF CountBalanced
  <2>4. CASE count >= MaxLimit
    <3>1. MayBeIn' = MayBeIn
      BY <2>1, <2>4, MaxLimitIsMax DEF GateTypeOK, Claim, MayBeIn, In, Claiming
    <3> QED
      BY <3>1 DEF PlacesReserved
  <2>5. CASE count < MaxLimit
    <3>1. MayBeIn' = MayBeIn \cup {c}
      BY <2>1, <2>5, MaxLimitIsMax DEF GateTypeOK, Claim, MayBeIn, In, Claiming
    <3>2. Cardinality(MayBeIn') = Cardinality(MayBeIn) + 1
      BY <3>1, <2>1, <2>3, FS_AddElement
    <3> QED
      BY <3>2, <2>3, <2>5, MaxLimitIsMax DEF PlacesReserved, GateTypeOK
  <2> QED
    BY <2>4, <2>5, MaxLimitIsMax DEF GateTypeOK
<1> QED
  BY <1>1, <1>5, <1>6

\* The comparison admits only a client whose place was already reserved: the
\* limit it reads is at most the largest.
LEMMA DecideInv ==
  ASSUME GateInv, NEW c \in Clients, Decide(c)
  PROVE  GateInv'
<1> USE DEF GateInv
<1>1. GateTypeOK'
  BY DEF GateTypeOK, Decide
<1>2. Counted' = Counted
  BY DEF GateTypeOK, Decide, Counted
<1>3. CountBalanced'
  BY <1>2 DEF CountBalanced, Decide
<1>4. MayBeIn' \subseteq MayBeIn
  BY MaxLimitIsMax DEF GateTypeOK, Decide, MayBeIn, In, Claiming
<1>5. PlacesReserved'
  <2>1. MayBeIn \in SUBSET Clients
    BY DEF MayBeIn, In, Claiming
  <2>2. Cardinality(MayBeIn') <= Cardinality(MayBeIn)
          /\ Cardinality(MayBeIn') \in Nat /\ Cardinality(MayBeIn) \in Nat
    BY <2>1, <1>4, ClientSets
  <2> QED
    BY <2>2, MaxLimitIsMax DEF PlacesReserved
<1> QED
  BY <1>1, <1>3, <1>5

\* The subtraction: the client is counted, so the counter is not zero.
LEMMA ReleaseInv ==
  ASSUME GateInv, NEW c \in Clients, Release(c)
  PROVE  GateInv'
<1> USE DEF GateInv
<1>1. Counted' = Counted \ {c} /\ c \in Counted
  BY DEF GateTypeOK, Release, Counted
<1>2. IsFiniteSet(Counted)
  BY ClientSets DEF Counted
<1>3. Cardinality(Counted') = Cardinality(Counted) - 1
  BY <1>1, <1>2, FS_RemoveElement
<1>4. Cardinality(Counted') \in Nat
  BY ClientSets DEF Counted
<1>5. CountBalanced' /\ count' \in Nat
  BY <1>3, <1>4 DEF CountBalanced, Release
<1>6. GateTypeOK'
  BY <1>5 DEF GateTypeOK, Release
<1>7. MayBeIn' \subseteq MayBeIn
  BY DEF GateTypeOK, Release, MayBeIn, In, Claiming
<1>8. PlacesReserved'
  <2>1. MayBeIn \in SUBSET Clients
    BY DEF MayBeIn, In, Claiming
  <2>2. Cardinality(MayBeIn') <= Cardinality(MayBeIn)
          /\ Cardinality(MayBeIn') \in Nat /\ Cardinality(MayBeIn) \in Nat
    BY <2>1, <1>7, ClientSets
  <2> QED
    BY <2>2, MaxLimitIsMax DEF PlacesReserved
<1> QED
  BY <1>5, <1>6, <1>8

LEMMA GateNextInv == GateInv /\ [GateNext]_gateVars => GateInv'
<1> SUFFICES ASSUME GateInv, [GateNext]_gateVars PROVE GateInv'
  OBVIOUS
<1>1. ASSUME NEW c \in Clients, Claim(c) \/ Decide(c) \/ Release(c) PROVE GateInv'
  BY <1>1, ClaimInv, DecideInv, ReleaseInv
<1>2. ASSUME NEW n \in Limits, SetLimit(n) PROVE GateInv'
  BY <1>2 DEF SetLimit, GateInv, GateTypeOK, CountBalanced, PlacesReserved,
              Counted, MayBeIn, In, Claiming
<1>3. CASE UNCHANGED gateVars
  BY <1>3 DEF gateVars, GateInv, GateTypeOK, CountBalanced, PlacesReserved,
              Counted, MayBeIn, In, Claiming
<1> QED
  BY <1>1, <1>2, <1>3 DEF GateNext

---------------------------------------------------------------------------
LEMMA GateInvariant == GateSpec => []GateInv
<1> QED
  BY GateInitInv, GateNextInv, PTL DEF GateSpec

\* The variables keep their types; the counter never goes below zero.
THEOREM GateTypeCorrect == GateSpec => []GateTypeOK
<1>1. GateInv => GateTypeOK
  BY DEF GateInv
<1> QED
  BY <1>1, GateInvariant, PTL

\* However additions and subtractions interleave, the counter is the number of
\* clients that have added one and not taken it back.
THEOREM GateCountBalanced == GateSpec => []CountBalanced
<1>1. GateInv => CountBalanced
  BY DEF GateInv
<1> QED
  BY <1>1, GateInvariant, PTL

\* No interleaving of claims, back-outs and writes of the limit lets in more
\* clients than the largest limit.
THEOREM GateInWithinLimit == GateSpec => []InWithinLimit
<1>1. GateInv => InWithinLimit
  <2> SUFFICES ASSUME GateInv PROVE InWithinLimit
    OBVIOUS
  <2>1. In \in SUBSET MayBeIn /\ MayBeIn \in SUBSET Clients
    BY DEF MayBeIn, In, Claiming
  <2>2. Cardinality(In) <= Cardinality(MayBeIn)
          /\ Cardinality(In) \in Nat /\ Cardinality(MayBeIn) \in Nat
    BY <2>1, ClientSets
  <2> QED
    BY <2>2, MaxLimitIsMax DEF GateInv, PlacesReserved, InWithinLimit
<1> QED
  BY <1>1, GateInvariant, PTL
============================================================================
