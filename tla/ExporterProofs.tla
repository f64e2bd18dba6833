--------------------------- MODULE ExporterProofs ---------------------------
(***************************************************************************)
(* The safety of the exporter's request loop, for any finite set of        *)
(* requests, any limits and any interval.                                  *)
(*                                                                         *)
(* None of its invariants is inductive by itself. ExporterInv adds what    *)
(* one thread behind a queue gives: a request is waiting, at hand or       *)
(* answered, and only one of these; the concurrency counter is one exactly *)
(* while a request is between its claim and its end, so that the value the *)
(* claim fetches is zero; and last_request_time is the latest time at      *)
(* which a request got past the rate limit.                                *)
(***************************************************************************)
EXTENDS Exporter, FiniteSetTheorems, TLAPS

HandTypes ==
  [pc : {"idle", "limit", "claim", "compare", "refuse", "handle", "reply", "leave"},
   r : Requests \cup {NoRequest}, old : {0}, code : Codes \cup {0}]

\* The variables that need no counting to keep their types.
PlainTypes ==
  /\ max_concurrent \in Limits /\ max_concurrent \in Nat
  /\ clock \in Times
  /\ queue \in Seq(Requests)
  /\ path \in [Requests -> Paths]
  /\ hand \in HandTypes
  /\ last \in Times \cup {Never}
  /\ total \in Nat /\ shown \in Nat
  /\ answer \in [Requests -> Codes \cup {0}]
  /\ passed \in [Requests -> Times \cup {Never}]

\* A request is in the queue once, or at hand; and it is answered when it is
\* neither, or when all that is left is to give its place back.
QueueInv ==
  /\ \A i, j \in DOMAIN queue : queue[i] = queue[j] => i = j
  /\ \A i \in DOMAIN queue : queue[i] # hand.r /\ answer[queue[i]] = 0
  /\ hand.pc = "idle" <=> hand.r = NoRequest
  /\ hand.pc \notin {"idle", "leave"} => answer[hand.r] = 0

\* The place a request holds, and the response prepared for it.
ActiveInv ==
  /\ active = IF hand.pc \in {"compare", "refuse", "handle", "reply", "leave"} THEN 1 ELSE 0
  /\ hand.pc = "refuse" => max_concurrent = 0
  /\ hand.pc = "reply" => hand.code \in {200, 404, 500}

\* last_request_time is the latest of the times on record.
LastInv ==
  /\ \A r \in Requests : passed[r] # Never => last # Never /\ passed[r] <= last
  /\ last # Never => last <= clock /\ \E r \in Requests : passed[r] = last

ExporterInv == PlainTypes /\ QueueInv /\ ActiveInv /\ LastInv /\ RateSpaced /\ TotalBalanced

\* The requests that count.
Served == {r \in Requests : answer[r] \notin {0, 429}}

---------------------------------------------------------------------------
LEMMA ServedFinite ==
  IsFiniteSet(Served) /\ Cardinality(Served) \in Nat
  /\ Cardinality(Served) <= Cardinality(Requests)
<1>1. IsFiniteSet(Requests) /\ Served \in SUBSET Requests
  BY ExporterAssumption DEF Served
<1> QED
  BY <1>1, FS_Subset, FS_CardinalityType

LEMMA ExporterInitInv == Init => ExporterInv
<1> SUFFICES ASSUME Init PROVE ExporterInv
  OBVIOUS
<1> USE ExporterAssumption DEF Init, Idle, Never, Times
<1>1. PlainTypes
  BY DEF PlainTypes, HandTypes, Paths, Codes
<1>2. QueueInv /\ ActiveInv /\ LastInv
  BY DEF QueueInv, ActiveInv, LastInv
<1>3. RateSpaced
  BY DEF RateSpaced
<1>4. TotalBalanced
  <2>1. {r \in Requests : answer[r] \notin {0, 429}} = {}
    OBVIOUS
  <2>2. Cardinality({r \in Requests : answer[r] \notin {0, 429}}) = 0
    BY <2>1, FS_EmptySet
  <2>3. total = 0 /\ shown = 0 /\ hand.pc = "idle"
    OBVIOUS
  <2> QED
    BY <2>2, <2>3 DEF TotalBalanced
<1> QED
  BY <1>1, <1>2, <1>3, <1>4 DEF ExporterInv

---------------------------------------------------------------------------
(* One lemma for each action.                                              *)

LEMMA TickInv == ExporterInv /\ Tick => ExporterInv'
BY ExporterAssumption DEF Tick, ExporterInv, PlainTypes, QueueInv, ActiveInv, LastInv,
   RateSpaced, TotalBalanced, Times, Never

\* The request that arrives is not waiting and not answered.
LEMMA ArriveInv ==
  ASSUME ExporterInv, NEW r \in Requests, Arrive(r)
  PROVE  ExporterInv'
<1>1. /\ queue \in Seq(Requests) /\ queue' = Append(queue, r) /\ answer[r] = 0
      /\ r # hand.r /\ \A i \in DOMAIN queue : queue[i] # r
      /\ UNCHANGED <<max_concurrent, clock, path, hand, last, active, total, answer, shown, passed>>
  BY DEF Arrive, Waiting, ExporterInv, PlainTypes
<1>2. /\ queue' \in Seq(Requests)
      /\ \A i \in DOMAIN queue' : \/ i \in DOMAIN queue /\ queue'[i] = queue[i]
                                  \/ i = Len(queue) + 1 /\ queue'[i] = r
  BY <1>1
<1>3. QueueInv'
  BY <1>1, <1>2 DEF ExporterInv, QueueInv
<1>4. PlainTypes'
  BY <1>1, <1>2 DEF ExporterInv, PlainTypes
<1>5. ActiveInv' /\ LastInv' /\ RateSpaced' /\ TotalBalanced'
  BY <1>1 DEF ExporterInv, ActiveInv, LastInv, RateSpaced, TotalBalanced
<1> QED
  BY <1>3, <1>4, <1>5 DEF ExporterInv

LEMMA TakeInv == ExporterInv /\ Take => ExporterInv'
<1> SUFFICES ASSUME ExporterInv, Take PROVE ExporterInv'
  OBVIOUS
<1>1. /\ queue \in Seq(Requests) /\ queue # <<>> /\ hand.pc = "idle"
      /\ hand' = [Idle EXCEPT !.pc = "limit", !.r = Head(queue)]
      /\ queue' = Tail(queue)
      /\ UNCHANGED <<max_concurrent, clock, path, last, active, total, answer, shown, passed>>
  BY DEF Take, ExporterInv, PlainTypes
<1>2. /\ hand'.pc = "limit" /\ hand'.r = queue[1] /\ hand'.r \in Requests
      /\ hand' \in HandTypes
  <2>1. Head(queue) = queue[1] /\ Head(queue) \in Requests
    BY <1>1
  <2> QED
    BY <1>1, <2>1 DEF Idle, HandTypes
<1>3. /\ queue' \in Seq(Requests)
      /\ \A i \in DOMAIN queue' : i + 1 \in DOMAIN queue /\ queue'[i] = queue[i + 1]
  BY <1>1
<1>4. 1 \in DOMAIN queue /\ \A i \in DOMAIN queue' : i \in Nat /\ i + 1 # 1
  BY <1>1, <1>3
<1>5. QueueInv'
  <2>1. \A i, j \in DOMAIN queue' : queue'[i] = queue'[j] => i = j
    <3>1. ASSUME NEW i \in DOMAIN queue', NEW j \in DOMAIN queue', queue'[i] = queue'[j]
          PROVE  i = j
      <4>1. i + 1 = j + 1
        BY <1>3, <3>1 DEF ExporterInv, QueueInv
      <4> QED
        BY <1>4, <4>1
    <3> QED
      BY <3>1
  <2>2. \A i \in DOMAIN queue' : queue'[i] # hand'.r /\ answer'[queue'[i]] = 0
    BY <1>1, <1>2, <1>3, <1>4 DEF ExporterInv, QueueInv
  <2>3. answer'[hand'.r] = 0
    BY <1>1, <1>2, <1>4 DEF ExporterInv, QueueInv
  <2> QED
    BY <1>2, <2>1, <2>2, <2>3, ExporterAssumption DEF QueueInv
<1>6. PlainTypes'
  BY <1>1, <1>2, <1>3 DEF ExporterInv, PlainTypes
<1>7. ActiveInv' /\ LastInv' /\ RateSpaced' /\ TotalBalanced'
  BY <1>1, <1>2 DEF ExporterInv, ActiveInv, LastInv, RateSpaced, TotalBalanced
<1> QED
  BY <1>5, <1>6, <1>7 DEF ExporterInv

\* A request at hand is one of the requests and waits in no queue.
LEMMA AtHand ==
  ASSUME ExporterInv, hand.pc # "idle"
  PROVE  /\ hand.r \in Requests /\ hand.r # NoRequest
         /\ hand \in HandTypes /\ hand.old = 0
         /\ Idle \in HandTypes /\ Idle.pc = "idle" /\ Idle.r = NoRequest
BY DEF ExporterInv, PlainTypes, QueueInv, HandTypes, Idle

LEMMA RateRefuseInv == ExporterInv /\ RateRefuse => ExporterInv'
<1> SUFFICES ASSUME ExporterInv, RateRefuse PROVE ExporterInv'
  OBVIOUS
<1>1. /\ hand.pc = "limit" /\ answer' = [answer EXCEPT ![hand.r] = 429] /\ hand' = Idle
      /\ UNCHANGED <<max_concurrent, clock, queue, path, last, active, total, shown, passed>>
  BY DEF RateRefuse
<1>2. QueueInv'
  BY <1>1, AtHand, ExporterAssumption DEF ExporterInv, QueueInv, PlainTypes
<1>3. PlainTypes'
  BY <1>1, AtHand DEF ExporterInv, PlainTypes, Codes
<1>4. ActiveInv' /\ LastInv' /\ RateSpaced'
  BY <1>1, AtHand DEF ExporterInv, ActiveInv, LastInv, RateSpaced
<1>5. TotalBalanced'
  <2>1. {r \in Requests : answer'[r] \notin {0, 429}}
          = {r \in Requests : answer[r] \notin {0, 429}}
    BY <1>1, AtHand DEF ExporterInv, QueueInv, PlainTypes
  <2> QED
    BY <1>1, <2>1, AtHand DEF ExporterInv, TotalBalanced
<1> QED
  BY <1>2, <1>3, <1>4, <1>5 DEF ExporterInv

\* The request that gets past the rate limit does so an interval after the last.
LEMMA RatePassInv == ExporterInv /\ RatePass => ExporterInv'
<1> SUFFICES ASSUME ExporterInv, RatePass PROVE ExporterInv'
  OBVIOUS
<1>1. /\ hand.pc = "limit" /\ ~TooSoon /\ last' = clock
      /\ passed' = [passed EXCEPT ![hand.r] = clock]
      /\ hand' = [hand EXCEPT !.pc = "claim"]
      /\ UNCHANGED <<max_concurrent, clock, queue, path, active, total, answer, shown>>
  BY DEF RatePass
<1>2. /\ hand' \in HandTypes /\ hand'.pc = "claim" /\ hand'.r = hand.r
  BY <1>1, AtHand DEF HandTypes
<1>3. QueueInv' /\ ActiveInv' /\ TotalBalanced'
  BY <1>1, <1>2, AtHand DEF ExporterInv, QueueInv, ActiveInv, TotalBalanced
<1>4. PlainTypes'
  BY <1>1, <1>2, AtHand DEF ExporterInv, PlainTypes
<1>5. /\ clock \in Nat /\ clock # Never /\ MinInterval \in Nat
      /\ \A r \in Requests : passed[r] # Never => passed[r] \in Nat
      /\ last # Never => last \in Nat
  BY ExporterAssumption DEF ExporterInv, PlainTypes, Times, Never
<1>6. LastInv'
  BY <1>1, <1>5, AtHand DEF ExporterInv, PlainTypes, LastInv
<1>7. ASSUME NEW s \in Requests, passed[s] # Never
      PROVE  clock - passed[s] >= MinInterval
  BY <1>1, <1>5, <1>7 DEF ExporterInv, LastInv, TooSoon
<1>8. RateSpaced'
  <2> SUFFICES ASSUME NEW r \in Requests, NEW s \in Requests, r # s,
                      passed'[r] # Never, passed'[s] # Never
               PROVE  \/ passed'[r] - passed'[s] >= MinInterval
                      \/ passed'[s] - passed'[r] >= MinInterval
    BY DEF RateSpaced
  <2>1. passed \in [Requests -> Times \cup {Never}]
    BY DEF ExporterInv, PlainTypes
  <2>2. CASE r = hand.r
    BY <1>1, <1>7, <2>1, <2>2
  <2>3. CASE s = hand.r
    BY <1>1, <1>7, <2>1, <2>3
  <2>4. CASE r # hand.r /\ s # hand.r
    BY <1>1, <2>1, <2>4 DEF ExporterInv, RateSpaced
  <2> QED
    BY <2>2, <2>3, <2>4
<1> QED
  BY <1>3, <1>4, <1>6, <1>8 DEF ExporterInv

\* Nobody else is counted when a request adds itself: it fetches zero.
LEMMA ClaimInv == ExporterInv /\ Claim => ExporterInv'
<1> SUFFICES ASSUME ExporterInv, Claim PROVE ExporterInv'
  OBVIOUS
<1>1. /\ hand.pc = "claim" /\ active' = active + 1
      /\ hand' = [hand EXCEPT !.pc = "compare", !.old = active]
      /\ UNCHANGED <<max_concurrent, clock, queue, path, last, total, answer, shown, passed>>
  BY DEF Claim
<1>2. active = 0
  BY <1>1 DEF ExporterInv, ActiveInv
<1>3. hand' \in HandTypes /\ hand'.pc = "compare" /\ hand'.r = hand.r
  BY <1>1, <1>2, AtHand DEF HandTypes
<1>4. PlainTypes'
  BY <1>1, <1>3 DEF ExporterInv, PlainTypes
<1>5. QueueInv' /\ ActiveInv'
  BY <1>1, <1>2, <1>3, AtHand DEF ExporterInv, QueueInv, ActiveInv
<1>6. LastInv' /\ RateSpaced' /\ TotalBalanced'
  BY <1>1, <1>3 DEF ExporterInv, LastInv, RateSpaced, TotalBalanced
<1> QED
  BY <1>4, <1>5, <1>6 DEF ExporterInv

\* One thread answers everybody, so the comparison is of zero with the limit.
LEMMA Compared ==
  ASSUME ExporterInv, Compare
  PROVE  /\ hand.pc = "compare" /\ hand.old = 0 /\ hand'.r = hand.r /\ hand'.old = 0
         /\ hand' \in HandTypes
         /\ \/ max_concurrent = 0 /\ hand'.pc = "refuse" /\ total' = total
            \/ max_concurrent > 0 /\ hand'.pc = "handle" /\ total' = total + 1
         /\ UNCHANGED <<max_concurrent, clock, queue, path, last, active, answer, shown, passed>>
<1>1. hand.old = 0 /\ max_concurrent \in Nat /\ hand \in HandTypes
  BY AtHand DEF Compare, ExporterInv, PlainTypes
<1>2. CASE hand.old >= max_concurrent
  BY <1>1, <1>2 DEF Compare, HandTypes
<1>3. CASE ~ (hand.old >= max_concurrent)
  BY <1>1, <1>3 DEF Compare, HandTypes
<1> QED
  BY <1>2, <1>3

LEMMA CompareInv == ExporterInv /\ Compare => ExporterInv'
<1> SUFFICES ASSUME ExporterInv, Compare PROVE ExporterInv'
  OBVIOUS
<1> USE Compared
<1>1. total' \in Nat
  BY DEF ExporterInv, PlainTypes
<1>2. PlainTypes'
  BY <1>1 DEF ExporterInv, PlainTypes
<1>3. QueueInv' /\ ActiveInv'
  BY AtHand DEF ExporterInv, QueueInv, ActiveInv
<1>4. LastInv' /\ RateSpaced'
  BY DEF ExporterInv, LastInv, RateSpaced
<1>5. TotalBalanced'
  <2>1. total = Cardinality(Served) /\ shown <= total /\ total \in Nat /\ shown \in Nat
    BY ServedFinite DEF ExporterInv, PlainTypes, TotalBalanced, Served
  <2>2. /\ total' = Cardinality(Served) + IF hand'.pc = "handle" THEN 1 ELSE 0
        /\ shown' <= total' /\ Served' = Served
    BY <2>1, ServedFinite DEF Served
  <2> QED
    BY <2>2 DEF TotalBalanced, Served
<1> QED
  BY <1>2, <1>3, <1>4, <1>5 DEF ExporterInv

LEMMA RefuseInv == ExporterInv /\ Refuse => ExporterInv'
<1> SUFFICES ASSUME ExporterInv, Refuse PROVE ExporterInv'
  OBVIOUS
<1>1. /\ hand.pc = "refuse" /\ active' = active - 1
      /\ answer' = [answer EXCEPT ![hand.r] = 429] /\ hand' = Idle
      /\ UNCHANGED <<max_concurrent, clock, queue, path, last, total, shown, passed>>
  BY DEF Refuse
<1>2. QueueInv'
  BY <1>1, AtHand, ExporterAssumption DEF ExporterInv, QueueInv, PlainTypes
<1>3. PlainTypes' /\ ActiveInv'
  BY <1>1, AtHand DEF ExporterInv, PlainTypes, ActiveInv, Codes
<1>4. LastInv' /\ RateSpaced'
  BY <1>1, AtHand DEF ExporterInv, LastInv, RateSpaced
<1>5. TotalBalanced'
  <2>1. {r \in Requests : answer'[r] \notin {0, 429}}
          = {r \in Requests : answer[r] \notin {0, 429}}
    BY <1>1, AtHand DEF ExporterInv, QueueInv, PlainTypes
  <2> QED
    BY <1>1, <2>1, AtHand DEF ExporterInv, TotalBalanced
<1> QED
  BY <1>2, <1>3, <1>4, <1>5 DEF ExporterInv

\* The handler of the path prepares one of the responses.
Handled(code) ==
  /\ hand' = [hand EXCEPT !.pc = "reply", !.code = code]
  /\ shown' = IF path[hand.r] = "metrics" /\ code = 200 THEN total ELSE shown

LEMMA HandledWith ==
  ASSUME ExporterInv, Handle
  PROVE  \E code \in {200, 404, 500} : Handled(code)
<1> DEFINE codes == CASE path[hand.r] = "metrics" -> {200, 500}
                      [] path[hand.r] = "root" -> {200}
                      [] OTHER -> {404}
<1>1. path[hand.r] \in {"metrics", "root", "other"}
  BY AtHand DEF Handle, ExporterInv, PlainTypes, Paths
<1>2. codes \in {{200, 500}, {200}, {404}}
  BY <1>1
<1>3. \E code \in codes : Handled(code)
  BY DEF Handle, Handled
<1> HIDE DEF codes
<1> QED
  BY <1>2, <1>3

LEMMA HandleInv == ExporterInv /\ Handle => ExporterInv'
<1> SUFFICES ASSUME ExporterInv, Handle PROVE ExporterInv'
  OBVIOUS
<1>1. PICK code \in {200, 404, 500} : Handled(code)
  BY HandledWith
<1>2. hand.pc = "handle" /\ UNCHANGED <<max_concurrent, clock, queue, path, last, active, total, answer, passed>>
  BY DEF Handle
<1>3. /\ hand' \in HandTypes /\ hand'.pc = "reply" /\ hand'.r = hand.r /\ hand'.code = code
  <2>1. code \in Codes
    BY DEF Codes
  <2>2. hand \in HandTypes
    BY <1>2, AtHand
  <2> QED
    BY <1>1, <2>1, <2>2 DEF HandTypes, Handled
<1>4. PlainTypes'
  BY <1>1, <1>2, <1>3 DEF Handled, ExporterInv, PlainTypes
<1>5. QueueInv' /\ ActiveInv'
  BY <1>2, <1>3, AtHand DEF ExporterInv, QueueInv, ActiveInv
<1>6. LastInv' /\ RateSpaced'
  BY <1>2 DEF ExporterInv, LastInv, RateSpaced
<1>7. TotalBalanced'
  BY <1>1, <1>2, <1>3 DEF Handled, ExporterInv, PlainTypes, TotalBalanced
<1> QED
  BY <1>4, <1>5, <1>6, <1>7 DEF ExporterInv

\* The request answered is one more of those that count.
LEMMA ReplyInv == ExporterInv /\ Reply => ExporterInv'
<1> SUFFICES ASSUME ExporterInv, Reply PROVE ExporterInv'
  OBVIOUS
<1>1. /\ hand.pc = "reply" /\ answer' = [answer EXCEPT ![hand.r] = hand.code]
      /\ hand' = [hand EXCEPT !.pc = "leave"]
      /\ UNCHANGED <<max_concurrent, clock, queue, path, last, active, total, shown, passed>>
  BY DEF Reply
<1>2. hand.code \in {200, 404, 500} /\ answer[hand.r] = 0
  BY <1>1 DEF ExporterInv, ActiveInv, QueueInv
<1>3. /\ hand' \in HandTypes /\ hand'.pc = "leave" /\ hand'.r = hand.r
  BY <1>1, AtHand DEF HandTypes
<1>4. PlainTypes'
  BY <1>1, <1>2, <1>3, AtHand DEF ExporterInv, PlainTypes, Codes
<1>5. QueueInv' /\ ActiveInv'
  BY <1>1, <1>3, AtHand DEF ExporterInv, PlainTypes, QueueInv, ActiveInv
<1>6. LastInv' /\ RateSpaced'
  BY <1>1 DEF ExporterInv, LastInv, RateSpaced
<1>7. TotalBalanced'
  <2>1. Served' = Served \cup {hand.r} /\ hand.r \notin Served
    BY <1>1, <1>2, AtHand DEF ExporterInv, PlainTypes, Served
  <2>2. Cardinality(Served') = Cardinality(Served) + 1
    BY <2>1, ServedFinite, FS_AddElement
  <2> QED
    BY <1>1, <1>3, <2>2, ServedFinite DEF ExporterInv, PlainTypes, TotalBalanced, Served
<1> QED
  BY <1>4, <1>5, <1>6, <1>7 DEF ExporterInv

LEMMA LeaveInv == ExporterInv /\ Leave => ExporterInv'
<1> SUFFICES ASSUME ExporterInv, Leave PROVE ExporterInv'
  OBVIOUS
<1>1. /\ hand.pc = "leave" /\ active' = active - 1 /\ hand' = Idle
      /\ UNCHANGED <<max_concurrent, clock, queue, path, last, total, answer, shown, passed>>
  BY DEF Leave
<1>2. PlainTypes' /\ ActiveInv'
  BY <1>1, AtHand DEF ExporterInv, PlainTypes, ActiveInv
<1>3. QueueInv'
  BY <1>1, AtHand, ExporterAssumption DEF ExporterInv, PlainTypes, QueueInv
<1>4. LastInv' /\ RateSpaced' /\ TotalBalanced'
  BY <1>1, AtHand DEF ExporterInv, LastInv, RateSpaced, TotalBalanced
<1> QED
  BY <1>2, <1>3, <1>4 DEF ExporterInv

LEMMA ExporterNextInv == ExporterInv /\ [Next]_exporterVars => ExporterInv'
<1> SUFFICES ASSUME ExporterInv, [Next]_exporterVars PROVE ExporterInv'
  OBVIOUS
<1>1. CASE Loop
  BY <1>1, TakeInv, RateRefuseInv, RatePassInv, ClaimInv, CompareInv, RefuseInv, HandleInv,
     ReplyInv, LeaveInv DEF Loop
<1>2. CASE Tick \/ \E r \in Requests : Arrive(r)
  BY <1>2, TickInv, ArriveInv
<1>3. CASE UNCHANGED exporterVars
  BY <1>3 DEF exporterVars, ExporterInv, PlainTypes, QueueInv, ActiveInv, LastInv,
              RateSpaced, TotalBalanced
<1> QED
  BY <1>1, <1>2, <1>3 DEF Next

LEMMA ExporterInvariant == ExporterSpec => []ExporterInv
BY ExporterInitInv, ExporterNextInv, PTL DEF ExporterSpec

---------------------------------------------------------------------------
(* What follows from the invariant.                                        *)

\* A queue without repetitions is no longer than the set of requests.
LEMMA QueueBounded == ExporterInv => Len(queue) <= Cardinality(Requests)
<1> SUFFICES ASSUME ExporterInv PROVE Len(queue) <= Cardinality(Requests)
  OBVIOUS
<1>1. queue \in Seq(Requests) /\ Len(queue) \in Nat
  BY DEF ExporterInv, PlainTypes
<1>2. queue \in [1 .. Len(queue) -> Requests]
  BY <1>1
<1>3. queue \in Injection(1 .. Len(queue), Requests)
  BY <1>1, <1>2 DEF ExporterInv, QueueInv, Injection, IsInjective
<1>4. Cardinality(1 .. Len(queue)) <= Cardinality(Requests)
  BY <1>3, ExporterAssumption, FS_Injection
<1>5. Cardinality(1 .. Len(queue)) = Len(queue)
  <2>1. Cardinality(1 .. Len(queue)) = IF 1 > Len(queue) THEN 0 ELSE Len(queue) - 1 + 1
    BY <1>1, FS_Interval
  <2> QED
    BY <1>1, <2>1
<1> QED
  BY <1>4, <1>5

\* The counters are at most the number of requests, because the request at
\* hand is not one of those already served.
LEMMA CountersBounded ==
  ASSUME ExporterInv
  PROVE  /\ active \in 0 .. Cardinality(Requests) /\ total \in 0 .. Cardinality(Requests)
         /\ shown \in 0 .. Cardinality(Requests)
<1>1. /\ IsFiniteSet(Requests) /\ Cardinality(Requests) \in Nat
      /\ Requests # {} => Cardinality(Requests) >= 1
  <2>1. IsFiniteSet(Requests) /\ Cardinality(Requests) \in Nat
    BY ExporterAssumption, FS_CardinalityType
  <2> QED
    BY <2>1, FS_EmptySet
<1>2. active \in 0 .. Cardinality(Requests)
  BY <1>1, AtHand DEF ExporterInv, ActiveInv
<1>3. /\ total = Cardinality(Served) + (IF hand.pc \in {"handle", "reply"} THEN 1 ELSE 0)
      /\ shown <= total /\ total \in Nat /\ shown \in Nat
  BY DEF ExporterInv, PlainTypes, TotalBalanced, Served
<1>4. total <= Cardinality(Requests)
  <2>1. CASE hand.pc \in {"handle", "reply"}
    <3>1. hand.r \in Requests \ Served
      BY <2>1, AtHand DEF ExporterInv, QueueInv, Served
    <3>2. Served \cup {hand.r} \in SUBSET Requests
      BY <3>1 DEF Served
    <3>3. Cardinality(Served \cup {hand.r}) = Cardinality(Served) + 1
      BY <3>1, ServedFinite, FS_AddElement
    <3>4. Cardinality(Served \cup {hand.r}) <= Cardinality(Requests)
      BY <1>1, <3>2, FS_Subset
    <3> QED
      BY <1>3, <2>1, <3>3, <3>4
  <2>2. CASE hand.pc \notin {"handle", "reply"}
    BY <1>3, <2>2, ServedFinite
  <2> QED
    BY <2>1, <2>2
<1> QED
  BY <1>1, <1>2, <1>3, <1>4

\* The variables keep their types: the queue holds every request once at most,
\* and the counters never exceed the number of requests.
THEOREM ExporterTypeCorrect == ExporterSpec => []ExporterTypeOK
<1>1. ExporterInv => ExporterTypeOK
  <2> SUFFICES ASSUME ExporterInv PROVE ExporterTypeOK
    OBVIOUS
  <2>1. /\ max_concurrent \in Limits
        /\ clock \in Times /\ queue \in Seq(Requests) /\ path \in [Requests -> Paths]
        /\ hand \in HandTypes /\ last \in Times \cup {Never}
        /\ answer \in [Requests -> Codes \cup {0}]
        /\ passed \in [Requests -> Times \cup {Never}]
    BY DEF ExporterInv, PlainTypes
  <2>2. 0 \in 0 .. Cardinality(Requests)
    BY ExporterAssumption, FS_CardinalityType
  <2>3. hand \in [pc : {"idle", "limit", "claim", "compare", "refuse", "handle", "reply", "leave"},
                  r : Requests \cup {NoRequest},
                  old : 0..Cardinality(Requests), code : Codes \cup {0}]
    BY <2>1, <2>2 DEF HandTypes
  <2> QED
    BY <2>1, <2>3, QueueBounded, CountersBounded DEF ExporterTypeOK
<1> QED
  BY <1>1, ExporterInvariant, PTL

\* However requests queue up and however long each takes, two of them get past
\* the rate limit an interval apart (main.rs:45-59).
THEOREM RequestsAreSpaced == ExporterSpec => []RateSpaced
<1>1. ExporterInv => RateSpaced
  BY DEF ExporterInv
<1> QED
  BY <1>1, ExporterInvariant, PTL

\* The counter of requests is exact, and a page of metrics shows it as it is
\* when the page is made (main.rs:72, 94).
THEOREM RequestsAreCounted == ExporterSpec => []TotalBalanced
<1>1. ExporterInv => TotalBalanced
  BY DEF ExporterInv
<1> QED
  BY <1>1, ExporterInvariant, PTL

---------------------------------------------------------------------------
(* Refusals.                                                               *)

\* Unless no request is let in, only the rate limit refuses, and what it compares the clock with is the
\* time at which some request got past it (main.rs:50-63).
LEMMA RefusalEarned ==
  ASSUME ExporterInv, [Next]_exporterVars,
         NEW r \in Requests, max_concurrent > 0, answer[r] # 429, answer'[r] = 429
  PROVE  \E s \in Requests : passed[s] # Never /\ clock - passed[s] < MinInterval
<1>1. CASE RateRefuse
  <2>1. last # Never /\ clock - last < MinInterval
    BY <1>1 DEF RateRefuse, TooSoon
  <2> QED
    BY <2>1 DEF ExporterInv, LastInv
<1>2. CASE Reply
  <2>1. hand.code # 429 /\ answer' = [answer EXCEPT ![hand.r] = hand.code]
    BY <1>2 DEF Reply, ExporterInv, ActiveInv
  <2> QED
    BY <2>1 DEF ExporterInv, PlainTypes
<1>3. CASE Compare \/ Refuse
  BY <1>3, Compared DEF Refuse, ExporterInv, ActiveInv
<1>4. CASE \/ Take \/ RatePass \/ Claim \/ Handle \/ Leave \/ Tick
           \/ \E s \in Requests : Arrive(s)
  BY <1>4 DEF Take, RatePass, Claim, Handle, Leave, Tick, Arrive
<1>5. CASE UNCHANGED exporterVars
  BY <1>5 DEF exporterVars
<1> QED
  BY <1>1, <1>2, <1>3, <1>4, <1>5 DEF Next, Loop

\* A client that keeps asking too soon does not lock itself out, and the
\* concurrency limit refuses nobody unless it is zero (main.rs:50-63).
THEOREM RefusalsAreEarned == ExporterSpec => RefusalsEarned
<1>1. ExporterInv /\ [Next]_exporterVars =>
        [\A r \in Requests : max_concurrent > 0 /\ answer[r] # 429 /\ answer'[r] = 429 =>
           \E s \in Requests : passed[s] # Never /\ clock - passed[s] < MinInterval]_exporterVars
  BY RefusalEarned
<1> QED
  BY <1>1, ExporterInvariant, PTL DEF ExporterSpec, RefusalsEarned

---------------------------------------------------------------------------
(* The concurrency counter implements AdmissionGate: a claim, a comparison *)
(* and the end of a request are the gate's steps, every other is none.     *)

Places ==
  [r \in Requests |-> IF r # hand.r \/ hand.pc \in {"limit", "claim"} THEN "out"
                      ELSE IF hand.pc = "compare" THEN "claiming"
                      ELSE IF hand.pc = "refuse" THEN "refused" ELSE "in"]
Fetched == [r \in Requests |-> IF r = hand.r /\ hand.pc = "compare" THEN hand.old ELSE 0]

\* A request has a place only after its claim, and what the claim fetched is
\* zero like what every other request has.
PlacesOK ==
  /\ Fetched = [r \in Requests |-> 0]
  /\ hand.pc \in {"idle", "limit", "claim"} => \A r \in Requests : Places[r] = "out"

LEMMA PlacesAre == ExporterInv => PlacesOK
<1> SUFFICES ASSUME ExporterInv PROVE PlacesOK
  OBVIOUS
<1>1. /\ hand.pc # "idle" => hand.r \in Requests
      /\ hand.pc = "idle" => hand.r \notin Requests
  BY AtHand, ExporterAssumption DEF ExporterInv, QueueInv
<1>2. Fetched = [r \in Requests |-> 0]
  BY <1>1, AtHand DEF Fetched
<1> QED
  BY <1>1, <1>2 DEF Places, PlacesOK

\* What holds of the gate's variables is what holds of these.
LEMMA GateMapped ==
  /\ Gate!GateInit <=> /\ active = 0 /\ Places = [c \in Requests |-> "out"]
                       /\ Fetched = [c \in Requests |-> 0] /\ max_concurrent \in Limits
  /\ \A c \in Requests :
       /\ Gate!Claim(c) <=>
            /\ Places[c] = "out" /\ active' = active + 1
            /\ Places' = [Places EXCEPT ![c] = "claiming"]
            /\ Fetched' = [Fetched EXCEPT ![c] = active]
            /\ UNCHANGED max_concurrent
       /\ Gate!Decide(c) <=>
            /\ Places[c] = "claiming"
            /\ Places' = [Places EXCEPT ![c] = IF Fetched[c] >= max_concurrent
                                               THEN "refused" ELSE "in"]
            /\ Fetched' = [Fetched EXCEPT ![c] = 0]
            /\ UNCHANGED <<active, max_concurrent>>
       /\ Gate!Release(c) <=>
            /\ Places[c] \in {"refused", "in"} /\ active' = active - 1
            /\ Places' = [Places EXCEPT ![c] = "out"]
            /\ UNCHANGED <<Fetched, max_concurrent>>
  /\ UNCHANGED Gate!gateVars <=> UNCHANGED <<active, Places, Fetched, max_concurrent>>
BY DEF Gate!GateInit, Gate!Claim, Gate!Decide, Gate!Release, Gate!gateVars, Places, Fetched

LEMMA GateStarts == Init => Gate!GateInit
<1> SUFFICES ASSUME Init PROVE Gate!GateInit
  OBVIOUS
<1>1. active = 0 /\ max_concurrent \in Limits
  BY DEF Init
<1>2. ExporterInv /\ hand.pc = "idle"
  BY ExporterInitInv DEF Init, Idle
<1>3. \A r \in Requests : Places[r] = "out"
  BY <1>2, PlacesAre DEF PlacesOK
<1>4. Places = [c \in Requests |-> "out"]
  BY <1>3 DEF Places
<1> QED
  BY <1>1, <1>2, <1>4, PlacesAre, GateMapped DEF PlacesOK

\* Steps that move no request between places: the loop takes a request or
\* refuses it, lets it past the rate limit, routes it or answers it.
LEMMA GateStutters ==
  ASSUME ExporterInv, ExporterInv',
         Take \/ RateRefuse \/ RatePass \/ Handle \/ Reply
  PROVE  UNCHANGED Gate!gateVars
<1>1. UNCHANGED <<active, max_concurrent>>
  BY DEF Take, RateRefuse, RatePass, Handle, Reply
<1>2. \/ hand.pc \in {"idle", "limit"} /\ hand'.pc \in {"idle", "limit", "claim"}
      \/ /\ hand'.r = hand.r
         /\ hand.pc \in {"handle", "reply"} /\ hand'.pc \in {"reply", "leave"}
  <2>1. hand \in HandTypes
    BY DEF ExporterInv, PlainTypes
  <2>2. CASE Take
    BY <2>2 DEF Take, Idle
  <2>3. CASE RateRefuse
    BY <2>3 DEF RateRefuse, Idle
  <2>4. CASE RatePass \/ Reply
    BY <2>1, <2>4 DEF RatePass, Reply, HandTypes
  <2>5. CASE Handle
    <3>1. PICK code \in {200, 404, 500} : Handled(code)
      BY <2>5, HandledWith
    <3>2. hand.pc = "handle"
      BY <2>5 DEF Handle
    <3> QED
      BY <2>1, <3>1, <3>2 DEF Handled, HandTypes
  <2> QED
    BY <2>2, <2>3, <2>4, <2>5
<1>3. PlacesOK /\ PlacesOK'
  BY PlacesAre, PTL
<1>4. Places' = Places
  <2>1. CASE hand.pc \in {"idle", "limit"} /\ hand'.pc \in {"idle", "limit", "claim"}
    <3>1. \A r \in Requests : Places[r] = "out" /\ Places'[r] = "out"
      BY <1>3, <2>1 DEF PlacesOK
    <3> QED
      BY <3>1 DEF Places
  <2>2. CASE /\ hand'.r = hand.r
             /\ hand.pc \in {"handle", "reply"} /\ hand'.pc \in {"reply", "leave"}
    BY <2>2 DEF Places
  <2> QED
    BY <1>2, <2>1, <2>2
<1> QED
  BY <1>1, <1>3, <1>4, GateMapped DEF PlacesOK

LEMMA GateClaims ==
  ASSUME ExporterInv, Claim, NEW r \in Requests, r = hand.r
  PROVE  Gate!Claim(r)
<1>1. /\ hand.pc = "claim" /\ hand.r \in Requests /\ active = 0 /\ active' = active + 1
      /\ hand'.pc = "compare" /\ hand'.r = r /\ hand'.old = 0
      /\ UNCHANGED max_concurrent
  BY AtHand DEF Claim, ExporterInv, ActiveInv, HandTypes
<1>2. /\ Places[r] = "out"
      /\ Places' = [Places EXCEPT ![r] = "claiming"]
  BY <1>1 DEF Places
<1>3. Fetched' = [Fetched EXCEPT ![r] = active]
  BY <1>1 DEF Fetched
<1> QED
  BY <1>1, <1>2, <1>3, GateMapped

LEMMA GateDecides ==
  ASSUME ExporterInv, Compare, NEW r \in Requests, r = hand.r
  PROVE  Gate!Decide(r)
<1>1. /\ hand.pc = "compare" /\ hand.old = 0 /\ hand'.r = r
      /\ UNCHANGED <<active, max_concurrent>> /\ max_concurrent \in Nat
      /\ \/ max_concurrent = 0 /\ hand'.pc = "refuse"
         \/ max_concurrent > 0 /\ hand'.pc = "handle"
  BY Compared DEF ExporterInv, PlainTypes
<1>2. Fetched[r] = 0 /\ Places[r] = "claiming"
  BY <1>1 DEF Fetched, Places
<1>3. CASE max_concurrent = 0 /\ hand'.pc = "refuse"
  <2>1. Places' = [Places EXCEPT ![r] = "refused"]
    BY <1>1, <1>3 DEF Places
  <2>2. Fetched' = [Fetched EXCEPT ![r] = 0]
    BY <1>1, <1>3 DEF Fetched
  <2>3. 0 >= max_concurrent
    BY <1>1, <1>3
  <2> QED
    BY <1>1, <1>2, <2>1, <2>2, <2>3, GateMapped
<1>4. CASE max_concurrent > 0 /\ hand'.pc = "handle"
  <2>1. Places' = [Places EXCEPT ![r] = "in"]
    BY <1>1, <1>4 DEF Places
  <2>2. Fetched' = [Fetched EXCEPT ![r] = 0]
    BY <1>1, <1>4 DEF Fetched
  <2>3. ~ (0 >= max_concurrent)
    BY <1>1, <1>4
  <2> QED
    BY <1>1, <1>2, <2>1, <2>2, <2>3, GateMapped
<1> QED
  BY <1>1, <1>3, <1>4

\* A request that was refused, or that has been answered.
LEMMA GateReleases ==
  ASSUME ExporterInv, Refuse \/ Leave, NEW r \in Requests, r = hand.r
  PROVE  Gate!Release(r)
<1>1. /\ hand.pc \in {"refuse", "leave"} /\ hand.r \in Requests /\ active' = active - 1
      /\ hand'.pc = "idle" /\ hand'.r = NoRequest /\ NoRequest \notin Requests
      /\ UNCHANGED max_concurrent
  BY AtHand, ExporterAssumption DEF Refuse, Leave
<1>2. /\ Places[r] \in {"refused", "in"}
      /\ Places' = [Places EXCEPT ![r] = "out"]
  BY <1>1 DEF Places
<1>3. Fetched' = Fetched
  BY <1>1 DEF Fetched
<1> QED
  BY <1>1, <1>2, <1>3, GateMapped

LEMMA GateSteps ==
  ExporterInv /\ ExporterInv' /\ [Next]_exporterVars => [Gate!GateNext]_(Gate!gateVars)
<1> SUFFICES ASSUME ExporterInv, ExporterInv', [Next]_exporterVars
             PROVE  [Gate!GateNext]_(Gate!gateVars)
  OBVIOUS
<1>1. CASE Take \/ RateRefuse \/ RatePass \/ Handle \/ Reply
  BY <1>1, GateStutters
<1>2. CASE Claim \/ Compare \/ Refuse \/ Leave
  <2>1. PICK r \in Requests : r = hand.r
    BY <1>2, AtHand DEF Claim, Compare, Refuse, Leave
  <2> QED
    BY <1>2, <2>1, GateClaims, GateDecides, GateReleases DEF Gate!GateNext
<1>3. CASE Tick \/ (\E r \in Requests : Arrive(r)) \/ UNCHANGED exporterVars
  <2>1. UNCHANGED <<active, hand, max_concurrent>>
    BY <1>3 DEF Tick, Arrive, exporterVars
  <2>2. UNCHANGED <<Places, Fetched>>
    BY <2>1 DEF Places, Fetched
  <2> QED
    BY <2>1, <2>2, GateMapped
<1> QED
  BY <1>1, <1>2, <1>3 DEF Next, Loop

\* Every way out of the loop's body takes back what its way in added, so that
\* what is proved of the gate holds of ACTIVE_REQUESTS (main.rs:61-85).
THEOREM ActiveRequestsAreGated == ExporterSpec => ActiveIsAGate
BY GateStarts, GateSteps, ExporterInvariant, PTL DEF ExporterSpec, ActiveIsAGate, Gate!GateSpec
============================================================================
