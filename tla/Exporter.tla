------------------------------ MODULE Exporter ------------------------------
(***************************************************************************)
(* tcpstats-exporter's request loop (utils/tcpstats-exporter/src/main.rs). *)
(*                                                                         *)
(* The HTTP library (external) parses requests on its own threads and      *)
(* queues them; the one thread of main takes them off the queue, each to   *)
(* the end before the next.  A request passes a rate limit, which compares *)
(* the clock with the time the last request got past it, and a concurrency *)
(* limit, which is the protocol of AdmissionGate; then it is counted,      *)
(* routed and answered.  /metrics collects from the kernel, which may      *)
(* fail, and shows the count of requests.                                  *)
(***************************************************************************)
EXTENDS Integers, Sequences, FiniteSets

CONSTANTS
  Requests,        \* the requests clients send
  Limits,          \* values of max_concurrent: Config's default is 2 and no option
                   \* changes it (cli.rs:12); zero is there for the loop's refusal
  MinInterval,     \* 1 / max_query_rate in ticks, zero for a rate without bound
  MaxTime,         \* bound: the last tick of the clock
  NoRequest        \* stands for no request at hand

ASSUME ExporterAssumption ==
  /\ IsFiniteSet(Requests) /\ NoRequest \notin Requests
  /\ Limits \subseteq Nat /\ MinInterval \in Nat /\ MaxTime \in Nat

Never == -1
Times == 0..MaxTime
Paths == {"metrics", "root", "other"}
Codes == {200, 404, 429, 500}

VARIABLES
  max_concurrent,  \* config.max_concurrent
  clock,     \* Instant::now()
  queue,     \* requests that have arrived and wait, in order
  path,      \* path[r]: the method and url of r
  hand,      \* the request the loop is at: where, which one, what fetch_add
             \* returned, the response prepared for it
  last,      \* last_request_time, or Never
  active,    \* ACTIVE_REQUESTS
  total,     \* HTTP_REQUESTS_TOTAL
  answer,    \* answer[r]: the status sent, 0 before
  shown,     \* the count on the last page of metrics sent
  passed     \* history: passed[r] is when r got past the rate limit, or Never

exporterVars ==
  <<max_concurrent, clock, queue, path, hand, last, active, total, answer, shown, passed>>

Idle == [pc |-> "idle", r |-> NoRequest, old |-> 0, code |-> 0]

ExporterTypeOK ==
  /\ max_concurrent \in Limits
  /\ clock \in Times
  /\ Len(queue) <= Cardinality(Requests) /\ \A i \in DOMAIN queue : queue[i] \in Requests
  /\ path \in [Requests -> Paths]
  /\ hand \in [pc : {"idle", "limit", "claim", "compare", "refuse", "handle", "reply",
                     "leave"},
               r : Requests \cup {NoRequest},
               old : 0..Cardinality(Requests), code : Codes \cup {0}]
  /\ last \in Times \cup {Never}
  /\ active \in 0..Cardinality(Requests)
  /\ total \in 0..Cardinality(Requests)
  /\ answer \in [Requests -> Codes \cup {0}]
  /\ shown \in 0..Cardinality(Requests)
  /\ passed \in [Requests -> Times \cup {Never}]

Init ==
  /\ max_concurrent \in Limits
  /\ clock = 0
  /\ queue = <<>>
  /\ path \in [Requests -> Paths]
  /\ hand = Idle
  /\ last = Never
  /\ active = 0
  /\ total = 0
  /\ answer = [r \in Requests |-> 0]
  /\ shown = 0
  /\ passed = [r \in Requests |-> Never]

Waiting(r) == r = hand.r \/ \E i \in DOMAIN queue : queue[i] = r

---------------------------------------------------------------------------
Tick ==
  /\ clock < MaxTime
  /\ clock' = clock + 1
  /\ UNCHANGED <<max_concurrent, queue, path, hand, last, active, total, answer, shown, passed>>

\* The HTTP library queues a request.
Arrive(r) ==
  /\ ~Waiting(r) /\ answer[r] = 0
  /\ queue' = Append(queue, r)
  /\ UNCHANGED <<max_concurrent, clock, path, hand, last, active, total, answer, shown, passed>>

\* Mutant: every request is counted, refused or not.
TakeCounts ==
  /\ hand.pc = "idle" /\ queue # <<>>
  /\ hand' = [Idle EXCEPT !.pc = "limit", !.r = Head(queue)]
  /\ queue' = Tail(queue)
  /\ total' = total + 1
  /\ UNCHANGED <<max_concurrent, clock, path, last, active, answer, shown, passed>>

\* The loop takes the next request.
Take ==
  /\ hand.pc = "idle" /\ queue # <<>>
  /\ hand' = [Idle EXCEPT !.pc = "limit", !.r = Head(queue)]
  /\ queue' = Tail(queue)
  /\ UNCHANGED <<max_concurrent, clock, path, last, active, total, answer, shown, passed>>

TooSoon == last # Never /\ clock - last < MinInterval

\* Mutant: a refusal restarts the interval.
RateRefuseRestarts ==
  /\ hand.pc = "limit" /\ TooSoon
  /\ last' = clock
  /\ answer' = [answer EXCEPT ![hand.r] = 429]
  /\ hand' = Idle
  /\ UNCHANGED <<max_concurrent, clock, queue, path, active, total, shown, passed>>

\* Mutant: a request too soon is dropped.
RateRefuseSilent ==
  /\ hand.pc = "limit" /\ TooSoon
  /\ hand' = Idle
  /\ UNCHANGED <<max_concurrent, clock, queue, path, last, active, total, answer, shown, passed>>

\* The rate limit: a request too soon is answered at once and leaves no trace.
RateRefuse ==
  /\ hand.pc = "limit" /\ TooSoon
  /\ answer' = [answer EXCEPT ![hand.r] = 429]
  /\ hand' = Idle
  /\ UNCHANGED <<max_concurrent, clock, queue, path, last, active, total, shown, passed>>

\* Mutant: the time is only set the first time.
RatePassOnce ==
  /\ hand.pc = "limit" /\ ~TooSoon
  /\ last' = IF last = Never THEN clock ELSE last
  /\ passed' = [passed EXCEPT ![hand.r] = clock]
  /\ hand' = [hand EXCEPT !.pc = "claim"]
  /\ UNCHANGED <<max_concurrent, clock, queue, path, active, total, answer, shown>>

RatePass ==
  /\ hand.pc = "limit" /\ ~TooSoon
  /\ last' = clock
  /\ passed' = [passed EXCEPT ![hand.r] = clock]
  /\ hand' = [hand EXCEPT !.pc = "claim"]
  /\ UNCHANGED <<max_concurrent, clock, queue, path, active, total, answer, shown>>

\* The concurrency limit: fetch_add, and the comparison of what it returned.
Claim ==
  /\ hand.pc = "claim"
  /\ active' = active + 1
  /\ hand' = [hand EXCEPT !.pc = "compare", !.old = active]
  /\ UNCHANGED <<max_concurrent, clock, queue, path, last, total, answer, shown, passed>>

Compare ==
  /\ hand.pc = "compare"
  /\ IF hand.old >= max_concurrent
     THEN hand' = [hand EXCEPT !.pc = "refuse"] /\ UNCHANGED total
     ELSE hand' = [hand EXCEPT !.pc = "handle"] /\ total' = total + 1
  /\ UNCHANGED <<max_concurrent, clock, queue, path, last, active, answer, shown, passed>>

\* A refused request takes its addition back and is answered.
Refuse ==
  /\ hand.pc = "refuse"
  /\ active' = active - 1
  /\ answer' = [answer EXCEPT ![hand.r] = 429]
  /\ hand' = Idle
  /\ UNCHANGED <<max_concurrent, clock, queue, path, last, total, shown, passed>>

\* Routing, and the handler of the path: a collection succeeds or fails.
Handle ==
  /\ hand.pc = "handle"
  /\ \E code \in CASE path[hand.r] = "metrics" -> {200, 500}
                   [] path[hand.r] = "root" -> {200}
                   [] OTHER -> {404} :
       /\ hand' = [hand EXCEPT !.pc = "reply", !.code = code]
       /\ shown' = IF path[hand.r] = "metrics" /\ code = 200 THEN total ELSE shown
  /\ UNCHANGED <<max_concurrent, clock, queue, path, last, active, total, answer, passed>>

\* The answer is sent, or the client has gone away: the result is ignored.
Reply ==
  /\ hand.pc = "reply"
  /\ answer' = [answer EXCEPT ![hand.r] = hand.code]
  /\ hand' = [hand EXCEPT !.pc = "leave"]
  /\ UNCHANGED <<max_concurrent, clock, queue, path, last, active, total, shown, passed>>

\* Mutant: a collection that failed does not give its place back.
LeaveLeaks ==
  /\ hand.pc = "leave"
  /\ active' = IF hand.code = 500 THEN active ELSE active - 1
  /\ hand' = Idle
  /\ UNCHANGED <<max_concurrent, clock, queue, path, last, total, answer, shown, passed>>

Leave ==
  /\ hand.pc = "leave"
  /\ active' = active - 1
  /\ hand' = Idle
  /\ UNCHANGED <<max_concurrent, clock, queue, path, last, total, answer, shown, passed>>

Loop ==
  \/ Take \/ RateRefuse \/ RatePass \/ Claim \/ Compare \/ Refuse
  \/ Handle \/ Reply \/ Leave
Next == Tick \/ Loop \/ \E r \in Requests : Arrive(r)

ExporterSpec == Init /\ [][Next]_exporterVars

\* The loop's thread runs, and a collection returns (dev_share shows that of
\* the device); requests and the clock come as they like.
ExporterFairSpec == ExporterSpec /\ WF_exporterVars(Loop)

---------------------------------------------------------------------------
\* Requests get past the rate limit at least an interval apart, however they
\* queue up and however long each takes (main.rs:45-59).
RateSpaced ==
  \A r, s \in Requests :
    r # s /\ passed[r] # Never /\ passed[s] # Never =>
      passed[r] - passed[s] >= MinInterval \/ passed[s] - passed[r] >= MinInterval

\* A request is refused only for one that got past less than an interval ago:
\* clients that keep asking too soon do not lock themselves out, because a
\* refusal does not restart the interval (main.rs:50-58); and a concurrency
\* limit above zero refuses nobody, because one thread answers everybody
\* (main.rs:63).
RefusalsEarned ==
  [][\A r \in Requests : max_concurrent > 0 /\ answer[r] # 429 /\ answer'[r] = 429 =>
       \E s \in Requests : passed[s] # Never /\ clock - passed[s] < MinInterval]_exporterVars

\* The counter of requests is the number of those that were answered and not
\* refused, and of the one being answered; the last page shown counted itself
\* and no request after it (main.rs:72, 94).
TotalBalanced ==
  /\ total = Cardinality({r \in Requests : answer[r] \notin {0, 429}})
             + IF hand.pc \in {"handle", "reply"} THEN 1 ELSE 0
  /\ shown <= total
  /\ hand.pc = "reply" /\ hand.code = 200 /\ path[hand.r] = "metrics" => shown = total

\* ACTIVE_REQUESTS is an admission gate like those of the kernel module, with
\* requests for clients: every way out of the loop's body takes back what its
\* way in added (main.rs:61-85).
Gate == INSTANCE AdmissionGate WITH
  Clients <- Requests,
  Limits  <- Limits,
  count   <- active,
  st      <- [r \in Requests |->
                IF r # hand.r \/ hand.pc \in {"limit", "claim"} THEN "out"
                ELSE IF hand.pc = "compare" THEN "claiming"
                ELSE IF hand.pc = "refuse" THEN "refused" ELSE "in"],
  old     <- [r \in Requests |-> IF r = hand.r /\ hand.pc = "compare" THEN hand.old ELSE 0],
  limit   <- max_concurrent
ActiveIsAGate == Gate!GateSpec

\* Every request that arrived is answered.
Answered == \A r \in Requests : Waiting(r) ~> answer[r] # 0
============================================================================
