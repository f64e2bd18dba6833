---------------------------- MODULE RateLimiter ----------------------------
(***************************************************************************)
(* The token bucket every writer thread of the tcp-echo client shares      *)
(* (utils/tcp-echo/src/rate.rs).                                           *)
(*                                                                         *)
(* A writer loads the count and, when it covers the write, takes the       *)
(* tokens with a compare-and-exchange that is retried when the count has   *)
(* moved.  The refill thread loads the count, adds a refill to it, caps    *)
(* the sum at one second of tokens and STORES it: tokens taken between its *)
(* load and its store come back.                                           *)
(***************************************************************************)
EXTENDS Naturals

CONSTANTS
  Writers,   \* the writer threads, one for each connection
  Rate,      \* the budget of a second, and the most the bucket holds
  Refill,    \* tokens_per_refill: the budget of one 50 ms refill, rounded up
  Amount     \* what every writer asks for: --payload-size

ASSUME LimiterAssumption ==
  /\ Rate \in Nat \ {0}
  /\ Refill \in 1..Rate
  /\ Amount \in Nat \ {0}

VARIABLES
  tokens,    \* the atomic count
  refiller,  \* the refill thread: where it is, and the count it loaded
  taker,     \* taker[w]: where try_acquire of w is, and the count it loaded
  stored,    \* history: what the last store put in the bucket
  taken,     \* history: what was taken since that store
  minted     \* history: the tokens that store gave a second time

limiterVars == <<tokens, refiller, taker, stored, taken, minted>>

RefillerStates == [pc : {"load", "store", "exit"}, current : 0..Rate]
TakerStates    == [pc : {"load", "cas"}, current : 0..Rate]

LimiterTypeOK ==
  /\ tokens \in 0..Rate
  /\ refiller \in RefillerStates
  /\ taker \in [Writers -> TakerStates]
  /\ stored \in 0..Rate
  /\ taken \in 0..Rate
  /\ minted \in 0..Rate

LimiterInit ==
  /\ tokens = 0
  /\ refiller = [pc |-> "load", current |-> 0]
  /\ taker = [w \in Writers |-> [pc |-> "load", current |-> 0]]
  /\ stored = 0
  /\ taken = 0
  /\ minted = 0

Capped(n) == IF n < Rate THEN n ELSE Rate

---------------------------------------------------------------------------
\* The refill thread looks at the shutdown flag and loads the count.
RefillLoad ==
  /\ refiller.pc = "load"
  /\ refiller' = [pc |-> "store", current |-> tokens]
  /\ UNCHANGED <<tokens, taker, stored, taken, minted>>

\* Mutant: the count is stored as it was.
RefillStoreForgets ==
  /\ refiller.pc = "store"
  /\ tokens' = refiller.current
  /\ refiller' = [refiller EXCEPT !.pc = "load"]
  /\ stored' = tokens'
  /\ taken' = 0
  /\ minted' = refiller.current - tokens
  /\ UNCHANGED taker

\* It stores the count it loaded, refilled and capped, over what is there.
RefillStore ==
  /\ refiller.pc = "store"
  /\ tokens' = Capped(refiller.current + Refill)
  /\ refiller' = [refiller EXCEPT !.pc = "load"]
  /\ stored' = tokens'
  /\ taken' = 0
  /\ minted' = refiller.current - tokens
  /\ UNCHANGED taker

\* It sees the shutdown flag and ends.
RefillExit ==
  /\ refiller.pc = "load"
  /\ refiller' = [refiller EXCEPT !.pc = "exit"]
  /\ UNCHANGED <<tokens, taker, stored, taken, minted>>

\* try_acquire loads a count that covers the write.
AcquireLoad(w) ==
  /\ taker[w].pc = "load"
  /\ tokens >= Amount
  /\ taker' = [taker EXCEPT ![w] = [pc |-> "cas", current |-> tokens]]
  /\ UNCHANGED <<tokens, refiller, stored, taken, minted>>

\* Mutant: the count is stored, whatever it is by now.
AcquireTakeBlind(w) ==
  /\ taker[w].pc = "cas"
  /\ tokens' = taker[w].current - Amount
  /\ taker' = [taker EXCEPT ![w].pc = "load"]
  /\ taken' = taken + Amount
  /\ UNCHANGED <<refiller, stored, minted>>

\* The exchange finds the count it loaded and takes the tokens.
AcquireTake(w) ==
  /\ taker[w].pc = "cas"
  /\ tokens = taker[w].current
  /\ tokens' = taker[w].current - Amount
  /\ taker' = [taker EXCEPT ![w].pc = "load"]
  /\ taken' = taken + Amount
  /\ UNCHANGED <<refiller, stored, minted>>

\* The exchange fails, because the count moved or (compare_exchange_weak)
\* for no reason, and try_acquire starts again.
AcquireRetry(w) ==
  /\ taker[w].pc = "cas"
  /\ taker' = [taker EXCEPT ![w].pc = "load"]
  /\ UNCHANGED <<tokens, refiller, stored, taken, minted>>

Acquire(w) == AcquireLoad(w) \/ AcquireTake(w) \/ AcquireRetry(w)

LimiterNext ==
  \/ RefillLoad
  \/ RefillStore
  \/ RefillExit
  \/ \E w \in Writers : Acquire(w)

LimiterSpec == LimiterInit /\ [][LimiterNext]_limiterVars

\* Every thread runs, and a weak exchange fails without cause only now and
\* then.  Nothing makes the refill thread end.
LimiterFairSpec ==
  /\ LimiterSpec
  /\ WF_limiterVars(RefillLoad \/ RefillStore)
  /\ \A w \in Writers : WF_limiterVars(Acquire(w)) /\ SF_limiterVars(AcquireTake(w))

---------------------------------------------------------------------------
\* Whatever the threads do, the bucket and what was taken since the last
\* store make up exactly what that store put in, one second of tokens at the
\* most: no exchange loses or takes a token twice, whoever else is in
\* try_acquire (rate.rs:31-47, 62-63).
TokensConserved == tokens + taken = stored /\ stored <= Rate

\* While the refill thread runs, writers go on being served, although every
\* store may make the exchange of a writer fail: at the cap a store leaves the
\* count as it is (rate.rs:57, 62-63).  A write larger than the cap is never
\* served.
BucketServes == Amount <= Rate => []<>(taken > 0) \/ <>(refiller.pc = "exit")
============================================================================
