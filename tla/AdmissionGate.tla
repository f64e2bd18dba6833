--------------------------- MODULE AdmissionGate ---------------------------
(***************************************************************************)
(* The admission counter the kernel module uses twice: tcpstats_active_fds *)
(* limited by dev.tcpstats.max_open_fds, and tcpstats_active_readers       *)
(* limited by dev.tcpstats.max_concurrent_readers.                         *)
(*                                                                         *)
(* A client adds one with atomic_fetchadd_int and compares the value the   *)
(* counter had BEFORE the addition with the limit.  A value at or above    *)
(* the limit refuses the client, which takes its addition back with a      *)
(* second atomic operation; in between, the refused client is counted.     *)
(* The limit is a sysctl an administrator may write at any time; the code  *)
(* loads it without a lock, separately from the addition.                  *)
(*                                                                         *)
(* TcpstatsDev implements this specification for both counters.            *)
(***************************************************************************)
EXTENDS Naturals, FiniteSets

CONSTANTS
  Clients,   \* who may hold a place: open files for one gate, threads for the other
  Limits     \* the values the limit's sysctl is given

ASSUME GateAssumption ==
  /\ IsFiniteSet(Clients)
  /\ Limits \subseteq Nat
  /\ \E m \in Limits : \A n \in Limits : n <= m

VARIABLES
  count,     \* the atomic counter
  st,        \* st[c]: "out", "claiming" (has added one, not yet compared),
             \* "in" (admitted) or "refused" (not yet taken back)
  old,       \* old[c]: what the fetch-and-add returned to c, while claiming
  limit      \* the tunable

gateVars == <<count, st, old, limit>>

In       == {c \in Clients : st[c] = "in"}
Claiming == {c \in Clients : st[c] = "claiming"}
Counted  == {c \in Clients : st[c] # "out"}
MaxLimit == CHOOSE m \in Limits : \A n \in Limits : n <= m

GateTypeOK ==
  /\ count \in Nat
  /\ st \in [Clients -> {"out", "claiming", "in", "refused"}]
  /\ old \in [Clients -> Nat]
  /\ limit \in Limits

GateInit ==
  /\ count = 0
  /\ st = [c \in Clients |-> "out"]
  /\ old = [c \in Clients |-> 0]
  /\ limit \in Limits

\* atomic_fetchadd_int(&counter, 1).
Claim(c) ==
  /\ st[c] = "out"
  /\ count' = count + 1
  /\ st' = [st EXCEPT ![c] = "claiming"]
  /\ old' = [old EXCEPT ![c] = count]
  /\ UNCHANGED limit

\* Mutant: a refused client leaves without taking its addition back.
DecideForgets(c) ==
  /\ st[c] = "claiming"
  /\ st' = [st EXCEPT ![c] = IF old[c] >= limit THEN "out" ELSE "in"]
  /\ old' = [old EXCEPT ![c] = 0]
  /\ UNCHANGED <<count, limit>>

\* Mutant: > for >=.
DecideOffByOne(c) ==
  /\ st[c] = "claiming"
  /\ st' = [st EXCEPT ![c] = IF old[c] > limit THEN "refused" ELSE "in"]
  /\ old' = [old EXCEPT ![c] = 0]
  /\ UNCHANGED <<count, limit>>

\* The comparison of the value returned with the limit.
Decide(c) ==
  /\ st[c] = "claiming"
  /\ st' = [st EXCEPT ![c] = IF old[c] >= limit THEN "refused" ELSE "in"]
  /\ old' = [old EXCEPT ![c] = 0]
  /\ UNCHANGED <<count, limit>>

\* atomic_subtract_int(&counter, 1): by a refused client on its way to EMFILE
\* or EBUSY, or by an admitted one that is done.
Release(c) ==
  /\ st[c] \in {"refused", "in"}
  /\ count' = count - 1
  /\ st' = [st EXCEPT ![c] = "out"]
  /\ UNCHANGED <<old, limit>>

SetLimit(n) ==
  /\ limit' = n
  /\ UNCHANGED <<count, st, old>>

GateNext ==
  \/ \E c \in Clients : Claim(c) \/ Decide(c) \/ Release(c)
  \/ \E n \in Limits : SetLimit(n)

GateSpec == GateInit /\ [][GateNext]_gateVars

---------------------------------------------------------------------------
\* The counter is exactly the number of clients that added one and have not
\* taken it back: no exit path forgets its atomic_subtract_int and none runs
\* it twice.
CountBalanced == count = Cardinality(Counted)

\* However the additions, comparisons, back-outs and writes of the limit
\* interleave, no more clients are inside than the largest value the limit
\* was given (the limit itself, while it is not written).
InWithinLimit == Cardinality(In) <= MaxLimit

\* What makes InWithinLimit inductive: a claim that may still be admitted
\* already occupies one of the MaxLimit places.
MayBeIn        == In \cup {c \in Claiming : old[c] < MaxLimit}
PlacesReserved == Cardinality(MayBeIn) <= MaxLimit
============================================================================
