----------------------------- MODULE TokenBucket -----------------------------
(***************************************************************************)
(* The token-bucket limiter (src/algorithms/token_bucket.rs): the check    *)
(* loop, with a bucket of tokens and the time it was last refilled under   *)
(* the key.  The clock counts milliseconds, as now_ms does.  The code      *)
(* keeps tokens in an f64; here they are counted in units, of which a      *)
(* token has Unit and a millisecond refills Rate, so that every quantity   *)
(* the code computes before its final truncations is exact.                *)
(***************************************************************************)
EXTENDS RateLedger

CONSTANTS
  Capacity,   \* capacity, in units
  Rate,       \* refill_rate, in units per millisecond
  Unit        \* units of one token

ASSUME BucketAssumption ==
  Capacity \in Nat /\ Rate \in Nat \ {0} /\ Unit \in Nat \ {0}

vars == <<loopVars, ledger>>

States == [tokens : Nat, last : Nat]

AtMost(x, limit) == IF x <= limit THEN x ELSE limit

\* The bucket of a key that has none starts full.
Fresh(n) == [tokens |-> Capacity, last |-> n]

\* The tokens of bucket s by a clock that shows n.
Refilled(s, n) == AtMost(s.tokens + Elapsed(s.last, n) * Rate, Capacity)

Fits(s, n, c) == c * Unit <= Refilled(s, n)

TokensAfter(s, n, c) == IF Fits(s, n, c) THEN Refilled(s, n) - c * Unit ELSE Refilled(s, n)

\* Deviation of UntilRefilled: Rate is taken for whole tokens per millisecond.
UntilRefilledInTokens(s, n, c) == (c * Unit - Refilled(s, n)) \div (Rate * Unit)

\* In milliseconds, truncated.
UntilRefilled(s, n, c) == (c * Unit - Refilled(s, n)) \div Rate

\* Deviation of Evaluate: a denied request refills the bucket but keeps its time.
EvaluateKeepsTime(s, n, c) ==
  [state     |-> [tokens |-> TokensAfter(s, n, c), last |-> IF Fits(s, n, c) THEN n ELSE s.last],
   allowed   |-> Fits(s, n, c),
   remaining |-> TokensAfter(s, n, c) \div Unit,
   wait      |-> IF Fits(s, n, c) THEN 0 ELSE UntilRefilled(s, n, c)]

\* A request of cost c, by a clock that shows n, finds bucket s.
Evaluate(s, n, c) ==
  [state     |-> [tokens |-> TokensAfter(s, n, c), last |-> n],
   allowed   |-> Fits(s, n, c),
   remaining |-> TokensAfter(s, n, c) \div Unit,
   wait      |-> IF Fits(s, n, c) THEN 0 ELSE UntilRefilled(s, n, c)]

Outcome(t) == Evaluate(snap[t], now[t], cost[t])

Price(t) == IF Outcome(t).allowed THEN cost[t] * Unit ELSE 0

Init ==
  /\ LoopInit(Fresh(0))
  /\ LedgerInit

Next ==
  \/ \E t \in Tasks :
       \/ \E c \in Costs : Begin(t, c) /\ OpenAccount(t)
       \/ Get(t, Fresh(now[t])) /\ UNCHANGED ledger
       \/ Commit(t, Outcome(t)) /\ Book(t, Price(t))
       \/ CommitUnseen(t, Outcome(t)) /\ Book(t, Price(t))
       \/ Conflict(t) /\ UNCHANGED ledger
       \/ Wake(t) /\ UNCHANGED ledger
       \/ Abandon(t) /\ UNCHANGED ledger
  \/ Tick /\ UNCHANGED ledger
  \/ Observe

Spec == Init /\ [][Next]_vars

-----------------------------------------------------------------------------
\* Every variable has its type.
TypeOK ==
  /\ LoopTypeOK(States)
  /\ LedgerTypeOK

\* What a round read is what is stored, unless another task wrote meanwhile.
SnapshotsFaithful ==
  \A t \in Tasks : pc[t] = "cas" =>
    /\ expected[t] = 0 => snap[t] = Fresh(now[t])
    /\ expected[t] = version /\ version > 0 => snap[t] = entry

\* A bucket never holds more than its capacity.
BucketFits == entry.tokens <= Capacity /\ \A t \in Tasks : snap[t].tokens <= Capacity

(* The rate of token_bucket.rs l.3-4, as far as the code keeps it: from    *)
(* whenever one starts to count, what is granted and what is left in the   *)
(* bucket come from a full bucket and the refill of the time that passed,  *)
(* plus once more the refill of every stretch of time the stored refill    *)
(* time was moved back over (l.68 and l.79: elapsed is clamped to 0, but   *)
(* last_refill_ms is overwritten with the older reading).                  *)
RateBound ==
  version > 0 =>
    granted + entry.tokens <= Capacity + Rate * (entry.last - base + rewound)

PaysAsAnswered(t) ==
  reply[t].verdict # "none" =>
    charged[t] = IF reply[t].verdict = "allowed" THEN cost[t] * Unit ELSE 0

(* What is known of the accounts of a task: it has no answer while its     *)
(* check runs, and if its calls are answered it has then paid nothing.     *)
AccountsInOrder ==
  \A t \in Tasks :
    /\ pc[t] # "idle" => reply[t].verdict = "none"
    /\ t \notin Unreliable =>
         /\ pc[t] # "idle" => charged[t] = 0
         /\ PaysAsAnswered(t)

(* The wait a denied task was told is that of the bucket it left behind,   *)
(* until another task writes.                                              *)
WaitsInOrder ==
  \A t \in Tasks : reply[t].verdict = "denied" =>
    /\ reply[t].stamp <= version
    /\ reply[t].stamp = version =>
         /\ entry.last = now[t]
         /\ reply[t].wait = (cost[t] * Unit - entry.tokens) \div Rate

(* Before the first write nothing was granted and nothing rewound.         *)
NothingBooked == version = 0 => granted = 0 /\ rewound = 0

(* The inductive invariant the theorems rest on: types, the order of the   *)
(* rounds, what each round knows of the bucket it read (l.59-66), the      *)
(* capacity, the rate, and what each task paid and was told.               *)
IInv ==
  /\ TypeOK
  /\ RoundsInOrder
  /\ ContentionHasCause
  /\ SnapshotsFaithful
  /\ BucketFits
  /\ NothingBooked
  /\ RateBound
  /\ AccountsInOrder
  /\ WaitsInOrder

(* "A request consumes `cost` tokens; if the bucket doesn't have enough,   *)
(* the request is rejected" (token_bucket.rs l.4-5): an answered check has *)
(* taken its price if it was told to proceed, once, and nothing otherwise. *)
ChargedAsAnswered == \A t \in Tasks : PaysAsAnswered(t)

(* The same of the tasks whose calls are answered, whatever happens to the *)
(* calls of the others.                                                    *)
ReliablyCharged == \A t \in Tasks \ Unreliable : PaysAsAnswered(t)

(* What lost answers cost at most: a check pays its price in each of its   *)
(* rounds, and one that is let in has paid at least once (l.53, l.82-97).  *)
PaysByRound ==
  \A t \in Tasks :
    /\ charged[t] <= MaxAttempts * (cost[t] * Unit)
    /\ reply[t].verdict = "allowed" => cost[t] * Unit <= charged[t]

(* A denied caller that comes back one millisecond after retry_after_ms    *)
(* (l.74-75, "how long the caller should wait", limiter.rs l.14) is let in *)
(* if nobody else came meanwhile: the wait is cut to whole milliseconds.   *)
RetrySucceedsSoon ==
  \A t \in Tasks :
    reply[t].verdict = "denied" /\ reply[t].stamp = version /\ cost[t] * Unit <= Capacity
      => Evaluate(entry, now[t] + reply[t].wait + 1, cost[t]).allowed

(* A bucket behind the loop is one that decides in one step: the service   *)
(* may take it for the abstract limiter (token_bucket.rs l.52-101).        *)
Atomic == INSTANCE AtomicLimiter
            WITH Nothing <- Fresh(0), open <- [t \in Tasks |-> pc[t] # "idle"]
ChecksAreAtomic == Atomic!Spec
=============================================================================
