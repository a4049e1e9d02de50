----------------------------- MODULE LeakyBucket -----------------------------
(***************************************************************************)
(* The leaky-bucket limiter (src/algorithms/leaky_bucket.rs): the check    *)
(* loop, with the depth of a queue and the time it last leaked under the   *)
(* key.  There is no queue of requests in the code: a request that fits is *)
(* answered at once and only the depth is kept.  Units as in TokenBucket.  *)
(***************************************************************************)
EXTENDS RateLedger

CONSTANTS
  QueueCapacity,   \* capacity, in requests of cost 1
  LeakRate,        \* leak_rate, in units per millisecond
  Unit             \* units of a request of cost 1

ASSUME QueueAssumption ==
  QueueCapacity \in Nat /\ LeakRate \in Nat \ {0} /\ Unit \in Nat \ {0}

vars == <<loopVars, ledger>>

Cap == QueueCapacity * Unit
States == [queue : 0..Cap, last : Nat]

Leaked(queue, ms) == IF queue >= ms * LeakRate THEN queue - ms * LeakRate ELSE 0

Fresh(n) == [queue |-> 0, last |-> n]

\* The queue of s by a clock that shows n, and with a request of cost c in it.
QueueAt(s, n) == Leaked(s.queue, Elapsed(s.last, n))
QueueWith(s, n, c) == QueueAt(s, n) + c * Unit

\* Deviation of Fits: a request is queued while there is any room.
FitsBeforeCost(s, n, c) == QueueAt(s, n) < Cap

Fits(s, n, c) == QueueWith(s, n, c) <= Cap

QueueAfter(s, n, c) == IF Fits(s, n, c) THEN QueueWith(s, n, c) ELSE QueueAt(s, n)

\* In milliseconds, truncated.
UntilLeaked(s, n, c) == (QueueWith(s, n, c) - Cap) \div LeakRate

\* Deviation of Evaluate: a denied request leaks the queue but keeps its time.
EvaluateKeepsTime(s, n, c) ==
  [state     |-> [queue |-> QueueAfter(s, n, c), last |-> IF Fits(s, n, c) THEN n ELSE s.last],
   allowed   |-> Fits(s, n, c),
   remaining |-> (Cap - QueueAfter(s, n, c)) \div Unit,
   wait      |-> IF Fits(s, n, c) THEN 0 ELSE UntilLeaked(s, n, c)]

\* A request of cost c, by a clock that shows n, finds queue s.
Evaluate(s, n, c) ==
  [state     |-> [queue |-> QueueAfter(s, n, c), last |-> n],
   allowed   |-> Fits(s, n, c),
   remaining |-> (Cap - QueueAfter(s, n, c)) \div Unit,
   wait      |-> IF Fits(s, n, c) THEN 0 ELSE UntilLeaked(s, n, c)]

Outcome(t) == Evaluate(snap[t], now[t], cost[t])

Price(t) == IF Outcome(t).allowed THEN cost[t] * Unit ELSE 0

Init ==
  /\ LoopInit(Fresh(0))
  /\ LedgerInit

Next ==
  \/ \E t \in Tasks :
       \/ \E c \in Costs : Begin(t, c) /\ OpenAccount(t)
       \/ Get(t, Fresh(now[t])) /\ UNCHANGED ledger
       \/ Commit(t, Outcome(t)) /\ Book(t, Price(t))
       \/ CommitUnseen(t, Outcome(t)) /\ Book(t, Price(t))
       \/ Conflict(t) /\ UNCHANGED ledger
       \/ Wake(t) /\ UNCHANGED ledger
       \/ Abandon(t) /\ UNCHANGED ledger
  \/ Tick /\ UNCHANGED ledger
  \/ Observe

Spec == Init /\ [][Next]_vars

-----------------------------------------------------------------------------
\* Every variable has its type; the queue never overflows its capacity.
TypeOK ==
  /\ LoopTypeOK(States)
  /\ LedgerTypeOK

(* The inductive invariant the theorems rest on: what is stored is a queue *)
(* within its capacity, and a round that runs is one the loop may run.     *)
IInv == TypeOK /\ RoundsInOrder

\* The free room of a queue is a bucket of tokens.
Room(s) == [tokens |-> Cap - s.queue, last |-> s.last]

TB == INSTANCE TokenBucket
        WITH Capacity <- Cap, Rate <- LeakRate,
             entry <- Room(entry), snap <- [t \in Tasks |-> Room(snap[t])]

(* As far as its answers go, the leaky bucket IS a token bucket that       *)
(* starts full (leaky_bucket.rs l.67-77 against token_bucket.rs l.68-77):  *)
(* same grants, same waits, same remaining.                                *)
IsTokenBucket == TB!Spec

(* "Processed at a constant `leak_rate`" (leaky_bucket.rs l.3-4), as far   *)
(* as the code keeps it: from whenever one starts to count, what is let in *)
(* is still queued, which is no more than fits (l.71), or leaked since; the *)
(* time the stored reading was moved back over leaks twice (l.67, l.79).   *)
RateBound ==
  version > 0 =>
    /\ entry.queue <= Cap
    /\ granted <= entry.queue + LeakRate * (entry.last - base + rewound)

(* What a task is told and what is queued for it agree, as in TokenBucket. *)
ReliablyCharged == TB!ReliablyCharged

(* A denied caller that comes back one millisecond after retry_after_ms    *)
(* (l.73-76) finds room if nobody else came meanwhile.                     *)
RetrySucceedsSoon ==
  \A t \in Tasks :
    reply[t].verdict = "denied" /\ reply[t].stamp = version /\ cost[t] * Unit <= Cap
      => Evaluate(entry, now[t] + reply[t].wait + 1, cost[t]).allowed

(* A queue behind the loop is one that decides in one step (l.52-101).     *)
Atomic == INSTANCE AtomicLimiter
            WITH Nothing <- Fresh(0), open <- [t \in Tasks |-> pc[t] # "idle"]
ChecksAreAtomic == Atomic!Spec
=============================================================================
