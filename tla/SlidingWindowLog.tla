-------------------------- MODULE SlidingWindowLog ---------------------------
(***************************************************************************)
(* The sliding-window-log limiter (src/algorithms/sliding_window_log.rs):  *)
(* the check loop, with the log of the times of the admitted requests      *)
(* under the key.  The clock counts milliseconds.                          *)
(***************************************************************************)
EXTENDS CheckLoop, SequencesExt

CONSTANTS
  MaxRequests,   \* max_requests of the configuration
  WindowMs       \* window_ms: window_secs of the configuration, in milliseconds

ASSUME LogAssumption == MaxRequests \in Nat /\ WindowMs \in Nat \ {0}

VARIABLES
  admitted,  \* history: the reading each unit of cost let in so far came with, in the order of the writes
  newest,    \* history: whether every write so far used a reading no older than the last
  rewinds    \* history: the writes that did not, and the units let in before the last of them

ledger == <<admitted, newest, rewinds>>
vars == <<loopVars, ledger>>

Times == 0..MaxClock
States == {s \in Seq(Nat) : Len(s) <= MaxRequests}

\* The log of a key that has none.
Fresh(n) == <<>>

\* Deviation of Covers: what is as old as the window is long stays in it.
CoversTooMuch(i, n) == i >= n - WindowMs

\* Deviation of Covers: what the window still covers by a millisecond is dropped.
CoversTooLittle(i, n) == i > n - WindowMs + 1

\* The window that ends with n covers an entry of time i.
Covers(i, n) == i > n - WindowMs

\* What is left of log s by a clock that shows n: Vec::retain, entry by entry.
Kept(s, n) ==
  LET kept[i \in 0..Len(s)] ==
        IF i = 0 THEN <<>>
        ELSE IF Covers(s[i], n) THEN Append(kept[i - 1], s[i]) ELSE kept[i - 1]
  IN  kept[Len(s)]

\* Deviation of Fits: a request is let in while the log is shorter than the limit.
FitsBeforeCost(s, n, c) == Len(Kept(s, n)) < MaxRequests

Fits(s, n, c) == Len(Kept(s, n)) + c <= MaxRequests

\* Deviation of LogAfter: a request is logged once, whatever it costs.
LogAfterOnce(s, n, c) == IF Fits(s, n, c) THEN Append(Kept(s, n), n) ELSE Kept(s, n)

LogAfter(s, n, c) ==
  IF Fits(s, n, c) THEN Kept(s, n) \o [i \in 1..c |-> n] ELSE Kept(s, n)

\* The first entry is taken for the oldest one.
UntilOldestLeaves(s, n) ==
  LET oldest == IF Kept(s, n) = <<>> THEN n ELSE Kept(s, n)[1] IN
  IF oldest + WindowMs > n THEN oldest + WindowMs - n ELSE 0

\* The subtraction saturates at zero.
LeftOf(length) == IF length <= MaxRequests THEN MaxRequests - length ELSE 0

\* A request of cost c, by a clock that shows n, finds log s.
Evaluate(s, n, c) ==
  [state     |-> LogAfter(s, n, c),
   allowed   |-> Fits(s, n, c),
   remaining |-> LeftOf(Len(Kept(s, n)) + (IF Fits(s, n, c) THEN c ELSE 0)),
   wait      |-> IF Fits(s, n, c) THEN 0 ELSE UntilOldestLeaves(s, n)]

Outcome(t) == Evaluate(snap[t], now[t], cost[t])

\* What the outcome lets in, whether its caller learns of it or not.
Granted(t) == IF Outcome(t).allowed THEN cost[t] ELSE 0

Book(t, grant) ==
  /\ admitted' = admitted \o [i \in 1..grant |-> now[t]]
  /\ newest' = [ordered |-> newest.ordered /\ newest.time <= now[t], time |-> now[t]]
  /\ rewinds' = IF newest.time <= now[t] THEN rewinds
                ELSE [count |-> rewinds.count + 1, units |-> Len(admitted)]

Init ==
  /\ LoopInit(Fresh(0))
  /\ admitted = <<>>
  /\ newest = [ordered |-> TRUE, time |-> 0]
  /\ rewinds = [count |-> 0, units |-> 0]

Next ==
  \/ \E t \in Tasks :
       \/ \E c \in Costs : Begin(t, c) /\ UNCHANGED ledger
       \/ Get(t, Fresh(now[t])) /\ UNCHANGED ledger
       \/ Commit(t, Outcome(t)) /\ Book(t, Granted(t))
       \/ CommitUnseen(t, Outcome(t)) /\ Book(t, Granted(t))
       \/ Conflict(t) /\ UNCHANGED ledger
       \/ Wake(t) /\ UNCHANGED ledger
       \/ Abandon(t) /\ UNCHANGED ledger
  \/ Tick /\ UNCHANGED ledger

Spec == Init /\ [][Next]_vars

-----------------------------------------------------------------------------
(* Every variable has its type, and "O(max_requests) state per client"     *)
(* (l.7): the log never outgrows the limit, whatever the order of writes.  *)
TypeOK ==
  /\ LoopTypeOK(States)
  /\ admitted \in Seq(Nat)
  /\ newest \in [ordered : BOOLEAN, time : Nat]
  /\ rewinds \in [count : Nat, units : Nat]

Sorted(s) == \A i, j \in DOMAIN s : i < j => s[i] <= s[j]

\* The units let in during the window that ends with n.
SeenBy(n) == {i \in DOMAIN admitted : n - WindowMs < admitted[i] /\ admitted[i] <= n}

(* "Perfectly accurate -- no boundary burst" (sliding_window_log.rs l.6),  *)
(* which holds as long as the readings reach the store in order: no        *)
(* stretch of time as long as the window sees more than MaxRequests.       *)
NoBurstInOrder ==
  newest.ordered => \A n \in Times : Cardinality(SeenBy(n)) <= MaxRequests

(* What is left of that when they do not, and an older reading meets a log *)
(* that a newer one has shortened (l.71): it is let in as much once more   *)
(* for every write whose reading was older than the one before.            *)
BurstPerRewind ==
  \A n \in Times : Cardinality(SeenBy(n)) <= MaxRequests * (1 + rewinds.count)

(* Then the log is exactly what was let in during the window that ends     *)
(* with the last write (l.70-78), oldest first (l.19).                     *)
LogIsExact ==
  newest.ordered =>
    LET gone == Len(admitted) - Len(entry) IN
    /\ gone >= 0
    /\ \A i \in DOMAIN entry : entry[i] = admitted[gone + i]
    /\ \A i \in DOMAIN admitted : i > gone <=> admitted[i] > newest.time - WindowMs
    /\ Sorted(entry)

\* The history is in order as long as the readings were.
HistoryInOrder ==
  newest.ordered =>
    /\ Sorted(admitted)
    /\ \A i \in DOMAIN admitted : admitted[i] <= newest.time

\* A unit finds no room before the one MaxRequests earlier has left the window.
Spaced ==
  newest.ordered =>
    \A i \in DOMAIN admitted : i + MaxRequests \in DOMAIN admitted =>
      admitted[i] + WindowMs <= admitted[i + MaxRequests]

\* What a round read under the version that is still current is what is stored.
SnapshotsFaithful ==
  /\ version = 0 => entry = <<>>
  /\ \A t \in Tasks : pc[t] = "cas" /\ expected[t] = version => snap[t] = entry

(* A denied task left the log too full for it, and was told when the first *)
(* entry leaves, until another task writes; a task has no answer while its *)
(* check runs.                                                             *)
WaitsInOrder ==
  \A t \in Tasks :
    /\ pc[t] # "idle" => reply[t].verdict = "none"
    /\ reply[t].verdict = "denied" =>
         /\ reply[t].stamp <= version
         /\ reply[t].stamp = version =>
              /\ Len(entry) + cost[t] > MaxRequests
              /\ entry # <<>> => entry[1] + WindowMs <= now[t] + reply[t].wait

(* The inductive invariant the theorems rest on: types, what each round    *)
(* knows of the store it read (l.61-68), the log beside the history of     *)
(* what was let in, and what each task was told.                           *)
IInv ==
  /\ TypeOK
  /\ RoundsInOrder
  /\ ContentionHasCause
  /\ SnapshotsFaithful
  /\ HistoryInOrder
  /\ Spaced
  /\ LogIsExact
  /\ WaitsInOrder

(* A denied caller of cost 1 that comes back after retry_after_ms          *)
(* (l.80-82) is let in if nobody else came meanwhile: the first entry has  *)
(* left the window by then, even in a log that is out of order.            *)
RetryForOneSucceeds ==
  \A t \in Tasks :
    reply[t].verdict = "denied" /\ reply[t].stamp = version /\ cost[t] = 1 /\ MaxRequests > 0
      => Evaluate(entry, now[t] + reply[t].wait, 1).allowed

(* A check decides in one step, for all that its callers can see           *)
(* (sliding_window_log.rs l.51-113).                                       *)
Atomic == INSTANCE AtomicLimiter
            WITH Nothing <- Fresh(0), open <- [t \in Tasks |-> pc[t] # "idle"]
ChecksAreAtomic == Atomic!Spec
=============================================================================
