------------------------ MODULE SlidingWindowCounter -------------------------
(***************************************************************************)
(* The sliding-window-counter limiter                                      *)
(* (src/algorithms/sliding_window_counter.rs): the check loop, with the    *)
(* counts of the current and of the previous window under the key.  The    *)
(* code weighs the previous count with the fraction of the window that is  *)
(* left; here both sides are multiplied by WindowSecs, which keeps every   *)
(* quantity an integer and every comparison exact.  The wait comes of an   *)
(* f64 product that may fall just short of the whole millisecond it is.    *)
(***************************************************************************)
EXTENDS WindowLedger

CONSTANT ShortSeconds   \* the seconds of a window at which that product falls short

ASSUME RoundingAssumption == ShortSeconds \subseteq 0..(WindowSecs - 1)

vars == <<loopVars, ledger>>

States == [prev : 0..MaxRequests, count : 0..MaxRequests, window : Nat]

\* The state a request finds that is the first for its key.
Fresh(n) == [prev |-> 0, count |-> 0, window |-> Window(n)]

\* Windows that went by since the state was stored; a stale clock sees none.
Passed(s, n) == IF Window(n) >= s.window THEN Window(n) - s.window ELSE 0

\* Deviation of PrevAt: a window longer ago is taken for the previous one.
PrevAtStale(s, n) == IF Passed(s, n) = 0 THEN s.prev ELSE s.count

PrevAt(s, n) == CASE Passed(s, n) = 0 -> s.prev
                  [] Passed(s, n) = 1 -> s.count
                  [] OTHER -> 0

CountAt(s, n) == IF Passed(s, n) = 0 THEN s.count ELSE 0

\* Of the window a clock that shows n is in.
SecondsLeft(n) == WindowSecs - (n % WindowSecs)

\* Deviation of MsLeft: seconds are told for milliseconds.
MsLeftInSeconds(n) == SecondsLeft(n)

\* What is left of it in milliseconds, truncated by `as i64' (l.90).
MsLeft(n) == SecondsLeft(n) * 1000 - (IF n % WindowSecs \in ShortSeconds THEN 1 ELSE 0)

\* Deviation of Weighted: the previous count is weighed with what went by.
WeightedByElapsed(s, n) == PrevAt(s, n) * (n % WindowSecs) + CountAt(s, n) * WindowSecs

\* The estimate of what the sliding window holds, times WindowSecs.
Weighted(s, n) == PrevAt(s, n) * SecondsLeft(n) + CountAt(s, n) * WindowSecs

\* Deviation of Fits: the cost of the request itself is left out.
FitsBeforeCost(s, n, c) == Weighted(s, n) < MaxRequests * WindowSecs

Fits(s, n, c) == Weighted(s, n) + c * WindowSecs <= MaxRequests * WindowSecs

\* Deviation of CountAfter: a denied request is counted like an admitted one.
CountAfterAll(s, n, c) == CountAt(s, n) + c

CountAfter(s, n, c) ==
  IF Fits(s, n, c) THEN CountAt(s, n) + c ELSE CountAt(s, n)

\* Whole requests left, truncated.
LeftOf(s, n, c) ==
  (MaxRequests * WindowSecs - Weighted(s, n) - c * WindowSecs) \div WindowSecs

\* A request of cost c, by a clock that shows n, finds state s.
Evaluate(s, n, c) ==
  [state     |-> [prev |-> PrevAt(s, n), count |-> CountAfter(s, n, c), window |-> Window(n)],
   allowed   |-> Fits(s, n, c),
   remaining |-> IF Fits(s, n, c) THEN LeftOf(s, n, c) ELSE 0,
   wait      |-> IF Fits(s, n, c) THEN 0 ELSE MsLeft(n)]

Outcome(t) == Evaluate(snap[t], now[t], cost[t])

\* What the outcome lets in, whether its caller learns of it or not.
Granted(t) == IF Outcome(t).allowed THEN cost[t] ELSE 0

Init ==
  /\ LoopInit(Fresh(0))
  /\ LedgerInit

Next ==
  \/ \E t \in Tasks :
       \/ \E c \in Costs : Begin(t, c) /\ UNCHANGED ledger
       \/ Get(t, Fresh(now[t])) /\ UNCHANGED ledger
       \/ Commit(t, Outcome(t)) /\ Book(t, Granted(t))
       \/ CommitUnseen(t, Outcome(t)) /\ Book(t, Granted(t))
       \/ Conflict(t) /\ UNCHANGED ledger
       \/ Wake(t) /\ UNCHANGED ledger
       \/ Abandon(t) /\ UNCHANGED ledger
  \/ Tick /\ UNCHANGED ledger

Spec == Init /\ [][Next]_vars

-----------------------------------------------------------------------------
\* Every variable has its type; no stored count exceeds the limit.
TypeOK ==
  /\ LoopTypeOK(States)
  /\ LedgerTypeOK

AdmittedIn(w) == IF w \in Windows THEN admitted[w] ELSE 0

(* The estimate rests on true counts: as long as no write moved the stored *)
(* window back, the two stored counts are what was admitted in the current *)
(* and in the previous window (sliding_window_counter.rs l.76-81, l.97).   *)
CountsAreAdmissions ==
  version > 0 /\ rewinds = 0 =>
    /\ entry.count = admitted[entry.window]
    /\ entry.prev = AdmittedIn(entry.window - 1)

(* What is let in keeps the sliding estimate within the limit (l.4-8): at  *)
(* its reading n, the fraction of what the window before n's admitted that *)
(* still counts, and all that n's window has admitted with it, are at most *)
(* MaxRequests.  The counts are those of the account, not the stored ones. *)
AdmitsWithinEstimate ==
  [][\A t \in Tasks : LET n == now[t]  w == Window(n) IN
       version' # version /\ pc'[t] # pc[t] /\ admitted' # admitted /\ rewinds' = 0
         => AdmittedIn(w - 1) * SecondsLeft(n) + admitted'[w] * WindowSecs
              <= MaxRequests * WindowSecs]_vars

(* "No boundary burst" (sliding_window_counter.rs l.10): two windows that  *)
(* follow each other never admit twice the limit between them, as those of *)
(* the fixed window may, but at least MaxRequests / WindowSecs less.       *)
NoBoundaryBurst ==
  rewinds = 0 => \A w \in Windows :
    (AdmittedIn(w - 1) + admitted[w]) * WindowSecs <= MaxRequests * (2 * WindowSecs - 1)

(* A denied caller that lets one whole window and one millisecond pass     *)
(* beyond retry_after_ms (l.89-91) is let in if nobody else came meanwhile *)
(* and its cost fits at all: the wait leads to the next window, or to the  *)
(* last millisecond before it, where the counts still weigh.               *)
RetrySucceedsNextWindow ==
  \A t \in Tasks :
    reply[t].verdict = "denied" /\ reply[t].stamp = version /\ cost[t] <= MaxRequests
      => Evaluate(entry, now[t] + (reply[t].wait + 1) \div 1000 + WindowSecs, cost[t]).allowed

\* What a round read is what is stored, unless another task wrote meanwhile.
SnapshotsFaithful ==
  \A t \in Tasks : pc[t] = "cas" =>
    /\ expected[t] = 0 => snap[t] = Fresh(now[t])
    /\ expected[t] = version /\ version > 0 => snap[t] = entry

(* Nothing was admitted before the first write, nor, unless a write moved  *)
(* the stored window back, in a window later than the stored one; and what *)
(* came in since the stored window was entered is within its count.        *)
WindowsInOrder ==
  /\ clock <= MaxClock
  /\ version = 0 => rewinds = 0 /\ \A w \in Windows : admitted[w] = 0
  /\ version > 0 => entry.window \in Windows
  /\ version > 0 /\ rewinds = 0 => \A w \in Windows : w > entry.window => admitted[w] = 0
  /\ since <= (IF version = 0 THEN 0 ELSE entry.count)

(* The wait a denied task was told ends the window it left the key in,     *)
(* until another task writes; a task has no answer while its check runs.   *)
WaitsInOrder ==
  \A t \in Tasks :
    /\ pc[t] # "idle" => reply[t].verdict = "none"
    /\ reply[t].verdict = "denied" =>
         /\ reply[t].stamp <= version
         /\ reply[t].stamp = version =>
              /\ entry.window = Window(now[t])
              /\ reply[t].wait = MsLeft(now[t])

(* The inductive invariant the theorems rest on: types, the order of the   *)
(* rounds, what each round knows of the counts it read (l.64-74), and what *)
(* the counts say of the windows.                                          *)
IInv ==
  /\ TypeOK
  /\ RoundsInOrder
  /\ SnapshotsFaithful
  /\ WindowsInOrder
  /\ AdmittedByWindow
  /\ CountsAreAdmissions
  /\ WaitsInOrder

(* A check decides in one step, for all that its callers can see           *)
(* (sliding_window_counter.rs l.49-122).                                   *)
Atomic == INSTANCE AtomicLimiter
            WITH Nothing <- Fresh(0), open <- [t \in Tasks |-> pc[t] # "idle"]
ChecksAreAtomic == Atomic!Spec
=============================================================================
