----------------------------- MODULE FixedWindow -----------------------------
(***************************************************************************)
(* The fixed-window limiter (src/algorithms/fixed_window.rs): the check    *)
(* loop, with a count of what was admitted in the current window under the *)
(* key.  The clock counts seconds, as now_secs does.                       *)
(***************************************************************************)
EXTENDS WindowLedger

vars == <<loopVars, ledger>>

States == [count : Nat, window : Nat]

\* The state a request finds that is the first for its key.
Fresh(n) == [count |-> 0, window |-> Window(n)]

\* The count of state s that still matters by a clock that shows n.
CountAt(s, n) == IF s.window = Window(n) THEN s.count ELSE 0

\* Deviation of Fits: a request is let in while the count is below the limit.
FitsBeforeCost(s, n, c) == CountAt(s, n) < MaxRequests

Fits(s, n, c) == CountAt(s, n) + c <= MaxRequests

\* Deviation of CountAfter: a denied request is counted like an admitted one.
CountAfterAll(s, n, c) == CountAt(s, n) + c

CountAfter(s, n, c) ==
  IF Fits(s, n, c) THEN CountAt(s, n) + c ELSE CountAt(s, n)

\* Deviation of UntilWindowEnds: the window is taken to end a second early.
UntilLastSecond(n) == ((Window(n) + 1) * WindowSecs - 1 - n) * 1000

\* In milliseconds, from a clock that shows n.
UntilWindowEnds(n) == ((Window(n) + 1) * WindowSecs - n) * 1000

\* The subtraction saturates at zero.
LeftOf(count) == IF count <= MaxRequests THEN MaxRequests - count ELSE 0

\* A request of cost c, by a clock that shows n, finds state s.
Evaluate(s, n, c) ==
  [state     |-> [count |-> CountAfter(s, n, c), window |-> Window(n)],
   allowed   |-> Fits(s, n, c),
   remaining |-> LeftOf(CountAfter(s, n, c)),
   wait      |-> IF Fits(s, n, c) THEN 0 ELSE UntilWindowEnds(n)]

Outcome(t) == Evaluate(snap[t], now[t], cost[t])

\* What the outcome lets in, whether its caller learns of it or not.
Granted(t) == IF Outcome(t).allowed THEN cost[t] ELSE 0

Init ==
  /\ LoopInit(Fresh(0))
  /\ LedgerInit

\* The steps of a check that is under way.
Advance(t) ==
  \/ Get(t, Fresh(now[t])) /\ UNCHANGED ledger
  \/ Commit(t, Outcome(t)) /\ Book(t, Granted(t))
  \/ CommitUnseen(t, Outcome(t)) /\ Book(t, Granted(t))
  \/ Conflict(t) /\ UNCHANGED ledger
  \/ Wake(t) /\ UNCHANGED ledger

Next ==
  \/ \E t \in Tasks :
       \/ \E c \in Costs : Begin(t, c) /\ UNCHANGED ledger
       \/ Advance(t)
       \/ Abandon(t) /\ UNCHANGED ledger
  \/ Tick /\ UNCHANGED ledger

Spec == Init /\ [][Next]_vars

\* Tokio runs every task that is ready; a store call that is lost fails in the end.
Fairness == \A t \in Tasks : WF_vars(Advance(t))
FairSpec == Spec /\ Fairness

-----------------------------------------------------------------------------
\* Every variable has its type.
TypeOK ==
  /\ LoopTypeOK(States)
  /\ LedgerTypeOK

\* What a round read is what is stored, unless another task wrote meanwhile.
SnapshotsFaithful ==
  \A t \in Tasks : pc[t] = "cas" =>
    /\ expected[t] = 0 => snap[t] = Fresh(now[t])
    /\ expected[t] = version /\ version > 0 => snap[t] = entry

\* The window the entry counts; there is nothing to count while it is absent.
Counted == IF version > 0 THEN entry.count ELSE 0

(* No admission is lost and none is invented, however the tasks interleave *)
(* and whatever calls of theirs are lost: the stored count is exactly what *)
(* was let in since its window was entered, by checks that were answered   *)
(* and by checks that never learned of it (the cas of l.80).               *)
CountIsAdmissions == since = Counted /\ Counted <= MaxRequests

(* The wait a denied task was told ends the window it left the key in,     *)
(* until another task writes; a task has no answer while its check runs.   *)
WaitsInOrder ==
  \A t \in Tasks :
    /\ pc[t] # "idle" => reply[t].verdict = "none"
    /\ reply[t].verdict = "denied" =>
         /\ reply[t].stamp <= version
         /\ reply[t].stamp = version =>
              /\ entry.window = Window(now[t])
              /\ reply[t].wait = UntilWindowEnds(now[t])

(* The inductive invariant the theorems rest on: types, what each round   *)
(* knows of the store it read (l.58-65), what each window admitted, and    *)
(* what each task was told.                                                *)
IInv ==
  /\ TypeOK
  /\ RoundsInOrder
  /\ ContentionHasCause
  /\ SnapshotsFaithful
  /\ CountIsAdmissions
  /\ AdmittedByWindow
  /\ WaitsInOrder

(* A denied caller that comes back after retry_after_ms (l.72-74) is let   *)
(* in if nobody else came meanwhile and its cost fits the window at all.   *)
AdvisedRetrySucceeds ==
  \A t \in Tasks :
    reply[t].verdict = "denied" /\ reply[t].stamp = version /\ cost[t] <= MaxRequests
      => Evaluate(entry, now[t] + reply[t].wait \div 1000, cost[t]).allowed

(* The loop implements the one-step limiter of AtomicLimiter: the await    *)
(* points between the clock reading, get and cas are not observable.       *)
Atomic == INSTANCE AtomicLimiter
            WITH Nothing <- Fresh(0), open <- [t \in Tasks |-> pc[t] # "idle"]
ChecksAreAtomic == Atomic!Spec

(* Every check ends, whatever the other tasks and the store do: the loop   *)
(* is bounded by MaxAttempts.                                              *)
EveryCheckEnds == \A t \in Tasks : pc[t] # "idle" ~> pc[t] = "idle"
=============================================================================
