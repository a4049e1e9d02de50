--------------------------- MODULE AtomicLimiter ----------------------------
(***************************************************************************)
(* What a limiter promises its callers, whatever loop and store it runs    *)
(* on: a check is decided in ONE step, against the state stored under the  *)
(* key at that step, as of some clock reading taken since the check began; *)
(* or it is refused for contention, and then at least MaxAttempts other    *)
(* checks were decided meanwhile.  A task whose calls may be lost may     *)
(* also be charged for a decision it never learns of, any number of times  *)
(* per check.                                                              *)
(***************************************************************************)
EXTENDS Decision

CONSTANTS
  Tasks, Costs, MaxAttempts, Drift, Unreliable, MaxClock, RequestsPerTask,
  Nothing,            \* what the key holds before the first decision
  Fresh(_),           \* the state a first request at a time is judged by
  Evaluate(_, _, _)   \* the outcome for a state, a time and a cost

VARIABLES clock, entry, version, open, cost, reply, start, served

vars == <<clock, entry, version, open, cost, reply, start, served>>

Init ==
  /\ clock = 0
  /\ entry = Nothing
  /\ version = 0
  /\ open = [t \in Tasks |-> FALSE]
  /\ cost = [t \in Tasks |-> 0]
  /\ reply = [t \in Tasks |-> NoReply]
  /\ start = [t \in Tasks |-> [clock |-> 0, version |-> 0]]
  /\ served = [t \in Tasks |-> 0]

Ask(t, c) ==
  /\ ~open[t]
  /\ served[t] < RequestsPerTask
  /\ open' = [open EXCEPT ![t] = TRUE]
  /\ cost' = [cost EXCEPT ![t] = c]
  /\ reply' = [reply EXCEPT ![t] = NoReply]
  /\ start' = [start EXCEPT ![t] = [clock |-> clock, version |-> version]]
  /\ served' = [served EXCEPT ![t] = @ + 1]
  /\ UNCHANGED <<clock, entry, version>>

\* The outcome of the check of task t as of time n.
Judgement(t, n) ==
  Evaluate(IF version = 0 THEN Fresh(n) ELSE entry, n, cost[t])

\* A reading the check may have taken: since it began, by a clock that may lag.
Timely(t, n) == n <= clock /\ start[t].clock <= n + Drift

\* The judgement is stored, so that every later check sees it.
Charge(t, n) ==
  /\ open[t]
  /\ version' = version + 1
  /\ Timely(t, n)
  /\ entry' = Judgement(t, n).state
  /\ UNCHANGED <<clock, cost, start, served>>

Decide(t, n) ==
  /\ Charge(t, n)
  /\ reply' = [reply EXCEPT ![t] = Answer(Judgement(t, n), version + 1)]
  /\ open' = [open EXCEPT ![t] = FALSE]

\* A failure hides the decision from its caller, whose check goes on.
DecideUnseen(t, n) ==
  /\ t \in Unreliable
  /\ Charge(t, n)
  /\ UNCHANGED <<reply, open>>

\* A failure hides the decision and the check, having no round left, is refused.
DecideUnseenAndRefuse(t, n) ==
  /\ t \in Unreliable
  /\ Charge(t, n)
  /\ reply' = [reply EXCEPT ![t] = Contended(version + 1)]
  /\ open' = [open EXCEPT ![t] = FALSE]

Refuse(t) ==
  /\ open[t]
  /\ t \in Unreliable \/ start[t].version + MaxAttempts <= version
  /\ reply' = [reply EXCEPT ![t] = Contended(version)]
  /\ open' = [open EXCEPT ![t] = FALSE]
  /\ UNCHANGED <<clock, entry, version, cost, start, served>>

Drop(t) ==
  /\ t \in Unreliable
  /\ open[t]
  /\ open' = [open EXCEPT ![t] = FALSE]
  /\ UNCHANGED <<clock, entry, version, cost, reply, start, served>>

Tick ==
  /\ clock < MaxClock
  /\ clock' = clock + 1
  /\ UNCHANGED <<entry, version, open, cost, reply, start, served>>

Next ==
  \/ \E t \in Tasks :
       \/ \E c \in Costs : Ask(t, c)
       \/ \E n \in 0..clock :
            Decide(t, n) \/ DecideUnseen(t, n) \/ DecideUnseenAndRefuse(t, n)
       \/ Refuse(t)
       \/ Drop(t)
  \/ Tick

Spec == Init /\ [][Next]_vars
=============================================================================
