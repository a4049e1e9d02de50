---------------------------- MODULE WindowLedger -----------------------------
(***************************************************************************)
(* Time cut into windows of WindowSecs seconds, for the two limiters that  *)
(* count per window, and the account kept beside them to state what they   *)
(* admit.  Their entries have in common a field `window', the window the   *)
(* entry was last brought up to.  The clock counts seconds, as now_secs.   *)
(***************************************************************************)
EXTENDS CheckLoop

CONSTANTS
  MaxRequests,   \* max_requests of the configuration
  WindowSecs     \* window_secs of the configuration

ASSUME LimitAssumption == MaxRequests \in Nat /\ WindowSecs \in Nat \ {0}

VARIABLES
  admitted,   \* cost admitted for each window, by the clock readings used
  since,      \* cost admitted since the stored window last changed
  rewinds     \* writes that moved the stored window back in time

ledger == <<admitted, since, rewinds>>

Window(n) == n \div WindowSecs
Windows == 0..Window(MaxClock)

\* Task t writes the entry and with it lets `granted' in.
Book(t, granted) ==
  LET w == Window(now[t]) IN
  /\ admitted' = [admitted EXCEPT ![w] = @ + granted]
  /\ since' = granted + (IF version > 0 /\ entry.window = w THEN since ELSE 0)
  /\ rewinds' = rewinds + (IF version > 0 /\ w < entry.window THEN 1 ELSE 0)

LedgerInit ==
  /\ admitted = [w \in Windows |-> 0]
  /\ since = 0
  /\ rewinds = 0

LedgerTypeOK ==
  /\ admitted \in [Windows -> Nat]
  /\ since \in Nat
  /\ rewinds \in Nat

(* The quota as far as a limiter that counts per window keeps it: what is  *)
(* admitted in a window stays within MaxRequests for every time the stored *)
(* window was not moved back, each of which grants it once more            *)
(* (fixed_window.rs l.3-5 and l.67, sliding_window_counter.rs l.76-81).    *)
WindowBudget ==
  \A w \in Windows : admitted[w] <= MaxRequests * (1 + rewinds)

\* What is admitted in a window: its quota once per rewind, and for the window
\* that is stored now what its count shows, for an earlier one its quota.
AdmittedByWindow ==
  \A w \in Windows :
    admitted[w] <= MaxRequests * rewinds
                   + (IF version = 0 \/ w > entry.window THEN 0
                      ELSE IF w = entry.window THEN since ELSE MaxRequests)

(* The quota without the rewinds: "once the counter hits the limit, every  *)
(* subsequent request in that bucket is rejected" (fixed_window.rs l.3-5). *)
WindowLimit == \A w \in Windows : admitted[w] <= MaxRequests
=============================================================================
