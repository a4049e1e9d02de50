----------------------------- MODULE RateLedger ------------------------------
(***************************************************************************)
(* The account kept beside the two bucket limiters, to state what their    *)
(* rate is.  Nothing here is state of the program.  Their entries have in  *)
(* common a field `last', the time the entry was last brought up to date.  *)
(***************************************************************************)
EXTENDS CheckLoop

VARIABLES
  granted,   \* units let in since the observer began to count
  base,      \* the time stored when the observer began
  rewound,   \* how far writes moved the stored time back since
  charged    \* units taken on behalf of each task's current check

ledger == <<granted, base, rewound, charged>>

\* (now - last).max(0): time that passed, by readings that may come in any order.
Elapsed(from, to) == IF to >= from THEN to - from ELSE 0

\* Task t writes the entry and with it lets `price' units in.
Book(t, price) ==
  /\ granted' = granted + price
  /\ base' = IF version = 0 THEN now[t] ELSE base
  /\ rewound' = rewound + (IF version = 0 THEN 0 ELSE Elapsed(now[t], entry.last))
  /\ charged' = [charged EXCEPT ![t] = @ + price]

\* A check that begins has been charged nothing.
OpenAccount(t) ==
  /\ charged' = [charged EXCEPT ![t] = 0]
  /\ UNCHANGED <<granted, base, rewound>>

\* The observer starts a new interval.
Observe ==
  /\ version > 0
  /\ granted' = 0
  /\ base' = entry.last
  /\ rewound' = 0
  /\ UNCHANGED <<charged, loopVars>>

LedgerInit ==
  /\ granted = 0
  /\ base = 0
  /\ rewound = 0
  /\ charged = [t \in Tasks |-> 0]

LedgerTypeOK ==
  /\ granted \in Nat
  /\ base \in Nat
  /\ rewound \in Nat
  /\ charged \in [Tasks -> Nat]
=============================================================================
