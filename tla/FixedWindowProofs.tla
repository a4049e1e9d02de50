-------------------------- MODULE FixedWindowProofs --------------------------
(***************************************************************************)
(* Proofs about the fixed-window limiter, for any number of tasks, any     *)
(* costs, limits, window length, clock drift and number of rounds.         *)
(***************************************************************************)
EXTENDS FixedWindow, CheckLoopProofs

(* The seconds of a window are those from its first on (fixed_window.rs l.56).*)
LEMMA WindowSpan ==
  ASSUME NEW n \in Nat
  PROVE  /\ Window(n) \in Nat
         /\ n % WindowSecs \in 0..(WindowSecs - 1)
         /\ n - Window(n) * WindowSecs = n % WindowSecs
BY QuotientSpan, LimitAssumption DEF Window

(* No second lies in two windows.                                          *)
LEMMA WindowOfSecond ==
  ASSUME NEW n \in Nat, NEW w \in Nat, NEW r \in 0..(WindowSecs - 1),
         n = w * WindowSecs + r
  PROVE  Window(n) = w
BY QuotientOf, LimitAssumption DEF Window

(* The account keeps its types and the quotas of the windows when a write  *)
(* for a window is booked (fixed_window.rs l.77).                          *)
LEMMA BookKeepsQuota ==
  ASSUME LedgerTypeOK, AdmittedByWindow, since <= MaxRequests,
         version \in Nat, entry.window \in Nat,
         NEW t \in Tasks, now[t] \in Nat, NEW g \in Nat, Book(t, g),
         version' = version + 1, entry'.window = Window(now[t])
  PROVE  LedgerTypeOK' /\ AdmittedByWindow'
<1>1. PICK w \in Nat : w = Window(now[t])
  BY WindowSpan
<1>2. /\ since' = g + (IF version > 0 /\ entry.window = w THEN since ELSE 0)
      /\ rewinds' = rewinds + (IF version > 0 /\ w < entry.window THEN 1 ELSE 0)
      /\ rewinds \in Nat /\ since \in Nat /\ since' \in Nat /\ rewinds' \in Nat
  BY <1>1 DEF Book, LedgerTypeOK
<1>3. admitted' \in [Windows -> Nat]
  <2>1. \A u \in Windows : admitted[u] + g \in Nat
    BY DEF LedgerTypeOK
  <2> QED
    BY <2>1 DEF LedgerTypeOK, Book
<1>4. ASSUME NEW u \in Windows
      PROVE  admitted'[u] <= MaxRequests * rewinds' + Share(u, version + 1, w, since', MaxRequests)
  <2>1. /\ u \in Nat /\ admitted[u] \in Nat /\ MaxRequests \in Nat
        /\ admitted'[u] = IF u = w THEN admitted[u] + g ELSE admitted[u]
    BY <1>1, LimitAssumption DEF LedgerTypeOK, Book, Windows
  <2>2. admitted[u] <= MaxRequests * rewinds + Share(u, version, entry.window, since, MaxRequests)
    BY DEF AdmittedByWindow, Share
  <2>3. (IF u = w THEN admitted[u] + g ELSE admitted[u])
          <= MaxRequests * (rewinds + (IF version > 0 /\ w < entry.window THEN 1 ELSE 0))
             + Share(u, version + 1, w,
                     g + (IF version > 0 /\ entry.window = w THEN since ELSE 0), MaxRequests)
    BY <1>2, <2>1, <2>2, ShareKept
  <2> QED
    BY <1>2, <2>1, <2>3
<1>5. AdmittedByWindow'
  BY <1>1, <1>4 DEF AdmittedByWindow, Share, Windows, Window
<1> QED
  BY <1>2, <1>3, <1>5 DEF LedgerTypeOK, Windows, Window

(* Then every window stays within its quota, plus one for every write that *)
(* moved the stored window back (fixed_window.rs l.3-5).                   *)
LEMMA QuotaFollows ==
  ASSUME LedgerTypeOK, AdmittedByWindow, since <= MaxRequests,
         version \in Nat, entry.window \in Nat
  PROVE  WindowBudget
<1>1. ASSUME NEW u \in Windows
      PROVE  admitted[u] <= MaxRequests * (1 + rewinds)
  <2>1. u \in Nat /\ admitted[u] \in Nat /\ rewinds \in Nat /\ since \in Nat
    BY DEF LedgerTypeOK, Windows
  <2>2. admitted[u] <= MaxRequests * rewinds + Share(u, version, entry.window, since, MaxRequests)
    BY DEF AdmittedByWindow, Share
  <2> QED
    BY <2>1, <2>2, ShareWithinQuota, LimitAssumption
<1> QED
  BY <1>1 DEF WindowBudget

-----------------------------------------------------------------------------
(* A key that is absent reads as a state the limiter stores (l.64).        *)
LEMMA FreshIsState ==
  ASSUME NEW n \in Nat
  PROVE  Fresh(n) \in States
BY WindowSpan DEF Fresh, States

(* What an evaluation returns (l.67-78): the count it stores is the count  *)
(* it found for the window plus what it grants, within the limit.          *)
LEMMA EvaluateFacts ==
  ASSUME NEW s \in States, NEW n \in Nat, NEW c \in Nat
  PROVE  /\ CountAt(s, n) \in Nat
         /\ Evaluate(s, n, c).state \in States
         /\ Evaluate(s, n, c).state.window = Window(n)
         /\ Evaluate(s, n, c).allowed \in BOOLEAN
         /\ Evaluate(s, n, c).remaining \in Int
         /\ Evaluate(s, n, c).wait \in Int
         /\ Evaluate(s, n, c).state.count =
              CountAt(s, n) + (IF Evaluate(s, n, c).allowed THEN c ELSE 0)
         /\ CountAt(s, n) <= MaxRequests => Evaluate(s, n, c).state.count <= MaxRequests
<1> DEFINE count == CountAt(s, n)
           used == CountAfter(s, n, c)
           fits == Fits(s, n, c)
           out == Evaluate(s, n, c)
<1>1. Window(n) \in Nat
  BY WindowSpan
<1>2. count \in Nat
  BY DEF States, CountAt
<1>3. fits \in BOOLEAN
  BY DEF Fits
<1>4. /\ used = count + (IF fits THEN c ELSE 0)
      /\ used \in Nat
      /\ count <= MaxRequests => used <= MaxRequests
  BY <1>2, LimitAssumption DEF CountAfter, Fits
<1>5. UntilWindowEnds(n) \in Int
  BY <1>1, LimitAssumption DEF UntilWindowEnds
<1>6. LeftOf(used) \in Int
  BY <1>4, LimitAssumption DEF LeftOf
<1>7. /\ out.state = [count |-> used, window |-> Window(n)]
      /\ out.allowed = fits
      /\ out.remaining \in Int
      /\ out.wait \in Int
  BY <1>5, <1>6 DEF Evaluate
<1> HIDE DEF count, used, fits, out
<1>8. /\ out.state \in States
      /\ out.state.window = Window(n)
      /\ out.state.count = used
  BY <1>1, <1>4, <1>7 DEF States
<1> QED
  BY <1>2, <1>3, <1>4, <1>7, <1>8 DEF count, used, fits, out

(* What a task computes from its snapshot is a state and a decision (l.67-78). *)
LEMMA OutcomeTypes ==
  ASSUME TypeOK, NEW t \in Tasks
  PROVE  /\ now[t] \in Nat /\ cost[t] \in Nat /\ snap[t] \in States
         /\ Outcome(t).state \in States
         /\ Outcome(t).remaining \in Int
         /\ Outcome(t).wait \in Int
         /\ Granted(t) \in Nat
<1>1. now[t] \in Nat /\ cost[t] \in Nat /\ snap[t] \in States
  BY DEF TypeOK, LedgerTypeOK, LoopTypeOK
<1> QED
  BY <1>1, EvaluateFacts DEF Outcome, Granted

-----------------------------------------------------------------------------
(* What is counted for the window being written, before the write (l.67).  *)
LEMMA CountFound ==
  ASSUME TypeOK, SnapshotsFaithful, CountIsAdmissions,
         NEW t \in Tasks, NEW out, Write(t, out)
  PROVE  LET found == IF version > 0 /\ entry.window = Window(now[t]) THEN since ELSE 0
         IN  /\ CountAt(snap[t], now[t]) \in Nat
             /\ CountAt(snap[t], now[t]) <= MaxRequests
             /\ found = CountAt(snap[t], now[t])
<1>1. /\ now[t] \in Nat /\ entry \in States /\ version \in Nat /\ since \in Nat
      /\ pc[t] = "cas" /\ expected[t] = version
  BY DEF TypeOK, LedgerTypeOK, LoopTypeOK, Write
<1>2. CASE version = 0
  <2>1. CountAt(snap[t], now[t]) = 0
    <3>1. snap[t] = Fresh(now[t])
      BY <1>1, <1>2 DEF SnapshotsFaithful
    <3>2. CountAt(Fresh(now[t]), now[t]) = 0
      BY DEF CountAt, Fresh
    <3> QED
      BY <3>1, <3>2
  <2>2. ~(version > 0)
    BY <1>2
  <2> QED
    BY <2>1, <2>2, LimitAssumption
<1>3. CASE version > 0
  <2>1. snap[t] = entry /\ entry.count \in Nat
    BY <1>1, <1>3 DEF SnapshotsFaithful, States
  <2>2. since = entry.count /\ entry.count <= MaxRequests
    BY <1>3 DEF CountIsAdmissions, Counted
  <2>3. CASE entry.window = Window(now[t])
    <3>1. CountAt(snap[t], now[t]) = entry.count
      BY <2>1, <2>3 DEF CountAt
    <3> QED
      BY <3>1, <2>1, <2>2, <2>3, <1>1, <1>3
  <2>4. CASE entry.window # Window(now[t])
    BY <2>1, <2>4, <1>1, LimitAssumption DEF CountAt
  <2> QED
    BY <2>3, <2>4
<1> QED
  BY <1>1, <1>2, <1>3

(* The write keeps the count equal to what was let in, and within the      *)
(* limit (l.69-78): the cas made sure that the count it adds to is current.*)
LEMMA WriteKeepsCount ==
  ASSUME TypeOK, SnapshotsFaithful, CountIsAdmissions,
         NEW t \in Tasks, Write(t, Outcome(t)), Book(t, Granted(t))
  PROVE  CountIsAdmissions'
<1> DEFINE found == IF version > 0 /\ entry.window = Window(now[t]) THEN since ELSE 0
           count == CountAt(snap[t], now[t])
<1>1. /\ count \in Nat /\ count <= MaxRequests
      /\ found = count
  BY CountFound
<1>2. /\ entry'.count = count + Granted(t)
      /\ entry'.count <= MaxRequests
      /\ Granted(t) \in Nat
  <2>1. now[t] \in Nat /\ cost[t] \in Nat /\ snap[t] \in States /\ Granted(t) \in Nat
    BY OutcomeTypes
  <2>2. /\ Outcome(t).state.count = count + (IF Outcome(t).allowed THEN cost[t] ELSE 0)
        /\ count <= MaxRequests => Outcome(t).state.count <= MaxRequests
    BY <2>1, EvaluateFacts DEF Outcome
  <2>3. entry' = Outcome(t).state
    BY DEF Write
  <2> QED
    BY <1>1, <2>1, <2>2, <2>3 DEF Granted
<1>3. since' = Granted(t) + found
  BY DEF Book
<1>4. Counted' = entry'.count
  BY DEF Counted, Write, TypeOK, LedgerTypeOK, LoopTypeOK
<1> HIDE DEF found, count
<1> QED
  BY <1>1, <1>2, <1>3, <1>4 DEF CountIsAdmissions

(* A read snapshot stays faithful until the version moves (l.58-65).       *)
LEMMA SnapshotsUndisturbed ==
  ASSUME TypeOK, RoundsInOrder, SnapshotsFaithful, NEW t \in Tasks,
         UNCHANGED <<now, snap, expected>>,
         \A u \in Tasks : pc'[u] = "cas" => pc[u] = "cas",
         \/ UNCHANGED store
         \/ version' = version + 1
  PROVE  SnapshotsFaithful'
<1>1. ASSUME NEW u \in Tasks, pc'[u] = "cas"
      PROVE  /\ expected'[u] = 0 => snap'[u] = Fresh(now'[u])
             /\ expected'[u] = version' /\ version' > 0 => snap'[u] = entry'
  <2>1. /\ pc[u] = "cas" /\ expected[u] \in Nat /\ version \in Nat
        /\ expected[u] <= version
    BY <1>1 DEF TypeOK, LedgerTypeOK, LoopTypeOK, RoundsInOrder
  <2>2. expected[u] = 0 => snap[u] = Fresh(now[u])
    BY <2>1 DEF SnapshotsFaithful
  <2>3. CASE UNCHANGED store
    BY <2>1, <2>2, <2>3 DEF SnapshotsFaithful, store
  <2>4. CASE version' = version + 1
    BY <2>1, <2>2, <2>4
  <2> QED
    BY <2>3, <2>4
<1> QED
  BY <1>1 DEF SnapshotsFaithful, Fresh, Window

(* The get of a task reads what is stored, or an absent key (l.58-65).     *)
LEMMA GetFaithful ==
  ASSUME TypeOK, SnapshotsFaithful, NEW t \in Tasks, Get(t, Fresh(now[t]))
  PROVE  SnapshotsFaithful'
<1>1. ASSUME NEW u \in Tasks, pc'[u] = "cas"
      PROVE  /\ expected'[u] = 0 => snap'[u] = Fresh(now[u])
             /\ expected'[u] = version /\ version > 0 => snap'[u] = entry
  <2>1. CASE u = t
    <3>1. \/ version > 0 /\ snap'[t] = entry /\ expected'[t] = version
          \/ snap'[t] = Fresh(now[t]) /\ expected'[t] = 0
      BY DEF Get, TypeOK, LedgerTypeOK, LoopTypeOK
    <3> QED
      BY <2>1, <3>1 DEF TypeOK, LedgerTypeOK, LoopTypeOK
  <2>2. CASE u # t
    <3>1. pc[u] = "cas" /\ snap'[u] = snap[u] /\ expected'[u] = expected[u]
      BY <1>1, <2>2 DEF Get, TypeOK, LedgerTypeOK, LoopTypeOK
    <3> QED
      BY <3>1 DEF SnapshotsFaithful
  <2> QED
    BY <2>1, <2>2
<1>2. UNCHANGED <<now, version, entry>>
  BY DEF Get, store
<1> QED
  BY <1>1, <1>2 DEF SnapshotsFaithful, Fresh, Window

(* A new reading of the clock belongs to a round that has read nothing yet. *)
LEMMA NewRoundFaithful ==
  ASSUME TypeOK, SnapshotsFaithful, NEW t \in Tasks, NEW n,
         now' = [now EXCEPT ![t] = n], pc' = [pc EXCEPT ![t] = "get"],
         UNCHANGED <<store, snap, expected>>
  PROVE  SnapshotsFaithful'
<1>1. ASSUME NEW u \in Tasks, pc'[u] = "cas"
      PROVE  pc[u] = "cas" /\ now'[u] = now[u]
  BY <1>1 DEF TypeOK, LedgerTypeOK, LoopTypeOK
<1> QED
  BY <1>1 DEF SnapshotsFaithful, Fresh, Window, store

(* The wait a commit tells ends the window it leaves the key in (l.69-78). *)
LEMMA CommitWaits ==
  ASSUME TypeOK, WaitsInOrder, NEW t \in Tasks, Commit(t, Outcome(t))
  PROVE  WaitsInOrder'
<1>1. /\ reply \in [Tasks -> Replies] /\ version \in Nat /\ pc \in [Tasks -> Labels]
      /\ UNCHANGED now /\ version' = version + 1
      /\ entry' = Outcome(t).state
      /\ pc' = [pc EXCEPT ![t] = "idle"]
      /\ reply' = [reply EXCEPT ![t] = Answer(Outcome(t), version + 1)]
  BY DEF TypeOK, LoopTypeOK, Commit, Write
<1>2. /\ reply'[t].stamp = version + 1 /\ reply'[t].wait = Outcome(t).wait
      /\ reply'[t].verdict = IF Outcome(t).allowed THEN "allowed" ELSE "denied"
  BY <1>1 DEF Answer, Reply
<1>3. /\ ~Outcome(t).allowed => Outcome(t).wait = UntilWindowEnds(now[t])
      /\ entry'.window = Window(now[t])
  BY <1>1 DEF Outcome, Evaluate
<1>4. ASSUME NEW u \in Tasks
      PROVE  /\ pc'[u] # "idle" => reply'[u].verdict = "none"
             /\ reply'[u].verdict = "denied" =>
                  /\ reply'[u].stamp <= version'
                  /\ reply'[u].stamp = version' =>
                       /\ entry'.window = Window(now[u])
                       /\ reply'[u].wait = UntilWindowEnds(now[u])
  <2>1. CASE u = t
    <3>1. pc'[t] = "idle" /\ reply'[t].stamp <= version'
      BY <1>1, <1>2
    <3> QED
      BY <2>1, <3>1, <1>2, <1>3
  <2>2. CASE u # t
    <3>1. pc'[u] = pc[u] /\ reply'[u] = reply[u] /\ reply[u].stamp \in Nat
      BY <1>1, <2>2 DEF Replies
    <3>2. reply[u].verdict = "denied" => reply[u].stamp <= version
      BY DEF WaitsInOrder
    <3>3. reply[u].stamp <= version => reply'[u].stamp <= version' /\ reply'[u].stamp # version'
      BY <1>1, <3>1
    <3> QED
      BY <3>1, <3>2, <3>3 DEF WaitsInOrder
  <2> QED
    BY <2>1, <2>2
<1> QED
  BY <1>1, <1>4 DEF WaitsInOrder, Window, UntilWindowEnds

(* No round lost makes a denial, and a write outdates those there are.     *)
LEMMA LostRoundWaits ==
  ASSUME TypeOK, WaitsInOrder, NEW t \in Tasks, NEW v, LoseRound(t, v), pc[t] = "cas",
         UNCHANGED store \/ version' = version + 1
  PROVE  WaitsInOrder'
<1>1. /\ reply \in [Tasks -> Replies] /\ version \in Nat /\ pc \in [Tasks -> Labels]
      /\ UNCHANGED now
      /\ \/ pc' = [pc EXCEPT ![t] = "backoff"] /\ UNCHANGED reply
         \/ pc' = [pc EXCEPT ![t] = "idle"] /\ reply' = [reply EXCEPT ![t] = Contended(v)]
  BY DEF TypeOK, LoopTypeOK, LoseRound
<1>2. Contended(v).verdict = "contended"
  BY DEF Contended, Reply
<1>3. ASSUME NEW u \in Tasks
      PROVE  pc'[u] # "idle" => reply'[u].verdict = "none"
  BY <1>1 DEF WaitsInOrder
<1>4. ASSUME NEW u \in Tasks, reply'[u].verdict = "denied"
      PROVE  /\ reply'[u].stamp <= version'
             /\ reply'[u].stamp = version' =>
                  /\ entry'.window = Window(now[u])
                  /\ reply'[u].wait = UntilWindowEnds(now[u])
  <2>1. reply'[u] = reply[u] /\ reply[u].stamp \in Nat
    BY <1>1, <1>2, <1>4 DEF Replies
  <2>2. reply[u].stamp <= version
    BY <1>4, <2>1 DEF WaitsInOrder
  <2>3. CASE UNCHANGED store
    BY <2>1, <2>3, <1>4 DEF WaitsInOrder, store
  <2>4. CASE version' = version + 1
    <3>1. reply'[u].stamp <= version' /\ reply'[u].stamp # version'
      BY <1>1, <2>1, <2>2, <2>4
    <3> QED
      BY <3>1
  <2> QED
    BY <2>3, <2>4
<1> QED
  BY <1>1, <1>3, <1>4 DEF WaitsInOrder, Window, UntilWindowEnds

-----------------------------------------------------------------------------
(* The first state satisfies the inductive invariant.                      *)
LEMMA InitInvariant == Init => IInv
<1> SUFFICES ASSUME Init PROVE IInv
  OBVIOUS
<1>1. Fresh(0) \in States
  BY FreshIsState
<1>2. LoopTypeOK(States) /\ RoundsInOrder
  BY <1>1, LoopInitTypes, LoopInitOrder DEF Init
<1>6. ContentionHasCause /\ WaitsInOrder
  BY DEF ContentionHasCause, WaitsInOrder, Init, LoopInit, NoReply, Reply
<1>3. TypeOK
  BY <1>2 DEF Init, TypeOK, LedgerInit, LedgerTypeOK
<1>4. SnapshotsFaithful
  BY DEF SnapshotsFaithful, Init, LoopInit
<1>5. CountIsAdmissions /\ AdmittedByWindow
  BY LimitAssumption DEF CountIsAdmissions, Counted, AdmittedByWindow, Init, LoopInit, LedgerInit, Windows
<1> QED
  BY <1>2, <1>3, <1>4, <1>5, <1>6 DEF IInv

(* A write of the entry, whether its task learns of it or not.             *)
LEMMA WriteInvariant ==
  ASSUME IInv, NEW t \in Tasks, Write(t, Outcome(t)), Book(t, Granted(t)),
         UNCHANGED <<now, snap, expected>>,
         \A u \in Tasks : pc'[u] = "cas" => pc[u] = "cas"
  PROVE  /\ LedgerTypeOK'
         /\ SnapshotsFaithful' /\ CountIsAdmissions' /\ AdmittedByWindow'
<1>1. version' = version + 1 /\ entry' = Outcome(t).state
  BY DEF Write
<1>2. entry'.window = Window(now[t])
  BY <1>1, OutcomeTypes, EvaluateFacts DEF Outcome, IInv
<1>3. SnapshotsFaithful'
  BY <1>1, SnapshotsUndisturbed DEF IInv
<1>4. CountIsAdmissions'
  BY WriteKeepsCount DEF IInv
<1>5. LedgerTypeOK' /\ AdmittedByWindow'
  <2>1. version \in Nat /\ entry.window \in Nat /\ entry.count \in Nat
    BY DEF IInv, TypeOK, LoopTypeOK, States
  <2>2. since <= MaxRequests
    BY <2>1, LimitAssumption DEF IInv, CountIsAdmissions, Counted
  <2> QED
    BY <1>1, <1>2, <2>1, <2>2, OutcomeTypes, BookKeepsQuota DEF IInv, TypeOK
<1> QED
  BY <1>3, <1>4, <1>5

(* A step that leaves the store and the ledger alone keeps what relates them. *)
LEMMA QuietInvariant ==
  ASSUME IInv, UNCHANGED <<store, ledger>>
  PROVE  CountIsAdmissions' /\ AdmittedByWindow'
BY DEF IInv, CountIsAdmissions, Counted, AdmittedByWindow, store, ledger

(* Every step keeps the inductive invariant.                               *)
LEMMA NextInvariant == IInv /\ [Next]_vars => IInv'
<1> SUFFICES ASSUME IInv, [Next]_vars PROVE IInv'
  OBVIOUS
<1> USE DEF IInv, TypeOK, LedgerTypeOK
<1>1. ASSUME NEW t \in Tasks, NEW c \in Costs, Begin(t, c), UNCHANGED ledger
      PROVE  IInv'
  <2>1. LoopTypeOK(States)' /\ RoundsInOrder'
    BY <1>1, BeginTypes, BeginOrder
  <2>2. PICK n : now' = [now EXCEPT ![t] = n]
    BY <1>1 DEF Begin
  <2>3. SnapshotsFaithful'
    BY <1>1, <2>2, NewRoundFaithful DEF Begin
  <2>4. ContentionHasCause'
    BY <1>1, BeginContention
  <2>5. /\ reply' = [reply EXCEPT ![t] = NoReply] /\ NoReply.verdict = "none"
        /\ pc' = [pc EXCEPT ![t] = "get"]
        /\ UNCHANGED <<version, entry>>
    BY <1>1 DEF Begin, NoReply, Reply, store
  <2>6. WaitsInOrder'
    BY <2>2, <2>5 DEF WaitsInOrder, LoopTypeOK, Window, UntilWindowEnds
  <2> QED
    BY <2>4, <2>6, <1>1, <2>1, <2>3, QuietInvariant DEF Begin, ledger
<1>2. ASSUME NEW t \in Tasks, Get(t, Fresh(now[t])), UNCHANGED ledger
      PROVE  IInv'
  <2>1. Fresh(now[t]) \in States
    BY FreshIsState DEF LoopTypeOK
  <2>2. LoopTypeOK(States)' /\ RoundsInOrder'
    BY <1>2, <2>1, GetTypes, GetOrder
  <2>3. ContentionHasCause'
    BY <1>2 DEF Get, ContentionHasCause
  <2>4. /\ pc[t] = "get" /\ pc' = [pc EXCEPT ![t] = "cas"]
        /\ UNCHANGED <<version, entry, reply, now>>
    BY <1>2 DEF Get, store
  <2>5. WaitsInOrder'
    BY <2>4 DEF WaitsInOrder, LoopTypeOK, Window, UntilWindowEnds
  <2> QED
    BY <2>3, <2>5, <1>2, <2>2, GetFaithful, QuietInvariant DEF Get, ledger
<1>3. ASSUME NEW t \in Tasks, Commit(t, Outcome(t)), Book(t, Granted(t))
      PROVE  IInv'
  <2>1. LoopTypeOK(States)' /\ RoundsInOrder'
    BY <1>3, OutcomeTypes, CommitTypes, CommitOrder
  <2>3. \A u \in Tasks : pc'[u] = "cas" => pc[u] = "cas"
    BY <1>3 DEF Commit, LoopTypeOK
  <2>4. ContentionHasCause' /\ WaitsInOrder'
    BY <1>3, CommitContention, CommitWaits
  <2> QED
    BY <2>4, <1>3, <2>1, <2>3, WriteInvariant DEF Commit
<1>4. ASSUME NEW t \in Tasks, CommitUnseen(t, Outcome(t)), Book(t, Granted(t))
      PROVE  IInv'
  <2>1. LoopTypeOK(States)' /\ RoundsInOrder'
    BY <1>4, OutcomeTypes, CommitUnseenTypes, CommitUnseenOrder
  <2>3. \A u \in Tasks : pc'[u] = "cas" => pc[u] = "cas"
    BY <1>4 DEF CommitUnseen, LoseRound, LoopTypeOK
  <2>4. /\ pc[t] = "cas" /\ LoseRound(t, version + 1) /\ version' = version + 1
    BY <1>4 DEF CommitUnseen, Write
  <2>5. ContentionHasCause' /\ WaitsInOrder'
    BY <1>4, <2>4, CommitUnseenContention, LostRoundWaits
  <2> QED
    BY <2>5, <1>4, <2>1, <2>3, WriteInvariant DEF CommitUnseen, LoseRound
<1>5. ASSUME NEW t \in Tasks, Conflict(t), UNCHANGED ledger
      PROVE  IInv'
  <2>1. LoopTypeOK(States)' /\ RoundsInOrder'
    BY <1>5, ConflictTypes, ConflictOrder
  <2>2. \A u \in Tasks : pc'[u] = "cas" => pc[u] = "cas"
    BY <1>5 DEF Conflict, LoseRound, LoopTypeOK
  <2>3. SnapshotsFaithful'
    BY <1>5, <2>2, SnapshotsUndisturbed DEF Conflict, LoseRound
  <2>4. pc[t] = "cas" /\ LoseRound(t, version) /\ UNCHANGED store
    BY <1>5 DEF Conflict
  <2>5. ContentionHasCause' /\ WaitsInOrder'
    BY <1>5, <2>4, ConflictContention, LostRoundWaits
  <2> QED
    BY <2>5, <1>5, <2>1, <2>3, QuietInvariant DEF Conflict, ledger
<1>6. ASSUME NEW t \in Tasks, Wake(t), UNCHANGED ledger
      PROVE  IInv'
  <2>1. LoopTypeOK(States)' /\ RoundsInOrder'
    BY <1>6, WakeTypes, WakeOrder
  <2>2. PICK n : now' = [now EXCEPT ![t] = n]
    BY <1>6 DEF Wake
  <2>3. SnapshotsFaithful'
    BY <1>6, <2>2, NewRoundFaithful DEF Wake
  <2>4. ContentionHasCause'
    BY <1>6 DEF Wake, ContentionHasCause
  <2>5. /\ pc[t] = "backoff" /\ pc' = [pc EXCEPT ![t] = "get"]
        /\ UNCHANGED <<version, entry, reply>>
    BY <1>6 DEF Wake, store
  <2>6. reply[t].verdict = "none" /\ \A u \in Tasks : u # t => now'[u] = now[u]
    BY <2>2, <2>5 DEF WaitsInOrder, LoopTypeOK
  <2>7. WaitsInOrder'
    BY <2>5, <2>6 DEF WaitsInOrder, LoopTypeOK, Window, UntilWindowEnds
  <2> QED
    BY <2>4, <2>7, <1>6, <2>1, <2>3, QuietInvariant DEF Wake, ledger
<1>7. ASSUME NEW t \in Tasks, Abandon(t), UNCHANGED ledger
      PROVE  IInv'
  <2>1. LoopTypeOK(States)' /\ RoundsInOrder'
    BY <1>7, AbandonTypes, AbandonOrder
  <2>2. \A u \in Tasks : pc'[u] = "cas" => pc[u] = "cas"
    BY <1>7 DEF Abandon, LoopTypeOK
  <2>3. SnapshotsFaithful'
    BY <1>7, <2>2, SnapshotsUndisturbed DEF Abandon
  <2>4. ContentionHasCause'
    BY <1>7 DEF Abandon, ContentionHasCause
  <2>5. /\ pc[t] # "idle" /\ pc' = [pc EXCEPT ![t] = "idle"]
        /\ UNCHANGED <<version, entry, now, reply>>
    BY <1>7 DEF Abandon, store
  <2>6. WaitsInOrder'
    BY <2>5 DEF WaitsInOrder, LoopTypeOK, Window, UntilWindowEnds
  <2> QED
    BY <2>4, <2>6, <1>7, <2>1, <2>3, QuietInvariant DEF Abandon, ledger
<1>8. CASE Tick /\ UNCHANGED ledger
  <2>1. LoopTypeOK(States)' /\ RoundsInOrder'
    BY <1>8, TickTypes, TickOrder
  <2>2. SnapshotsFaithful'
    BY <1>8 DEF Tick, SnapshotsFaithful, Fresh, Window, store, local
  <2>3. ContentionHasCause' /\ WaitsInOrder'
    BY <1>8 DEF Tick, ContentionHasCause, WaitsInOrder, Window, UntilWindowEnds, store, local
  <2> QED
    BY <2>3, <1>8, <2>1, <2>2, QuietInvariant DEF Tick, ledger
<1>9. CASE UNCHANGED vars
  BY <1>9 DEF vars, loopVars, store, local, ledger, LoopTypeOK, RoundsInOrder,
              ContentionHasCause, SnapshotsFaithful, Fresh, Window, CountIsAdmissions,
              Counted, AdmittedByWindow, WaitsInOrder, UntilWindowEnds
<1> QED
  BY <1>1, <1>2, <1>3, <1>4, <1>5, <1>6, <1>7, <1>8, <1>9 DEF Next, Advance

(* Every state of the limiter satisfies the inductive invariant.           *)
THEOREM Invariance == Spec => []IInv
<1> QED
  BY InitInvariant, NextInvariant, PTL DEF Spec

(* Types: in particular the loop runs at most MaxAttempts rounds and the   *)
(* stored count and window stay unsigned (fixed_window.rs l.19-22, l.50).  *)
THEOREM TypeCorrect == Spec => []TypeOK
<1>1. IInv => TypeOK
  BY DEF IInv
<1> QED
  BY <1>1, Invariance, PTL

(* No admission is lost: whatever the interleaving and whatever calls are  *)
(* lost, the stored count is what was let in since its window was entered  *)
(* (fixed_window.rs l.67-80).                                              *)
THEOREM NoAdmissionLost == Spec => []CountIsAdmissions
<1>1. IInv => CountIsAdmissions
  BY DEF IInv
<1> QED
  BY <1>1, Invariance, PTL

(* The quota of a window (fixed_window.rs l.3-5): at most MaxRequests, plus *)
(* MaxRequests for every write that moved the stored window back in time.  *)
THEOREM QuotaKept == Spec => []WindowBudget
<1>1. IInv => WindowBudget
  <2> SUFFICES ASSUME IInv PROVE WindowBudget
    OBVIOUS
  <2>1. version \in Nat /\ entry.window \in Nat /\ entry.count \in Nat
    BY DEF IInv, TypeOK, LoopTypeOK, States
  <2>2. since <= MaxRequests
    BY <2>1, LimitAssumption DEF IInv, CountIsAdmissions, Counted
  <2> QED
    BY <2>1, <2>2, QuotaFollows DEF IInv, TypeOK
<1> QED
  BY <1>1, Invariance, PTL

(* Denials for contention are earned (fixed_window.rs l.98-104): for a     *)
(* task whose calls are answered, MaxAttempts others were decided meanwhile. *)
THEOREM ContentionEarned == Spec => []ContentionHasCause
<1>1. IInv => ContentionHasCause
  BY DEF IInv
<1> QED
  BY <1>1, Invariance, PTL

(* A window ends when the next one starts (fixed_window.rs l.72).          *)
LEMMA NextWindowStarts ==
  ASSUME NEW n \in Nat
  PROVE  \E ms \in Nat :
           /\ UntilWindowEnds(n) = ms * 1000
           /\ n + ms \in Nat
           /\ Window(n + ms) = Window(n) + 1
<1> DEFINE v == Window(n)
           second == n % WindowSecs
           opening == v * WindowSecs
           end == (v + 1) * WindowSecs
<1>1. /\ v \in Nat /\ second \in 0..(WindowSecs - 1) /\ n - opening = second
      /\ WindowSecs \in Nat \ {0}
  BY WindowSpan, LimitAssumption
<1>2. UntilWindowEnds(n) = (end - n) * 1000
  BY DEF UntilWindowEnds
<1> HIDE DEF v, second
<1>3. opening \in Nat /\ end = opening + WindowSecs
  BY <1>1
<1>4. end = (v + 1) * WindowSecs + 0
  BY <1>1
<1> HIDE DEF opening, end
<1>5. end - n \in Nat /\ n + (end - n) = end /\ end \in Nat
  BY <1>1, <1>3
<1>6. v + 1 \in Nat /\ 0 \in 0..(WindowSecs - 1)
  BY <1>1
<1>7. Window(end) = v + 1
  BY <1>4, <1>5, <1>6, WindowOfSecond
<1> QED
  BY <1>2, <1>5, <1>7 DEF v

(* The advised wait (fixed_window.rs l.72-74): a request no larger than    *)
(* the limit is let in when the window of its denial is over, if nobody    *)
(* else was decided meanwhile.                                             *)
THEOREM WaitsEnough == Spec => []AdvisedRetrySucceeds
<1>1. IInv => AdvisedRetrySucceeds
  <2> SUFFICES ASSUME IInv, NEW t \in Tasks, reply[t].verdict = "denied",
                      reply[t].stamp = version, cost[t] <= MaxRequests
      PROVE  Evaluate(entry, now[t] + reply[t].wait \div 1000, cost[t]).allowed
    BY DEF AdvisedRetrySucceeds
  <2>1. /\ now[t] \in Nat /\ cost[t] \in Nat /\ entry.window = Window(now[t])
        /\ reply[t].wait = UntilWindowEnds(now[t])
    BY DEF IInv, TypeOK, LoopTypeOK, WaitsInOrder
  <2>2. PICK ms \in Nat : /\ UntilWindowEnds(now[t]) = ms * 1000
                          /\ now[t] + ms \in Nat
                          /\ Window(now[t] + ms) = Window(now[t]) + 1
    <3>1. PICK n \in Nat : n = now[t]
      BY <2>1
    <3>2. \E ms \in Nat : /\ UntilWindowEnds(n) = ms * 1000
                          /\ n + ms \in Nat
                          /\ Window(n + ms) = Window(n) + 1
      BY NextWindowStarts
    <3> QED
      BY <3>1, <3>2
  <2>3. reply[t].wait \div 1000 = ms
    <3>1. reply[t].wait = ms * 1000
      BY <2>1, <2>2
    <3>2. (ms * 1000) \div 1000 = ms
      OBVIOUS
    <3> QED
      BY <3>1, <3>2
  <2>4. CountAt(entry, now[t] + ms) = 0
    <3>1. entry.window \in Nat
      BY <2>1, WindowSpan
    <3>2. entry.window # Window(now[t] + ms)
      BY <2>1, <2>2, <3>1
    <3> QED
      BY <3>2 DEF CountAt
  <2>5. Fits(entry, now[t] + ms, cost[t])
    BY <2>1, <2>4 DEF Fits
  <2> QED
    BY <2>3, <2>5 DEF Evaluate
<1> QED
  BY <1>1, Invariance, PTL

-----------------------------------------------------------------------------
(* What a task evaluates when its cas succeeds is what is stored (l.58-80). *)
LEMMA OutcomeIsJudgement ==
  ASSUME IInv, NEW t \in Tasks, NEW out, Write(t, out)
  PROVE  /\ Outcome(t) = Atomic!Judgement(t, now[t])
         /\ Atomic!Timely(t, now[t])
         /\ now[t] \in 0..clock
<1>1. pc[t] = "cas" /\ expected[t] = version
  BY DEF Write
<1>2. now[t] \in Nat /\ version \in Nat /\ clock \in Nat
  BY DEF IInv, TypeOK, LedgerTypeOK, LoopTypeOK
<1>3. snap[t] = IF version = 0 THEN Fresh(now[t]) ELSE entry
  BY <1>1, <1>2 DEF IInv, SnapshotsFaithful
<1>4. now[t] <= clock /\ start[t].clock <= now[t] + Drift
  BY <1>1 DEF IInv, RoundsInOrder
<1> QED
  BY <1>2, <1>3, <1>4 DEF Outcome, Atomic!Judgement, Atomic!Timely

(* A step of the loop, seen from outside, is a step of the atomic limiter  *)
(* or no step at all: get, the sleeps and the lost rounds are invisible.   *)
LEMMA StepRefines == IInv /\ [Next]_vars => [Atomic!Next]_(Atomic!vars)
<1> SUFFICES ASSUME IInv, [Next]_vars PROVE [Atomic!Next]_(Atomic!vars)
  OBVIOUS
<1> DEFINE open == [t \in Tasks |-> pc[t] # "idle"]
<1>0. pc \in [Tasks -> Labels]
  BY DEF IInv, TypeOK, LedgerTypeOK, LoopTypeOK
<1>1. ASSUME NEW t \in Tasks, NEW c \in Costs, Begin(t, c)
      PROVE  Atomic!Ask(t, c)
  <2>1. ~open[t] /\ open' = [open EXCEPT ![t] = TRUE]
    BY <1>0, <1>1 DEF Begin
  <2> QED
    BY <1>1, <2>1 DEF Begin, NoReply, Reply, Atomic!Ask, Atomic!NoReply, Atomic!Reply, store
<1>2. ASSUME NEW t \in Tasks, Get(t, Fresh(now[t]))
      PROVE  UNCHANGED Atomic!vars
  <2>1. open' = open
    BY <1>0, <1>2 DEF Get
  <2> QED
    BY <1>2, <2>1 DEF Get, Atomic!vars, store
<1>3. ASSUME NEW t \in Tasks, Commit(t, Outcome(t))
      PROVE  \E n \in 0..clock : Atomic!Decide(t, n)
  <2>1. open[t] /\ open' = [open EXCEPT ![t] = FALSE]
    BY <1>0, <1>3 DEF Commit, Write
  <2>2. PICK n \in 0..clock : n = now[t]
    BY <1>3, OutcomeIsJudgement DEF Commit
  <2>3. Outcome(t) = Atomic!Judgement(t, n) /\ Atomic!Timely(t, n)
    BY <1>3, <2>2, OutcomeIsJudgement DEF Commit
  <2>4. Atomic!Decide(t, n)
    BY <1>3, <2>1, <2>3 DEF Commit, Write, Answer, Reply, Atomic!Decide, Atomic!Charge,
                              Atomic!Answer, Atomic!Reply
  <2> QED
    BY <2>4
<1>4. ASSUME NEW t \in Tasks, CommitUnseen(t, Outcome(t))
      PROVE  \E n \in 0..clock : Atomic!DecideUnseen(t, n) \/ Atomic!DecideUnseenAndRefuse(t, n)
  <2>1. open[t]
    BY <1>4 DEF CommitUnseen, Write
  <2>2. PICK n \in 0..clock : n = now[t]
    BY <1>4, OutcomeIsJudgement DEF CommitUnseen
  <2>3. Outcome(t) = Atomic!Judgement(t, n) /\ Atomic!Timely(t, n)
    BY <1>4, <2>2, OutcomeIsJudgement DEF CommitUnseen
  <2>4. Atomic!Charge(t, n) /\ t \in Unreliable
    BY <1>4, <2>1, <2>3 DEF CommitUnseen, Write, LoseRound, Atomic!Charge
  <2>5. CASE attempt[t] + 1 < MaxAttempts
    <3>1. open' = open /\ UNCHANGED reply
      BY <1>0, <1>4, <2>5 DEF CommitUnseen, Write, LoseRound
    <3> QED
      BY <2>4, <3>1 DEF Atomic!DecideUnseen
  <2>6. CASE ~(attempt[t] + 1 < MaxAttempts)
    <3>1. /\ open' = [open EXCEPT ![t] = FALSE]
          /\ reply' = [reply EXCEPT ![t] = Contended(version + 1)]
      BY <1>0, <1>4, <2>6 DEF CommitUnseen, Write, LoseRound
    <3> QED
      BY <2>4, <3>1 DEF Atomic!DecideUnseenAndRefuse, Contended, Reply,
                        Atomic!Contended, Atomic!Reply
  <2> QED
    BY <2>5, <2>6
<1>5. ASSUME NEW t \in Tasks, Conflict(t)
      PROVE  Atomic!Refuse(t) \/ UNCHANGED Atomic!vars
  <2>1. CASE attempt[t] + 1 < MaxAttempts
    <3>1. open' = open
      BY <1>0, <1>5, <2>1 DEF Conflict, LoseRound
    <3> QED
      BY <1>5, <2>1, <3>1 DEF Conflict, LoseRound, Atomic!vars, store
  <2>2. CASE ~(attempt[t] + 1 < MaxAttempts)
    <3>1. open[t] /\ open' = [open EXCEPT ![t] = FALSE]
      BY <1>0, <1>5, <2>2 DEF Conflict, LoseRound
    <3>2. t \in Unreliable \/ start[t].version + MaxAttempts <= version
      BY <1>5, <2>2, LastRoundHasCause DEF IInv, TypeOK
    <3> QED
      BY <1>5, <2>2, <3>1, <3>2 DEF Conflict, LoseRound, Contended, Reply, Atomic!Refuse,
                                     Atomic!Contended, Atomic!Reply, store
  <2> QED
    BY <2>1, <2>2
<1>6. ASSUME NEW t \in Tasks, Wake(t)
      PROVE  UNCHANGED Atomic!vars
  <2>1. open' = open
    BY <1>0, <1>6 DEF Wake
  <2> QED
    BY <1>6, <2>1 DEF Wake, Atomic!vars, store
<1>7. ASSUME NEW t \in Tasks, Abandon(t)
      PROVE  Atomic!Drop(t)
  <2>1. open[t] /\ open' = [open EXCEPT ![t] = FALSE]
    BY <1>0, <1>7 DEF Abandon
  <2> QED
    BY <1>7, <2>1 DEF Abandon, Atomic!Drop, store
<1>8. ASSUME Tick
      PROVE  Atomic!Tick
  BY <1>8 DEF Tick, Atomic!Tick, store, local
<1>9. ASSUME UNCHANGED vars
      PROVE  UNCHANGED Atomic!vars
  BY <1>9 DEF vars, loopVars, store, local, Atomic!vars
<1>10. ASSUME NEW t \in Tasks, Advance(t)
       PROVE  Atomic!Next \/ UNCHANGED Atomic!vars
  <2>1. CASE Commit(t, Outcome(t))
    BY <2>1, <1>3 DEF Atomic!Next
  <2>2. CASE CommitUnseen(t, Outcome(t))
    BY <2>2, <1>4 DEF Atomic!Next
  <2> QED
    BY <1>10, <2>1, <2>2, <1>2, <1>5, <1>6 DEF Advance, Atomic!Next
<1> QED
  BY <1>1, <1>7, <1>8, <1>9, <1>10 DEF Next, Atomic!Next

(* The limiter implements the one-step limiter: every answer is the answer *)
(* of a check that ran alone at one moment (fixed_window.rs l.46-105), so  *)
(* the awaits between clock, get and cas cannot be told from outside.      *)
THEOREM Atomicity == Spec => ChecksAreAtomic
<1>1. Init => Atomic!Init
  BY DEF Init, LoopInit, NoReply, Reply, Atomic!Init, Atomic!NoReply, Atomic!Reply
<1> QED
  BY <1>1, Invariance, StepRefines, PTL DEF Spec, ChecksAreAtomic, Atomic!Spec
-----------------------------------------------------------------------------
\* What the key may hold at time n, and what that still lets in at once.
StoredAt(n) == {s \in States : s.window = Window(n) /\ s.count <= MaxRequests}
RoomOf(s) == MaxRequests - s.count

(* What Service asks of a limiter (its AlgorithmAssumption): at any one    *)
(* time, decisions take what they let in from a room that is the limit      *)
(* at first (fixed_window.rs l.64-78).                                    *)
THEOREM TakesFromRoom ==
  ASSUME NEW n \in Nat
  PROVE  /\ Fresh(n) \in StoredAt(n) /\ RoomOf(Fresh(n)) <= MaxRequests
         /\ \A s \in StoredAt(n) : RoomOf(s) \in Nat
         /\ \A s \in StoredAt(n), k \in Nat : LET out == Evaluate(s, n, k) IN
              /\ out.state \in StoredAt(n) /\ out.allowed \in BOOLEAN
              /\ out.remaining \in Int /\ out.wait \in Int
              /\ RoomOf(out.state) + (IF out.allowed THEN k ELSE 0) <= RoomOf(s)
<1>1. Fresh(n) \in StoredAt(n) /\ RoomOf(Fresh(n)) = MaxRequests
  <2>1. Fresh(n) \in States /\ Fresh(n).count = 0 /\ Fresh(n).window = Window(n)
    BY FreshIsState DEF Fresh
  <2> QED
    BY <2>1, LimitAssumption DEF StoredAt, RoomOf
<1>2. ASSUME NEW s \in StoredAt(n)
      PROVE  /\ s \in States /\ s.window = Window(n) /\ s.count \in 0..MaxRequests
             /\ RoomOf(s) \in Nat
  BY LimitAssumption DEF StoredAt, States, RoomOf
<1>3. ASSUME NEW s \in StoredAt(n), NEW k \in Nat
      PROVE  LET out == Evaluate(s, n, k) IN
               /\ out.state \in StoredAt(n) /\ out.allowed \in BOOLEAN
               /\ out.remaining \in Int /\ out.wait \in Int
               /\ RoomOf(out.state) + (IF out.allowed THEN k ELSE 0) <= RoomOf(s)
  <2> DEFINE out == Evaluate(s, n, k)
  <2>1. CountAt(s, n) = s.count
    BY <1>2 DEF CountAt
  <2>2. /\ out.state \in States /\ out.state.window = Window(n)
        /\ out.allowed \in BOOLEAN /\ out.remaining \in Int /\ out.wait \in Int
        /\ out.state.count = s.count + (IF out.allowed THEN k ELSE 0)
        /\ out.state.count <= MaxRequests
    BY <1>2, <2>1, EvaluateFacts
  <2> HIDE DEF out
  <2>3. out.state \in StoredAt(n)
    BY <2>2 DEF StoredAt
  <2>4. RoomOf(out.state) + (IF out.allowed THEN k ELSE 0) <= RoomOf(s)
    BY <1>2, <2>2, LimitAssumption DEF RoomOf
  <2> QED
    BY <2>2, <2>3, <2>4 DEF out
<1> QED
  BY <1>1, <1>2, <1>3, LimitAssumption-----------------------------------------------------------------------------
(* A later reading is in no earlier window (fixed_window.rs l.56).         *)
LEMMA WindowsInOrder ==
  ASSUME NEW n \in Nat, NEW m \in Nat, n <= m
  PROVE  Window(n) \in Nat /\ Window(m) \in Nat /\ Window(n) <= Window(m)
BY WindowSpan, QuotientsInOrder, LimitAssumption DEF Window

(* While one task t has the key to itself, the window stored is never      *)
(* later than the clock reading the task works with.                       *)
Undisturbed(t) ==
  /\ rewinds = 0
  /\ version > 0 => entry.window <= Window(now[t])

(* With an exact clock a new reading is no earlier than the last one.      *)
LEMMA ReadAnew ==
  ASSUME IInv, NEW t \in Tasks, Undisturbed(t), Drift = 0,
         NEW n \in Readings, now' = [now EXCEPT ![t] = n],
         UNCHANGED <<store, ledger>>
  PROVE  Undisturbed(t)'
<1>1. /\ clock \in Nat /\ now[t] \in Nat /\ entry.window \in Nat /\ version \in Nat
      /\ now'[t] = n /\ now[t] <= clock
  BY DEF IInv, TypeOK, LedgerTypeOK, LoopTypeOK, States, RoundsInOrder
<1>2. n = clock
  BY <1>1 DEF Readings
<1>3. PICK v \in Nat, w \in Nat : v = Window(now[t]) /\ w = Window(n) /\ v <= w
  BY <1>1, <1>2, WindowsInOrder
<1>4. Window(now[t])' = w
  BY <1>1, <1>3 DEF Window
<1> QED
  BY <1>1, <1>3, <1>4 DEF Undisturbed, store, ledger

(* A write puts the window of the reading that was used into the entry.    *)
LEMMA WriteInPlace ==
  ASSUME IInv, NEW t \in Tasks, Undisturbed(t), UNCHANGED now,
         Write(t, Outcome(t)), Book(t, Granted(t))
  PROVE  Undisturbed(t)'
<1>1. entry'.window = Window(now[t]) /\ Window(now[t]) \in Nat
  <2>1. now[t] \in Nat /\ cost[t] \in Nat /\ snap[t] \in States
    BY OutcomeTypes DEF IInv
  <2>2. entry' = Evaluate(snap[t], now[t], cost[t]).state
    BY DEF Write, Outcome
  <2> QED
    BY <2>1, <2>2, EvaluateFacts, WindowSpan
<1>2. entry.window \in Nat /\ rewinds \in Nat
  BY DEF IInv, TypeOK, LedgerTypeOK, LoopTypeOK, States
<1>3. ~(version > 0 /\ Window(now[t]) < entry.window)
  BY <1>1, <1>2 DEF Undisturbed
<1>4. rewinds' = 0
  BY <1>3 DEF Book, Undisturbed
<1> QED
  BY <1>1, <1>4 DEF Undisturbed, Window

LEMMA NextUndisturbed ==
  ASSUME IInv, [Next]_vars, NEW t, Tasks = {t}, Drift = 0, Undisturbed(t)
  PROVE  Undisturbed(t)'
<1> USE DEF store, ledger
<1>1. ASSUME NEW c \in Costs, Begin(t, c), UNCHANGED ledger
      PROVE  Undisturbed(t)'
  BY <1>1, ReadAnew DEF Begin
<1>2. ASSUME Wake(t), UNCHANGED ledger
      PROVE  Undisturbed(t)'
  BY <1>2, ReadAnew DEF Wake
<1>3. ASSUME \/ Commit(t, Outcome(t))
             \/ CommitUnseen(t, Outcome(t)),
             Book(t, Granted(t))
      PROVE  Undisturbed(t)'
  BY <1>3, WriteInPlace DEF Commit, CommitUnseen, LoseRound
<1>4. ASSUME UNCHANGED <<store, now, ledger>>
      PROVE  Undisturbed(t)'
  BY <1>4 DEF Undisturbed, Window
<1>5. CASE Get(t, Fresh(now[t])) /\ UNCHANGED ledger
  BY <1>4, <1>5 DEF Get
<1>6. CASE Conflict(t) /\ UNCHANGED ledger
  BY <1>4, <1>6 DEF Conflict, LoseRound
<1>7. CASE (Abandon(t) \/ Tick) /\ UNCHANGED ledger
  BY <1>4, <1>7 DEF Abandon, Tick, local
<1>8. CASE UNCHANGED vars
  BY <1>4, <1>8 DEF vars, loopVars, local
<1> QED
  BY <1>1, <1>2, <1>3, <1>5, <1>6, <1>7, <1>8 DEF Next, Advance

(* What the doc comment promises of every window (fixed_window.rs l.3-5)   *)
(* is so when checks of a key come one after the other, by an exact clock, *)
(* whatever calls are lost: only a check that another one overtakes can    *)
(* take the stored window back, as in run FixedWindowLimit.                *)
THEOREM AloneWithinLimit ==
  ASSUME NEW t, Tasks = {t}, Drift = 0
  PROVE  Spec => []WindowLimit
<1>1. Init => Undisturbed(t)
  BY DEF Init, LoopInit, LedgerInit, Undisturbed
<1>2. IInv /\ Undisturbed(t) /\ [Next]_vars => Undisturbed(t)'
  BY NextUndisturbed
<1>3. WindowBudget /\ Undisturbed(t) /\ TypeOK => WindowLimit
  BY LimitAssumption DEF WindowBudget, Undisturbed, WindowLimit, TypeOK, LedgerTypeOK
<1> QED
  BY <1>1, <1>2, <1>3, Invariance, TypeCorrect, QuotaKept, PTL DEF Spec
=============================================================================
