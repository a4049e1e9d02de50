---------------------- MODULE SlidingWindowCounterProofs ----------------------
(***************************************************************************)
(* Proofs about the sliding-window-counter limiter, for any number of      *)
(* tasks, any costs, limit, window length, clock drift and rounds.         *)
(***************************************************************************)
EXTENDS SlidingWindowCounter, CheckLoopProofs

(* The seconds of a window are those from its first on (l.59-62).          *)
LEMMA WindowSpan ==
  ASSUME NEW n \in Nat
  PROVE  /\ Window(n) \in Nat
         /\ n % WindowSecs \in 0..(WindowSecs - 1)
         /\ n - Window(n) * WindowSecs = n % WindowSecs
BY QuotientSpan, LimitAssumption DEF Window

(* No second lies in two windows.                                          *)
LEMMA WindowOfSecond ==
  ASSUME NEW n \in Nat, NEW w \in Nat, NEW r \in 0..(WindowSecs - 1),
         n = w * WindowSecs + r
  PROVE  Window(n) = w
BY QuotientOf, LimitAssumption DEF Window

(* A reading within the model's time lies in one of its windows.           *)
LEMMA WindowInRange ==
  ASSUME NEW n \in Nat, n <= MaxClock
  PROVE  Window(n) \in Windows
<1>1. Window(n) \in Nat /\ Window(MaxClock) \in Nat
  BY WindowSpan, BoundsAssumption
<1>2. Window(n) <= Window(MaxClock)
  BY QuotientsInOrder, LimitAssumption, BoundsAssumption DEF Window
<1> QED
  BY <1>1, <1>2 DEF Windows

(* The account keeps its types and the quotas of the windows when a write  *)
(* for a window is booked (l.85-92).                                       *)
LEMMA BookKeepsQuota ==
  ASSUME LedgerTypeOK, AdmittedByWindow, since <= MaxRequests,
         version \in Nat, entry.window \in Nat,
         NEW t \in Tasks, now[t] \in Nat, NEW g \in Nat, Book(t, g),
         version' = version + 1, entry'.window = Window(now[t])
  PROVE  LedgerTypeOK' /\ AdmittedByWindow'
<1>1. PICK w \in Nat : w = Window(now[t])
  BY WindowSpan
<1>2. /\ since' = g + (IF version > 0 /\ entry.window = w THEN since ELSE 0)
      /\ rewinds' = rewinds + (IF version > 0 /\ w < entry.window THEN 1 ELSE 0)
      /\ rewinds \in Nat /\ since \in Nat /\ since' \in Nat /\ rewinds' \in Nat
  BY <1>1 DEF Book, LedgerTypeOK
<1>3. admitted' \in [Windows -> Nat]
  <2>1. \A u \in Windows : admitted[u] + g \in Nat
    BY DEF LedgerTypeOK
  <2> QED
    BY <2>1 DEF LedgerTypeOK, Book
<1>4. ASSUME NEW u \in Windows
      PROVE  admitted'[u] <= MaxRequests * rewinds' + Share(u, version + 1, w, since', MaxRequests)
  <2>1. /\ u \in Nat /\ admitted[u] \in Nat /\ MaxRequests \in Nat
        /\ admitted'[u] = IF u = w THEN admitted[u] + g ELSE admitted[u]
    BY <1>1, LimitAssumption DEF LedgerTypeOK, Book, Windows
  <2>2. admitted[u] <= MaxRequests * rewinds + Share(u, version, entry.window, since, MaxRequests)
    BY DEF AdmittedByWindow, Share
  <2>3. (IF u = w THEN admitted[u] + g ELSE admitted[u])
          <= MaxRequests * (rewinds + (IF version > 0 /\ w < entry.window THEN 1 ELSE 0))
             + Share(u, version + 1, w,
                     g + (IF version > 0 /\ entry.window = w THEN since ELSE 0), MaxRequests)
    BY <1>2, <2>1, <2>2, ShareKept
  <2> QED
    BY <1>2, <2>1, <2>3
<1>5. AdmittedByWindow'
  BY <1>1, <1>4 DEF AdmittedByWindow, Share, Windows, Window
<1> QED
  BY <1>2, <1>3, <1>5 DEF LedgerTypeOK, Windows, Window

(* Then every window stays within its quota, plus one for every write that *)
(* moved the stored window back (l.85-86).                                 *)
LEMMA QuotaFollows ==
  ASSUME LedgerTypeOK, AdmittedByWindow, since <= MaxRequests,
         version \in Nat, entry.window \in Nat
  PROVE  WindowBudget
<1>1. ASSUME NEW u \in Windows
      PROVE  admitted[u] <= MaxRequests * (1 + rewinds)
  <2>1. u \in Nat /\ admitted[u] \in Nat /\ rewinds \in Nat /\ since \in Nat
    BY DEF LedgerTypeOK, Windows
  <2>2. admitted[u] <= MaxRequests * rewinds + Share(u, version, entry.window, since, MaxRequests)
    BY DEF AdmittedByWindow, Share
  <2> QED
    BY <2>1, <2>2, ShareWithinQuota, LimitAssumption
<1> QED
  BY <1>1 DEF WindowBudget

-----------------------------------------------------------------------------
(* A key that is absent reads as a window with nothing in it               *)
(* (sliding_window_counter.rs l.73).                                       *)
LEMMA FreshIsState ==
  ASSUME NEW n \in Nat
  PROVE  Fresh(n) \in States
BY WindowSpan, LimitAssumption DEF Fresh, States

(* The counts as of a reading (l.76-81).                                   *)
LEMMA CountFacts ==
  ASSUME NEW s \in States, NEW n \in Nat
  PROVE  /\ Window(n) \in Nat
         /\ PrevAt(s, n) \in 0..MaxRequests
         /\ CountAt(s, n) \in 0..MaxRequests
         /\ SecondsLeft(n) \in 1..WindowSecs
         /\ PrevAt(s, n) * SecondsLeft(n) \in Nat
         /\ Weighted(s, n) = PrevAt(s, n) * SecondsLeft(n) + CountAt(s, n) * WindowSecs
         /\ CountAt(s, n) * WindowSecs \in Nat
         /\ Weighted(s, n) \in Nat
<1> DEFINE prev == PrevAt(s, n)
           count == CountAt(s, n)
           left == SecondsLeft(n)
           second == n % WindowSecs
<1>1. s.prev \in 0..MaxRequests /\ s.count \in 0..MaxRequests /\ s.window \in Nat
  BY DEF States
<1>2. Window(n) \in Nat /\ Passed(s, n) \in Nat
  BY <1>1, WindowSpan DEF Passed
<1>3. prev \in 0..MaxRequests /\ count \in 0..MaxRequests
  BY <1>1, <1>2, LimitAssumption DEF PrevAt, CountAt
<1>4. second \in 0..(WindowSecs - 1) /\ left = WindowSecs - second
  BY WindowSpan DEF SecondsLeft
<1>5. Weighted(s, n) = prev * left + count * WindowSecs
  BY DEF Weighted
<1> HIDE DEF prev, count, left, second
<1>6. left \in 1..WindowSecs
  BY <1>4, LimitAssumption
<1>7. prev * left \in Nat /\ count * WindowSecs \in Nat
  BY <1>3, <1>6, LimitAssumption
<1>8. Weighted(s, n) \in Nat
  BY <1>5, <1>7
<1> QED
  BY <1>2, <1>3, <1>5, <1>6, <1>7, <1>8 DEF prev, count, left

(* A request that fits the estimate fits the count alone (l.83-87).        *)
LEMMA FitsWithinLimit ==
  ASSUME NEW s \in States, NEW n \in Nat, NEW c \in Nat, Fits(s, n, c)
  PROVE  CountAt(s, n) + c <= MaxRequests
<1> DEFINE count == CountAt(s, n)
           older == PrevAt(s, n) * SecondsLeft(n)
           counted == count * WindowSecs
           asked == c * WindowSecs
           limit == MaxRequests * WindowSecs
<1>1. older \in Nat /\ count \in Nat /\ counted \in Nat
  BY CountFacts
<1>2. asked \in Nat /\ limit \in Nat /\ MaxRequests \in Nat /\ WindowSecs \in Nat
  BY LimitAssumption
<1>3. older + counted + asked <= limit
  BY CountFacts DEF Fits
<1> HIDE DEF older, count
<1>4. (count + c) * WindowSecs = counted + asked
  BY <1>1, <1>2
<1>5. counted + asked <= limit
  <2> HIDE DEF counted, asked, limit
  <2> QED
    BY <1>1, <1>2, <1>3
<1> HIDE DEF counted, asked
<1>6. ~(MaxRequests < count + c)
  <2> SUFFICES ASSUME MaxRequests < count + c PROVE FALSE
    OBVIOUS
  <2>1. limit + WindowSecs <= (count + c) * WindowSecs
    <3>1. count + c \in Int /\ MaxRequests \in Int
      BY <1>1, <1>2
    <3> QED
      BY <3>1, MultiplesInOrder, LimitAssumption
  <2> HIDE DEF limit
  <2> QED
    BY <1>1, <1>2, <1>4, <1>5, <2>1, LimitAssumption
<1> QED
  BY <1>1, <1>2, <1>6 DEF count

(* What an evaluation returns (l.76-104).                                  *)
LEMMA EvaluateFacts ==
  ASSUME NEW s \in States, NEW n \in Nat, NEW c \in Nat
  PROVE  LET out == Evaluate(s, n, c)
             granted == IF out.allowed THEN c ELSE 0
         IN  /\ out.state \in States
             /\ out.state.window = Window(n)
             /\ out.state.prev = PrevAt(s, n)
             /\ out.state.count = CountAt(s, n) + granted
             /\ granted \in Nat
             /\ out.allowed = Fits(s, n, c)
             /\ out.allowed \in BOOLEAN
             /\ out.remaining \in Int
             /\ out.wait \in Int
             /\ ~out.allowed => out.wait = MsLeft(n)
<1> DEFINE count == CountAt(s, n)
           after == CountAfter(s, n, c)
           fits == Fits(s, n, c)
           out == Evaluate(s, n, c)
           spare == MaxRequests * WindowSecs - Weighted(s, n) - c * WindowSecs
<1>1. count \in 0..MaxRequests /\ PrevAt(s, n) \in 0..MaxRequests /\ Window(n) \in Nat
  BY CountFacts
<1>2. fits \in BOOLEAN /\ after = IF fits THEN count + c ELSE count
  BY DEF Fits, CountAfter
<1>3. fits => count + c <= MaxRequests
  BY FitsWithinLimit
<1>4. spare \in Int
  <2>1. MaxRequests * WindowSecs \in Int /\ c * WindowSecs \in Int
    BY LimitAssumption
  <2>2. Weighted(s, n) \in Int
    BY CountFacts
  <2> QED
    BY <2>1, <2>2
<1>5. LeftOf(s, n, c) = spare \div WindowSecs
  BY DEF LeftOf
<1> HIDE DEF spare
<1>6. LeftOf(s, n, c) \in Int
  BY <1>4, <1>5, LimitAssumption
<1>7. MsLeft(n) \in Int
  <2>1. SecondsLeft(n) \in Int
    BY CountFacts
  <2> QED
    BY <2>1 DEF MsLeft
<1>8. /\ out.state = [prev |-> PrevAt(s, n), count |-> after, window |-> Window(n)]
      /\ out.allowed = fits
      /\ out.remaining = IF fits THEN LeftOf(s, n, c) ELSE 0
      /\ out.wait = IF fits THEN 0 ELSE MsLeft(n)
  BY DEF Evaluate
<1> HIDE DEF count, after, fits, out
<1>9. after \in 0..MaxRequests /\ after = count + (IF fits THEN c ELSE 0)
  BY <1>1, <1>2, <1>3, LimitAssumption
<1>10. out.state \in States
  <2>1. [prev |-> PrevAt(s, n), count |-> after, window |-> Window(n)] \in States
    BY <1>1, <1>9 DEF States
  <2> QED
    BY <1>8, <2>1
<1>11. out.remaining \in Int /\ out.wait \in Int /\ (~fits => out.wait = MsLeft(n))
  BY <1>2, <1>6, <1>7, <1>8
<1>12. out.state.window = Window(n) /\ out.state.prev = PrevAt(s, n) /\ out.state.count = after
  BY <1>8
<1>13. (IF fits THEN c ELSE 0) \in Nat
  OBVIOUS
<1> QED
  BY <1>2, <1>8, <1>9, <1>10, <1>11, <1>12, <1>13 DEF count, fits, out

(* What a task computes from its snapshot (l.76-104).                      *)
LEMMA OutcomeFacts ==
  ASSUME TypeOK, NEW t \in Tasks
  PROVE  /\ now[t] \in Nat /\ cost[t] \in Nat /\ snap[t] \in States
         /\ Outcome(t).state \in States
         /\ Outcome(t).state.window = Window(now[t])
         /\ Outcome(t).state.prev = PrevAt(snap[t], now[t])
         /\ Outcome(t).state.count = CountAt(snap[t], now[t]) + Granted(t)
         /\ Granted(t) \in Nat
         /\ Outcome(t).allowed \in BOOLEAN
         /\ Outcome(t).remaining \in Int
         /\ Outcome(t).wait \in Int
         /\ ~Outcome(t).allowed => Outcome(t).wait = MsLeft(now[t])
<1>1. now[t] \in Nat /\ cost[t] \in Nat /\ snap[t] \in States
  BY DEF TypeOK, LoopTypeOK
<1> QED
  BY <1>1, EvaluateFacts DEF Outcome, Granted

-----------------------------------------------------------------------------
(* The counts a write finds for its window and for the one before are what *)
(* was admitted in them (l.76-81): the cas made sure that they are current. *)
LEMMA WriteKeepsWindows ==
  ASSUME IInv, NEW t \in Tasks, Write(t, Outcome(t)), Book(t, Granted(t)), UNCHANGED clock
  PROVE  WindowsInOrder' /\ CountsAreAdmissions'
<1> USE DEF IInv, TypeOK
<1> DEFINE g == Granted(t)
           count == CountAt(snap[t], now[t])
           prev == PrevAt(snap[t], now[t])
<1>1. /\ now[t] \in Nat /\ now[t] <= MaxClock
      /\ version \in Nat /\ entry \in States /\ rewinds \in Nat /\ since \in Nat
      /\ admitted \in [Windows -> Nat]
      /\ pc[t] = "cas" /\ expected[t] = version
  BY BoundsAssumption DEF LoopTypeOK, LedgerTypeOK, RoundsInOrder, WindowsInOrder, Write
<1>2. Window(now[t]) \in Windows
  BY <1>1, WindowInRange
<1>3. PICK w \in Windows : w = Window(now[t])
  BY <1>2
<1>4. w \in Windows /\ w \in Nat /\ w = Window(now[t])
  BY <1>3 DEF Windows
<1>5. /\ version' = version + 1
      /\ entry'.window = w /\ entry'.prev = prev /\ entry'.count = count + g
      /\ g \in Nat
  BY <1>4, OutcomeFacts DEF Write
<1>6. /\ \A u \in Windows : admitted'[u] = IF u = w THEN admitted[u] + g ELSE admitted[u]
      /\ since' = g + (IF version > 0 /\ entry.window = w THEN since ELSE 0)
      /\ rewinds' = rewinds + (IF version > 0 /\ w < entry.window THEN 1 ELSE 0)
  BY <1>1, <1>4 DEF Book
<1>7. count \in Nat /\ prev \in Nat
  BY OutcomeFacts, CountFacts
<1>8. /\ entry.count \in Nat /\ entry.prev \in Nat /\ entry.window \in Nat
  BY <1>1, LimitAssumption DEF States
<1>9. CASE version = 0
  <2>1. snap[t] = Fresh(now[t])
    BY <1>1, <1>9 DEF SnapshotsFaithful
  <2>2. count = 0 /\ prev = 0
    BY <1>4, <2>1 DEF CountAt, PrevAt, Passed, Fresh
  <2>3. \A u \in Windows : admitted[u] = 0 /\ u \in Nat
    BY <1>9 DEF WindowsInOrder, Windows
  <2> HIDE DEF g, count, prev
  <2>4. since' = g /\ \A u \in Windows : admitted'[u] = IF u = w THEN g ELSE 0
    BY <1>1, <1>5, <1>6, <1>9, <2>3
  <2>5. w - 1 # w
    BY <1>4
  <2>6. WindowsInOrder'
    BY <1>1, <1>4, <1>5, <2>2, <2>3, <2>4 DEF WindowsInOrder, Windows, Window
  <2>7. CountsAreAdmissions'
    BY <1>4, <1>5, <2>2, <2>4, <2>5 DEF CountsAreAdmissions, AdmittedIn, Windows, Window
  <2> QED
    BY <2>6, <2>7
<1>10. CASE version > 0
  <2>1. snap[t] = entry
    BY <1>1, <1>10 DEF SnapshotsFaithful
  <2>2. entry.window = w => count = entry.count
    BY <1>4, <1>8, <2>1 DEF CountAt, Passed
  <2>3. since <= entry.count
    BY <1>10 DEF WindowsInOrder
  <2>4. since' <= entry'.count
    BY <1>1, <1>5, <1>6, <1>7, <1>8, <2>2, <2>3
  <2>5. ASSUME rewinds' = 0
        PROVE  /\ \A u \in Windows : u > w => admitted'[u] = 0
               /\ entry'.count = admitted'[w]
               /\ entry'.prev = AdmittedIn(w - 1)'
    <3>1. rewinds = 0 /\ w >= entry.window
      BY <1>1, <1>4, <1>6, <1>8, <1>10, <2>5
    <3>2. /\ entry.count = admitted[entry.window]
          /\ entry.prev = AdmittedIn(entry.window - 1)
          /\ \A u \in Windows : u > entry.window => admitted[u] = 0
      BY <1>10, <3>1 DEF CountsAreAdmissions, WindowsInOrder
    <3>3. \A u \in Windows : u > w => u > entry.window /\ u # w
      BY <1>4, <1>8, <3>1 DEF Windows
    <3>4. AdmittedIn(w - 1)' = AdmittedIn(w - 1)
      BY <1>4, <1>6 DEF AdmittedIn, Windows, Window
    <3>5. Passed(snap[t], now[t]) = w - entry.window
      BY <1>4, <2>1, <3>1 DEF Passed
    <3>6. CASE w = entry.window
      <4>1. count = entry.count /\ prev = entry.prev
        BY <1>8, <2>1, <3>5, <3>6 DEF CountAt, PrevAt
      <4>2. admitted'[w] = admitted[w] + g
        BY <1>4, <1>6
      <4>3. entry'.count = admitted'[w] /\ entry'.prev = AdmittedIn(w - 1)'
        BY <1>5, <3>2, <3>4, <3>6, <4>1, <4>2
      <4> QED
        BY <1>6, <3>2, <3>3, <4>3
    <3>7. CASE w = entry.window + 1
      <4>1. count = 0 /\ prev = entry.count
        BY <1>8, <2>1, <3>5, <3>7 DEF CountAt, PrevAt
      <4>2. admitted[w] = 0
        BY <1>4, <1>8, <3>2, <3>7
      <4>3. AdmittedIn(w - 1) = admitted[entry.window]
        BY <1>8, <1>10, <3>7 DEF AdmittedIn, WindowsInOrder
      <4> QED
        BY <1>4, <1>5, <1>6, <3>2, <3>3, <3>4, <4>1, <4>2, <4>3
    <3>8. CASE w > entry.window + 1
      <4>1. count = 0 /\ prev = 0
        BY <1>4, <1>8, <2>1, <3>5, <3>8 DEF CountAt, PrevAt
      <4>2. admitted[w] = 0
        BY <1>4, <1>8, <3>2, <3>8
      <4>3. AdmittedIn(w - 1) = 0
        BY <1>4, <1>8, <3>2, <3>8 DEF AdmittedIn, Windows
      <4> QED
        BY <1>4, <1>5, <1>6, <3>2, <3>3, <3>4, <4>1, <4>2, <4>3
    <3> QED
      BY <1>4, <1>8, <3>1, <3>6, <3>7, <3>8
  <2> HIDE DEF g, count, prev
  <2>6. version' # 0 /\ version' > 0
    BY <1>1, <1>5
  <2>7. clock' <= MaxClock /\ Windows' = Windows
    BY DEF WindowsInOrder, Windows, Window
  <2>8. WindowsInOrder'
    BY <1>4, <1>5, <2>4, <2>5, <2>6, <2>7 DEF WindowsInOrder
  <2>9. CountsAreAdmissions'
    BY <1>5, <2>5 DEF CountsAreAdmissions, AdmittedIn, Windows, Window
  <2> QED
    BY <2>8, <2>9
<1> QED
  BY <1>1, <1>9, <1>10

(* The account of the windows keeps its types and the quota (l.85-92).     *)
LEMMA WriteKeepsQuota ==
  ASSUME IInv, NEW t \in Tasks, Write(t, Outcome(t)), Book(t, Granted(t))
  PROVE  LedgerTypeOK' /\ AdmittedByWindow'
<1>1. /\ version \in Nat /\ entry.window \in Nat /\ entry.count \in 0..MaxRequests
      /\ since \in Nat
  BY DEF IInv, TypeOK, LoopTypeOK, LedgerTypeOK, States
<1>2. since <= MaxRequests
  BY <1>1, LimitAssumption DEF IInv, WindowsInOrder
<1>3. now[t] \in Nat /\ Granted(t) \in Nat
      /\ version' = version + 1 /\ entry'.window = Window(now[t])
  BY OutcomeFacts DEF IInv, Write
<1>4. LedgerTypeOK /\ AdmittedByWindow
  BY DEF IInv, TypeOK
<1> QED
  BY <1>1, <1>2, <1>3, <1>4, BookKeepsQuota

(* A read snapshot stays faithful until the version moves (l.64-74).       *)
LEMMA SnapshotsUndisturbed ==
  ASSUME TypeOK, RoundsInOrder, SnapshotsFaithful,
         UNCHANGED <<now, snap, expected>>,
         \A u \in Tasks : pc'[u] = "cas" => pc[u] = "cas",
         \/ UNCHANGED store
         \/ version' = version + 1
  PROVE  SnapshotsFaithful'
<1>1. ASSUME NEW u \in Tasks, pc'[u] = "cas"
      PROVE  /\ expected'[u] = 0 => snap'[u] = Fresh(now'[u])
             /\ expected'[u] = version' /\ version' > 0 => snap'[u] = entry'
  <2>1. /\ pc[u] = "cas" /\ expected[u] \in Nat /\ version \in Nat
        /\ expected[u] <= version
    BY <1>1 DEF TypeOK, LoopTypeOK, RoundsInOrder
  <2>2. expected[u] = 0 => snap[u] = Fresh(now[u])
    BY <2>1 DEF SnapshotsFaithful
  <2>3. CASE UNCHANGED store
    BY <2>1, <2>2, <2>3 DEF SnapshotsFaithful, store
  <2>4. CASE version' = version + 1
    BY <2>1, <2>2, <2>4
  <2> QED
    BY <2>3, <2>4
<1> QED
  BY <1>1 DEF SnapshotsFaithful, Fresh, Window

(* The get of a task reads what is stored, or an absent key (l.64-74).     *)
LEMMA GetFaithful ==
  ASSUME TypeOK, SnapshotsFaithful, NEW t \in Tasks, Get(t, Fresh(now[t]))
  PROVE  SnapshotsFaithful'
<1>1. ASSUME NEW u \in Tasks, pc'[u] = "cas"
      PROVE  /\ expected'[u] = 0 => snap'[u] = Fresh(now[u])
             /\ expected'[u] = version /\ version > 0 => snap'[u] = entry
  <2>1. CASE u = t
    <3>1. \/ version > 0 /\ snap'[t] = entry /\ expected'[t] = version
          \/ snap'[t] = Fresh(now[t]) /\ expected'[t] = 0
      BY DEF Get, TypeOK, LoopTypeOK
    <3> QED
      BY <2>1, <3>1
  <2>2. CASE u # t
    <3>1. pc[u] = "cas" /\ snap'[u] = snap[u] /\ expected'[u] = expected[u]
      BY <1>1, <2>2 DEF Get, TypeOK, LoopTypeOK
    <3> QED
      BY <3>1 DEF SnapshotsFaithful
  <2> QED
    BY <2>1, <2>2
<1>2. UNCHANGED <<now, version, entry>>
  BY DEF Get, store
<1> QED
  BY <1>1, <1>2 DEF SnapshotsFaithful, Fresh, Window

(* A new reading of the clock belongs to a round that has read nothing yet. *)
LEMMA NewRoundFaithful ==
  ASSUME TypeOK, SnapshotsFaithful, NEW t \in Tasks, NEW n,
         now' = [now EXCEPT ![t] = n], pc' = [pc EXCEPT ![t] = "get"],
         UNCHANGED <<store, snap, expected>>
  PROVE  SnapshotsFaithful'
<1>1. ASSUME NEW u \in Tasks, pc'[u] = "cas"
      PROVE  pc[u] = "cas" /\ now'[u] = now[u]
  BY <1>1 DEF TypeOK, LoopTypeOK
<1> QED
  BY <1>1 DEF SnapshotsFaithful, Fresh, Window, store

(* The wait a commit tells ends the window it leaves the key in (l.89-97). *)
LEMMA CommitWaits ==
  ASSUME TypeOK, WaitsInOrder, NEW t \in Tasks, Commit(t, Outcome(t))
  PROVE  WaitsInOrder'
<1>1. /\ reply \in [Tasks -> Replies] /\ version \in Nat /\ pc \in [Tasks -> Labels]
      /\ UNCHANGED now /\ version' = version + 1
      /\ entry' = Outcome(t).state
      /\ pc' = [pc EXCEPT ![t] = "idle"]
      /\ reply' = [reply EXCEPT ![t] = Answer(Outcome(t), version + 1)]
  BY DEF TypeOK, LoopTypeOK, Commit, Write
<1>2. /\ reply'[t].stamp = version + 1 /\ reply'[t].wait = Outcome(t).wait
      /\ reply'[t].verdict = IF Outcome(t).allowed THEN "allowed" ELSE "denied"
  BY <1>1 DEF Answer, Reply
<1>3. /\ ~Outcome(t).allowed => Outcome(t).wait = MsLeft(now[t])
      /\ entry'.window = Window(now[t])
  BY <1>1, OutcomeFacts
<1>4. ASSUME NEW u \in Tasks
      PROVE  /\ pc'[u] # "idle" => reply'[u].verdict = "none"
             /\ reply'[u].verdict = "denied" =>
                  /\ reply'[u].stamp <= version'
                  /\ reply'[u].stamp = version' =>
                       /\ entry'.window = Window(now[u])
                       /\ reply'[u].wait = MsLeft(now[u])
  <2>1. CASE u = t
    <3>1. pc'[t] = "idle" /\ reply'[t].stamp <= version'
      BY <1>1, <1>2
    <3> QED
      BY <2>1, <3>1, <1>2, <1>3
  <2>2. CASE u # t
    <3>1. pc'[u] = pc[u] /\ reply'[u] = reply[u] /\ reply[u].stamp \in Nat
      BY <1>1, <2>2 DEF Replies
    <3>2. reply[u].verdict = "denied" => reply[u].stamp <= version
      BY DEF WaitsInOrder
    <3>3. reply[u].stamp <= version => reply'[u].stamp <= version' /\ reply'[u].stamp # version'
      BY <1>1, <3>1
    <3> QED
      BY <3>1, <3>2, <3>3 DEF WaitsInOrder
  <2> QED
    BY <2>1, <2>2
<1> QED
  BY <1>1, <1>4 DEF WaitsInOrder, Window, SecondsLeft

(* No round lost makes a denial, and a write outdates those there are.     *)
LEMMA LostRoundWaits ==
  ASSUME TypeOK, WaitsInOrder, NEW t \in Tasks, NEW v, LoseRound(t, v), pc[t] = "cas",
         UNCHANGED store \/ version' = version + 1
  PROVE  WaitsInOrder'
<1>1. /\ reply \in [Tasks -> Replies] /\ version \in Nat /\ pc \in [Tasks -> Labels]
      /\ UNCHANGED now
      /\ \/ pc' = [pc EXCEPT ![t] = "backoff"] /\ UNCHANGED reply
         \/ pc' = [pc EXCEPT ![t] = "idle"] /\ reply' = [reply EXCEPT ![t] = Contended(v)]
  BY DEF TypeOK, LoopTypeOK, LoseRound
<1>2. Contended(v).verdict = "contended"
  BY DEF Contended, Reply
<1>3. ASSUME NEW u \in Tasks
      PROVE  pc'[u] # "idle" => reply'[u].verdict = "none"
  BY <1>1 DEF WaitsInOrder
<1>4. ASSUME NEW u \in Tasks, reply'[u].verdict = "denied"
      PROVE  /\ reply'[u].stamp <= version'
             /\ reply'[u].stamp = version' =>
                  /\ entry'.window = Window(now[u])
                  /\ reply'[u].wait = MsLeft(now[u])
  <2>1. reply'[u] = reply[u] /\ reply[u].stamp \in Nat
    BY <1>1, <1>2, <1>4 DEF Replies
  <2>2. reply[u].stamp <= version
    BY <1>4, <2>1 DEF WaitsInOrder
  <2>3. CASE UNCHANGED store
    BY <2>1, <2>3, <1>4 DEF WaitsInOrder, store
  <2>4. CASE version' = version + 1
    <3>1. reply'[u].stamp <= version' /\ reply'[u].stamp # version'
      BY <1>1, <2>1, <2>2, <2>4
    <3> QED
      BY <3>1
  <2> QED
    BY <2>3, <2>4
<1> QED
  BY <1>1, <1>3, <1>4 DEF WaitsInOrder, Window, SecondsLeft

-----------------------------------------------------------------------------
(* The first state satisfies the inductive invariant.                      *)
LEMMA InitInvariant == Init => IInv
<1> SUFFICES ASSUME Init PROVE IInv
  OBVIOUS
<1>1. Fresh(0) \in States
  BY FreshIsState
<1>2. LoopTypeOK(States) /\ RoundsInOrder
  BY <1>1, LoopInitTypes, LoopInitOrder DEF Init
<1>3. TypeOK
  BY <1>2 DEF Init, TypeOK, LedgerInit, LedgerTypeOK
<1>4. SnapshotsFaithful /\ CountsAreAdmissions /\ WaitsInOrder
  BY DEF SnapshotsFaithful, CountsAreAdmissions, WaitsInOrder, Init, LoopInit, LedgerInit,
         NoReply, Reply
<1>5. WindowsInOrder
  BY BoundsAssumption DEF WindowsInOrder, Init, LoopInit, LedgerInit
<1>6. AdmittedByWindow
  BY LimitAssumption DEF AdmittedByWindow, Init, LoopInit, LedgerInit
<1> QED
  BY <1>2, <1>3, <1>4, <1>5, <1>6 DEF IInv

(* A step that leaves the store and the account alone.                     *)
LEMMA QuietInvariant ==
  ASSUME IInv, UNCHANGED <<store, ledger>>, clock' <= MaxClock
  PROVE  WindowsInOrder' /\ CountsAreAdmissions' /\ AdmittedByWindow' /\ LedgerTypeOK'
BY DEF IInv, TypeOK, LedgerTypeOK, WindowsInOrder, CountsAreAdmissions, AdmittedByWindow,
       AdmittedIn, Windows, Window, store, ledger

(* Every step keeps the inductive invariant.                               *)
LEMMA NextInvariant == IInv /\ [Next]_vars => IInv'
<1> SUFFICES ASSUME IInv, [Next]_vars PROVE IInv'
  OBVIOUS
<1> USE DEF IInv, TypeOK
<1>0. clock <= MaxClock
  BY DEF WindowsInOrder
<1>1. ASSUME NEW t \in Tasks, NEW c \in Costs, Begin(t, c), UNCHANGED ledger
      PROVE  IInv'
  <2>1. LoopTypeOK(States)' /\ RoundsInOrder'
    BY <1>1, BeginTypes, BeginOrder
  <2>2. PICK n : now' = [now EXCEPT ![t] = n]
    BY <1>1 DEF Begin
  <2>3. SnapshotsFaithful'
    BY <1>1, <2>2, NewRoundFaithful DEF Begin
  <2>4. /\ reply' = [reply EXCEPT ![t] = NoReply] /\ NoReply.verdict = "none"
        /\ pc' = [pc EXCEPT ![t] = "get"]
        /\ UNCHANGED <<clock, version, entry>>
    BY <1>1 DEF Begin, NoReply, Reply, store
  <2>5. WaitsInOrder'
    BY <2>2, <2>4 DEF WaitsInOrder, LoopTypeOK, Window, SecondsLeft
  <2> QED
    BY <1>0, <1>1, <2>1, <2>3, <2>4, <2>5, QuietInvariant DEF store
<1>2. ASSUME NEW t \in Tasks, Get(t, Fresh(now[t])), UNCHANGED ledger
      PROVE  IInv'
  <2>1. Fresh(now[t]) \in States
    BY FreshIsState DEF LoopTypeOK
  <2>2. LoopTypeOK(States)' /\ RoundsInOrder'
    BY <1>2, <2>1, GetTypes, GetOrder
  <2>3. /\ pc[t] = "get" /\ pc' = [pc EXCEPT ![t] = "cas"]
        /\ UNCHANGED <<clock, version, entry, reply, now>>
    BY <1>2 DEF Get, store
  <2>4. WaitsInOrder'
    BY <2>3 DEF WaitsInOrder, LoopTypeOK, Window, SecondsLeft
  <2> QED
    BY <1>0, <1>2, <2>2, <2>3, <2>4, GetFaithful, QuietInvariant DEF store
<1>3. ASSUME NEW t \in Tasks, Commit(t, Outcome(t)), Book(t, Granted(t))
      PROVE  IInv'
  <2>1. LoopTypeOK(States)' /\ RoundsInOrder'
    BY <1>3, OutcomeFacts, CommitTypes, CommitOrder
  <2>2. \A u \in Tasks : pc'[u] = "cas" => pc[u] = "cas"
    BY <1>3 DEF Commit, LoopTypeOK
  <2>3. /\ Write(t, Outcome(t)) /\ version' = version + 1
        /\ UNCHANGED <<clock, now, snap, expected>>
    BY <1>3 DEF Commit, Write
  <2>4. SnapshotsFaithful'
    BY <2>2, <2>3, SnapshotsUndisturbed
  <2> QED
    BY <1>3, <2>1, <2>3, <2>4, WriteKeepsWindows, WriteKeepsQuota, CommitWaits
<1>4. ASSUME NEW t \in Tasks, CommitUnseen(t, Outcome(t)), Book(t, Granted(t))
      PROVE  IInv'
  <2>1. LoopTypeOK(States)' /\ RoundsInOrder'
    BY <1>4, OutcomeFacts, CommitUnseenTypes, CommitUnseenOrder
  <2>2. \A u \in Tasks : pc'[u] = "cas" => pc[u] = "cas"
    BY <1>4 DEF CommitUnseen, LoseRound, LoopTypeOK
  <2>3. /\ Write(t, Outcome(t)) /\ version' = version + 1 /\ pc[t] = "cas"
        /\ LoseRound(t, version + 1)
        /\ UNCHANGED <<clock, now, snap, expected>>
    BY <1>4 DEF CommitUnseen, Write, LoseRound
  <2>4. SnapshotsFaithful'
    BY <2>2, <2>3, SnapshotsUndisturbed
  <2>5. WaitsInOrder'
    BY <2>3, LostRoundWaits
  <2> QED
    BY <1>4, <2>1, <2>3, <2>4, <2>5, WriteKeepsWindows, WriteKeepsQuota
<1>5. ASSUME NEW t \in Tasks, Conflict(t), UNCHANGED ledger
      PROVE  IInv'
  <2>1. LoopTypeOK(States)' /\ RoundsInOrder'
    BY <1>5, ConflictTypes, ConflictOrder
  <2>2. \A u \in Tasks : pc'[u] = "cas" => pc[u] = "cas"
    BY <1>5 DEF Conflict, LoseRound, LoopTypeOK
  <2>3. /\ pc[t] = "cas" /\ LoseRound(t, version)
        /\ UNCHANGED <<clock, store, now, snap, expected>>
    BY <1>5 DEF Conflict, LoseRound
  <2>4. SnapshotsFaithful'
    BY <2>2, <2>3, SnapshotsUndisturbed
  <2>5. WaitsInOrder'
    BY <2>3, LostRoundWaits
  <2> QED
    BY <1>0, <1>5, <2>1, <2>3, <2>4, <2>5, QuietInvariant
<1>6. ASSUME NEW t \in Tasks, Wake(t), UNCHANGED ledger
      PROVE  IInv'
  <2>1. LoopTypeOK(States)' /\ RoundsInOrder'
    BY <1>6, WakeTypes, WakeOrder
  <2>2. PICK n : now' = [now EXCEPT ![t] = n]
    BY <1>6 DEF Wake
  <2>3. SnapshotsFaithful'
    BY <1>6, <2>2, NewRoundFaithful DEF Wake
  <2>4. /\ pc[t] = "backoff" /\ pc' = [pc EXCEPT ![t] = "get"]
        /\ UNCHANGED <<clock, version, entry, reply>>
    BY <1>6 DEF Wake, store
  <2>5. reply[t].verdict = "none" /\ \A u \in Tasks : u # t => now'[u] = now[u]
    BY <2>2, <2>4 DEF WaitsInOrder, LoopTypeOK
  <2>6. WaitsInOrder'
    BY <2>4, <2>5 DEF WaitsInOrder, LoopTypeOK, Window, SecondsLeft
  <2> QED
    BY <1>0, <1>6, <2>1, <2>3, <2>4, <2>6, QuietInvariant DEF store
<1>7. ASSUME NEW t \in Tasks, Abandon(t), UNCHANGED ledger
      PROVE  IInv'
  <2>1. LoopTypeOK(States)' /\ RoundsInOrder'
    BY <1>7, AbandonTypes, AbandonOrder
  <2>2. \A u \in Tasks : pc'[u] = "cas" => pc[u] = "cas"
    BY <1>7 DEF Abandon, LoopTypeOK
  <2>3. /\ pc[t] # "idle" /\ pc' = [pc EXCEPT ![t] = "idle"]
        /\ UNCHANGED <<clock, store, now, snap, expected, reply>>
    BY <1>7 DEF Abandon
  <2>4. SnapshotsFaithful'
    BY <2>2, <2>3, SnapshotsUndisturbed
  <2>5. WaitsInOrder'
    BY <2>3 DEF WaitsInOrder, LoopTypeOK, Window, SecondsLeft, store
  <2> QED
    BY <1>0, <1>7, <2>1, <2>3, <2>4, <2>5, QuietInvariant
<1>8. CASE Tick /\ UNCHANGED ledger
  <2>1. LoopTypeOK(States)' /\ RoundsInOrder'
    BY <1>8, TickTypes, TickOrder
  <2>2. UNCHANGED <<store, local, reply>>
    BY <1>8 DEF Tick
  <2>3. clock' <= MaxClock
    BY <1>8, BoundsAssumption DEF Tick, LoopTypeOK
  <2>4. SnapshotsFaithful' /\ WaitsInOrder'
    BY <2>2 DEF SnapshotsFaithful, WaitsInOrder, Fresh, Window, SecondsLeft, store, local
  <2> QED
    BY <1>8, <2>1, <2>2, <2>3, <2>4, QuietInvariant
<1>9. CASE UNCHANGED vars
  <2>1. UNCHANGED <<clock, entry, version, pc, attempt, now, cost, snap, expected,
                    reply, start, served, store, ledger>>
    BY <1>9 DEF vars, loopVars, store, local
  <2>2. LoopTypeOK(States)' /\ RoundsInOrder' /\ SnapshotsFaithful' /\ WaitsInOrder'
    BY <2>1 DEF LoopTypeOK, RoundsInOrder, SnapshotsFaithful, WaitsInOrder, Fresh, Window,
                SecondsLeft
  <2> QED
    BY <1>0, <2>1, <2>2, QuietInvariant
<1> QED
  BY <1>1, <1>2, <1>3, <1>4, <1>5, <1>6, <1>7, <1>8, <1>9 DEF Next

(* Every state of the limiter satisfies the inductive invariant.           *)
THEOREM Invariance == Spec => []IInv
<1> QED
  BY InitInvariant, NextInvariant, PTL DEF Spec

(* The quota of a window (sliding_window_counter.rs l.85-92): at most      *)
(* MaxRequests, and as many again for every write that moved the stored    *)
(* window back, to which saturating_sub gives the counts of a later one.   *)
THEOREM QuotaKept == Spec => []WindowBudget
<1>1. IInv => WindowBudget
  <2> SUFFICES ASSUME IInv PROVE WindowBudget
    OBVIOUS
  <2>1. /\ version \in Nat /\ entry.window \in Nat /\ entry.count \in 0..MaxRequests
        /\ since \in Nat
    BY DEF IInv, TypeOK, LoopTypeOK, LedgerTypeOK, States
  <2>2. since <= MaxRequests
    BY <2>1, LimitAssumption DEF IInv, WindowsInOrder
  <2> QED
    BY <2>1, <2>2, QuotaFollows DEF IInv, TypeOK
<1> QED
  BY <1>1, Invariance, PTL

(* The estimate rests on true counts (l.76-83): whatever the interleaving, *)
(* the two stored counts are what the two windows admitted.                *)
THEOREM EstimateGrounded == Spec => []CountsAreAdmissions
<1>1. IInv => CountsAreAdmissions
  BY DEF IInv
<1> QED
  BY <1>1, Invariance, PTL

(* The second that ends a window, and one window more, lie two windows on. *)
LEMMA NextWindowStarts ==
  ASSUME NEW n \in Nat
  PROVE  /\ n + SecondsLeft(n) + WindowSecs \in Nat
         /\ Window(n + SecondsLeft(n) + WindowSecs) = Window(n) + 2
<1> DEFINE v == Window(n)
           second == n % WindowSecs
           then == n + SecondsLeft(n) + WindowSecs
           opening == v * WindowSecs
<1>1. /\ v \in Nat /\ second \in 0..(WindowSecs - 1) /\ n - opening = second
      /\ WindowSecs \in Nat \ {0}
  BY WindowSpan, LimitAssumption
<1>2. then = n + (WindowSecs - second) + WindowSecs
  BY DEF SecondsLeft
<1> HIDE DEF v, second, then
<1>3. opening \in Nat /\ (v + 2) * WindowSecs = opening + WindowSecs + WindowSecs
  BY <1>1
<1> HIDE DEF opening
<1>4. then \in Nat /\ then = opening + WindowSecs + WindowSecs
  BY <1>1, <1>2, <1>3
<1>5. then = (v + 2) * WindowSecs + 0
  BY <1>3, <1>4
<1>6. v + 2 \in Nat /\ 0 \in 0..(WindowSecs - 1)
  BY <1>1
<1>7. Window(then) = v + 2
  BY <1>4, <1>5, <1>6, WindowOfSecond
<1> QED
  BY <1>4, <1>7 DEF v, then

(* The advised wait (sliding_window_counter.rs l.89-91), cut to whole      *)
(* milliseconds and short of one where the f64 product is: one millisecond *)
(* and one window beyond it the window of the denial and the next are      *)
(* over, and a request no larger than the limit is let in, if nobody else  *)
(* was decided meanwhile.                                                  *)
THEOREM WaitsEnough == Spec => []RetrySucceedsNextWindow
<1>1. IInv => RetrySucceedsNextWindow
  <2> SUFFICES ASSUME IInv, NEW t \in Tasks, reply[t].verdict = "denied",
                      reply[t].stamp = version, cost[t] <= MaxRequests
      PROVE  Evaluate(entry, now[t] + (reply[t].wait + 1) \div 1000 + WindowSecs, cost[t]).allowed
    BY DEF RetrySucceedsNextWindow
  <2> DEFINE left == SecondsLeft(now[t])
             then == now[t] + left + WindowSecs
  <2>1. /\ now[t] \in Nat /\ cost[t] \in Nat /\ entry.window = Window(now[t])
        /\ reply[t].wait \in {left * 1000, left * 1000 - 1}
    <3>1. /\ now[t] \in Nat /\ cost[t] \in Nat /\ entry.window = Window(now[t])
          /\ reply[t].wait = MsLeft(now[t])
      BY DEF IInv, TypeOK, LoopTypeOK, WaitsInOrder
    <3>2. PICK r \in 0..(WindowSecs - 1) : now[t] % WindowSecs = r
      BY <3>1, WindowSpan
    <3>3. left \in Int
      BY <3>2, LimitAssumption DEF SecondsLeft
    <3>4. MsLeft(now[t]) = left * 1000 - (IF now[t] % WindowSecs \in ShortSeconds THEN 1 ELSE 0)
      BY DEF MsLeft
    <3> HIDE DEF left
    <3>5. MsLeft(now[t]) \in {left * 1000, left * 1000 - 1}
      BY <3>3, <3>4
    <3> QED
      BY <3>1, <3>5
  <2>2. left \in Nat
    <3>1. PICK n \in Nat : n = now[t]
      BY <2>1
    <3>2. PICK r \in 0..(WindowSecs - 1) : n % WindowSecs = r
      BY WindowSpan
    <3>3. SecondsLeft(n) = WindowSecs - r /\ WindowSecs - r \in Nat
      BY <3>2, LimitAssumption DEF SecondsLeft
    <3> QED
      BY <3>1, <3>3
  <2>3. (reply[t].wait + 1) \div 1000 = left
    <3> HIDE DEF left
    <3> QED
      BY <2>1, <2>2
  <2>4. Window(then) = entry.window + 2 /\ entry.window \in Nat
    BY <2>1, NextWindowStarts, WindowSpan
  <2>5. Passed(entry, then) = 2
    BY <2>4 DEF Passed
  <2>6. PrevAt(entry, then) = 0 /\ CountAt(entry, then) = 0
    BY <2>5 DEF PrevAt, CountAt
  <2>7. Weighted(entry, then) = 0
    <3>1. SecondsLeft(then) \in Int
      <4>1. then \in Nat
        BY <2>1, NextWindowStarts
      <4> QED
        BY <4>1, WindowSpan, LimitAssumption DEF SecondsLeft
    <3> QED
      BY <2>6, <3>1, LimitAssumption DEF Weighted
  <2>8. 0 + cost[t] * WindowSecs <= MaxRequests * WindowSecs
    BY <2>1, LimitAssumption
  <2>9. Fits(entry, then, cost[t])
    BY <2>7, <2>8 DEF Fits
  <2> QED
    BY <2>3, <2>9 DEF Evaluate
<1> QED
  BY <1>1, Invariance, PTL
-----------------------------------------------------------------------------
(* What is let in keeps the sliding estimate within the limit.             *)

(* The version moves when a task writes, and only that task moves on.      *)
LEMMA WriterOfStep ==
  ASSUME IInv, [Next]_vars, version' # version
  PROVE  \E t \in Tasks :
           /\ Write(t, Outcome(t)) /\ Book(t, Granted(t)) /\ UNCHANGED <<clock, now>>
           /\ \A u \in Tasks : pc'[u] # pc[u] => u = t
<1>1. pc \in [Tasks -> Labels]
  BY DEF IInv, TypeOK, LoopTypeOK
<1>2. ~UNCHANGED vars
  BY DEF vars, loopVars, store
<1>3. PICK t \in Tasks :
        \/ Commit(t, Outcome(t)) /\ Book(t, Granted(t))
        \/ CommitUnseen(t, Outcome(t)) /\ Book(t, Granted(t))
  BY <1>2 DEF Next, Begin, Get, Conflict, Wake, Abandon, Tick, store
<1>4. Write(t, Outcome(t)) /\ Book(t, Granted(t)) /\ UNCHANGED <<clock, now>>
  BY <1>3 DEF Commit, CommitUnseen, LoseRound
<1>5. PICK label : pc' = [pc EXCEPT ![t] = label]
  BY <1>3 DEF Commit, CommitUnseen, LoseRound
<1>6. \A u \in Tasks : pc'[u] # pc[u] => u = t
  BY <1>1, <1>5
<1> QED
  BY <1>4, <1>6

(* A write that lets something in was judged by the counts of both windows *)
(* (l.83-87), which are what they admitted.                                *)
LEMMA WriteWithinEstimate ==
  ASSUME IInv, IInv', NEW t \in Tasks, Write(t, Outcome(t)), Book(t, Granted(t)),
         admitted' # admitted, rewinds' = 0
  PROVE  LET n == now[t]  w == Window(n) IN
           /\ w \in Windows /\ entry'.window = w
           /\ AdmittedIn(w - 1) \in 0..MaxRequests
           /\ admitted'[w] \in 0..MaxRequests
           /\ \A u \in Windows : u # w => admitted'[u] = admitted[u]
           /\ AdmittedIn(w - 1) * SecondsLeft(n) + admitted'[w] * WindowSecs
                <= MaxRequests * WindowSecs
<1> DEFINE n == now[t]
           c == cost[t]
           left == SecondsLeft(n)
           prev == PrevAt(snap[t], n)
           count == CountAt(snap[t], n)
<1>1. /\ n \in Nat /\ c \in Nat /\ snap[t] \in States /\ version \in Nat
      /\ admitted \in [Windows -> Nat] /\ n <= MaxClock
  BY BoundsAssumption DEF IInv, TypeOK, LoopTypeOK, LedgerTypeOK, RoundsInOrder, WindowsInOrder
<1>0. PICK w \in Windows : w = Window(n)
  BY <1>1, WindowInRange
<1>2. w \in Windows /\ w \in Nat /\ w = Window(now[t])
  BY <1>0 DEF Windows
<1>3. /\ entry' = Outcome(t).state /\ version' = version + 1
      /\ Outcome(t).state.window = w /\ Outcome(t).state.prev = prev
      /\ Outcome(t).state.count = count + Granted(t)
  BY <1>2, OutcomeFacts DEF IInv, Write
<1>4. admitted' = [admitted EXCEPT ![w] = @ + Granted(t)]
  BY <1>2 DEF Book
<1>5. Outcome(t).allowed /\ Granted(t) = c
  <2>1. Outcome(t).allowed
    <3> SUFFICES ASSUME ~Outcome(t).allowed PROVE FALSE
      OBVIOUS
    <3>1. Granted(t) = 0
      BY DEF Granted
    <3>2. admitted' = admitted
      BY <1>1, <1>2, <1>4, <3>1
    <3> QED
      BY <3>2
  <2> QED
    BY <2>1 DEF Granted
<1>6. Weighted(snap[t], n) + c * WindowSecs <= MaxRequests * WindowSecs
  BY <1>1, <1>5, EvaluateFacts DEF Outcome, Fits
<1>7. \A u \in Windows : u # w => admitted'[u] = admitted[u]
  BY <1>1, <1>4
<1>8. /\ Windows' = Windows
      /\ entry'.window = w
      /\ entry'.count = admitted'[w]
      /\ entry'.prev = AdmittedIn(w - 1)'
      /\ entry'.count \in 0..MaxRequests /\ entry'.prev \in 0..MaxRequests
  <2>1. version' > 0
    BY <1>1, <1>3
  <2>2. entry' \in States
    BY DEF IInv, TypeOK, LoopTypeOK, States
  <2>3. entry'.window = w
    BY <1>2, <1>3
  <2> QED
    BY <2>1, <2>2, <2>3 DEF IInv, CountsAreAdmissions, AdmittedIn, States, Windows, Window
<1>9. AdmittedIn(w - 1)' = AdmittedIn(w - 1)
  BY <1>2, <1>7, <1>8 DEF AdmittedIn
<1>10. AdmittedIn(w - 1) = prev /\ admitted'[w] = count + c
  BY <1>2, <1>3, <1>5, <1>8, <1>9
<1>11. prev * left + count * WindowSecs + c * WindowSecs <= MaxRequests * WindowSecs
  BY <1>1, <1>6, CountFacts
<1>12. (count + c) * WindowSecs = count * WindowSecs + c * WindowSecs
  BY <1>1, CountFacts, LimitAssumption
<1>13. prev * left \in Nat /\ count * WindowSecs \in Nat /\ c * WindowSecs \in Nat
  <2>1. prev * left \in Nat /\ count * WindowSecs \in Nat
    BY <1>1, CountFacts
  <2>2. c * WindowSecs \in Nat
    <3> HIDE DEF c
    <3> QED
      BY <1>1, LimitAssumption
  <2> QED
    BY <2>1, <2>2
<1>14. prev * left + (count + c) * WindowSecs <= MaxRequests * WindowSecs
  <2> DEFINE older == prev * left
             counted == count * WindowSecs
             asked == c * WindowSecs
             limit == MaxRequests * WindowSecs
  <2>1. older + counted + asked <= limit /\ older \in Nat /\ counted \in Nat /\ asked \in Nat
    BY <1>11, <1>13
  <2>2. limit \in Nat
    BY LimitAssumption
  <2>3. (count + c) * WindowSecs = counted + asked
    BY <1>12
  <2> HIDE DEF older, counted, asked, limit
  <2>4. older + (counted + asked) <= limit
    BY <2>1, <2>2
  <2>5. older + (count + c) * WindowSecs <= limit
    BY <2>3, <2>4
  <2> QED
    BY <2>5 DEF older, limit
<1>15. AdmittedIn(w - 1) \in 0..MaxRequests /\ admitted'[w] \in 0..MaxRequests /\ entry'.window = w
  BY <1>3, <1>8, <1>9
<1> HIDE DEF prev, count, c, left
<1>16. AdmittedIn(w - 1) * left + admitted'[w] * WindowSecs <= MaxRequests * WindowSecs
  BY <1>10, <1>14
<1> QED
  BY <1>2, <1>7, <1>15, <1>16 DEF left

(* The estimate (sliding_window_counter.rs l.4-8, l.83-87): at the reading *)
(* of the writer, what it lets in fits beside the part of the window before *)
(* that still counts; no interleaving lets it be judged by older counts.   *)
THEOREM WithinEstimate == Spec => AdmitsWithinEstimate
<1> DEFINE Kept(t) == LET n == now[t]  w == Window(n) IN
       version' # version /\ pc'[t] # pc[t] /\ admitted' # admitted /\ rewinds' = 0
         => AdmittedIn(w - 1) * SecondsLeft(n) + admitted'[w] * WindowSecs
              <= MaxRequests * WindowSecs
<1>1. IInv /\ IInv' /\ [Next]_vars => \A t \in Tasks : Kept(t)
  <2> SUFFICES ASSUME IInv, IInv', [Next]_vars, NEW t \in Tasks, version' # version,
                      pc'[t] # pc[t], admitted' # admitted, rewinds' = 0
               PROVE  AdmittedIn(Window(now[t]) - 1) * SecondsLeft(now[t])
                        + admitted'[Window(now[t])] * WindowSecs <= MaxRequests * WindowSecs
    OBVIOUS
  <2>1. PICK u \in Tasks :
          /\ Write(u, Outcome(u)) /\ Book(u, Granted(u)) /\ UNCHANGED <<clock, now>>
          /\ \A v \in Tasks : pc'[v] # pc[v] => v = u
    BY WriterOfStep
  <2>2. t = u
    BY <2>1
  <2> QED
    BY <2>1, <2>2, WriteWithinEstimate
<1>2. IInv /\ IInv' /\ [Next]_vars => [\A t \in Tasks : Kept(t)]_vars
  BY <1>1
<1> HIDE DEF Kept
<1>3. Spec => [][\A t \in Tasks : Kept(t)]_vars
  BY <1>2, Invariance, PTL DEF Spec
<1> QED
  BY <1>3 DEF AdmitsWithinEstimate, Kept

(* The weight is at least that of one second: what the estimate spares of   *)
(* two windows.                                                            *)
LEMMA EstimateSpares ==
  ASSUME NEW p \in 0..MaxRequests, NEW k \in Nat, NEW left \in 1..WindowSecs,
         p * left + k * WindowSecs <= MaxRequests * WindowSecs
  PROVE  (p + k) * WindowSecs <= MaxRequests * (2 * WindowSecs - 1)
<1> DEFINE gone == WindowSecs - left
           M == MaxRequests
           W == WindowSecs
<1>1. M \in Nat /\ W \in Nat /\ p \in Nat /\ left \in Nat /\ gone \in Nat /\ gone <= W - 1 /\ p <= M
      /\ W - 1 \in Nat
  BY LimitAssumption
<1>2. p * gone <= M * (W - 1)
  <2>1. (M - p) * (W - 1) \in Nat /\ p * (W - 1 - gone) \in Nat
    BY <1>1
  <2>2. M * (W - 1) = (M - p) * (W - 1) + p * (W - 1 - gone) + p * gone
    BY <1>1
  <2> QED
    BY <2>1, <2>2, <1>1
<1>3. p * W = p * left + p * gone
  BY <1>1
<1>4. (p + k) * W = p * W + k * W /\ M * (2 * W - 1) = M * W + M * (W - 1)
  BY <1>1
<1>5. /\ p * W \in Nat /\ p * left \in Nat /\ p * gone \in Nat /\ k * W \in Nat
      /\ M * W \in Nat /\ M * (W - 1) \in Nat
  BY <1>1
<1> QED
  BY <1>2, <1>3, <1>4, <1>5

(* One window alone never has more than the two together may.              *)
LEMMA OneWindowSpares ==
  ASSUME NEW k \in 0..MaxRequests
  PROVE  (k + 0) * WindowSecs <= MaxRequests * (2 * WindowSecs - 1)
<1>1. WindowSecs \in 1..WindowSecs /\ 0 \in Nat
  BY LimitAssumption
<1>2. k * WindowSecs + 0 * WindowSecs <= MaxRequests * WindowSecs
  <2>1. (MaxRequests - k) * WindowSecs \in Nat
    BY LimitAssumption
  <2>2. MaxRequests * WindowSecs = (MaxRequests - k) * WindowSecs + k * WindowSecs
    BY LimitAssumption
  <2>3. k * WindowSecs \in Nat
    BY LimitAssumption
  <2> QED
    BY <2>1, <2>2, <2>3, LimitAssumption
<1> QED
  BY <1>1, <1>2, EstimateSpares

(* Every step keeps two windows that follow each other below twice the     *)
(* limit, as long as no write moved the stored window back.                *)
LEMMA NextNoBurst == IInv /\ IInv' /\ NoBoundaryBurst /\ [Next]_vars => NoBoundaryBurst'
<1> SUFFICES ASSUME IInv, IInv', NoBoundaryBurst, [Next]_vars, rewinds' = 0,
                    NEW u \in Windows
             PROVE  (AdmittedIn(u - 1)' + admitted'[u]) * WindowSecs
                      <= MaxRequests * (2 * WindowSecs - 1)
  BY DEF NoBoundaryBurst, Windows, Window
<1> DEFINE Bound(a) == a * WindowSecs <= MaxRequests * (2 * WindowSecs - 1)
<1>1. CASE version' = version
  <2>1. UNCHANGED ledger
    <3>1. ASSUME NEW t \in Tasks, Write(t, Outcome(t)) PROVE FALSE
      BY <1>1, <3>1 DEF Write, IInv, TypeOK, LoopTypeOK
    <3> QED
      BY <3>1 DEF Next, Commit, CommitUnseen, vars
  <2> QED
    BY <2>1 DEF NoBoundaryBurst, AdmittedIn, ledger, Windows, Window
<1>2. CASE version' # version
  <2>1. PICK t \in Tasks :
          Write(t, Outcome(t)) /\ Book(t, Granted(t)) /\ UNCHANGED <<clock, now>>
    BY <1>2, WriterOfStep
  <2>2. rewinds = 0
    <3>1. rewinds \in Nat /\ (rewinds' = rewinds \/ rewinds' = rewinds + 1)
      BY <2>1 DEF Book, IInv, TypeOK, LedgerTypeOK
    <3> QED
      BY <3>1
  <2>3. CASE admitted' = admitted
    BY <2>2, <2>3 DEF NoBoundaryBurst, AdmittedIn, Windows, Window
  <2>4. CASE admitted' # admitted
    <3>1. PICK w \in Windows : w = Window(now[t])
      BY <2>1, <2>4, WriteWithinEstimate
    <3>2. /\ entry'.window = w
          /\ AdmittedIn(w - 1) \in 0..MaxRequests /\ admitted'[w] \in 0..MaxRequests
          /\ \A v \in Windows : v # w => admitted'[v] = admitted[v]
          /\ AdmittedIn(w - 1) * SecondsLeft(now[t]) + admitted'[w] * WindowSecs
               <= MaxRequests * WindowSecs
      BY <2>1, <2>4, <3>1, WriteWithinEstimate
    <3>3. \A v \in Int : AdmittedIn(v)' = IF v \in Windows THEN admitted'[v] ELSE 0
      BY DEF AdmittedIn, Windows, Window
    <3>4. w \in Nat /\ u \in Nat /\ Windows \subseteq Nat
      BY <3>1 DEF Windows
    <3>5. CASE u = w
      <4>1. AdmittedIn(u - 1)' = AdmittedIn(w - 1)
        BY <3>2, <3>3, <3>4, <3>5 DEF AdmittedIn
      <4>2. SecondsLeft(now[t]) \in 1..WindowSecs
        <5>1. snap[t] \in States /\ now[t] \in Nat
          BY DEF IInv, TypeOK, LoopTypeOK
        <5> QED
          BY <5>1, CountFacts
      <4>3. PICK p \in 0..MaxRequests : p = AdmittedIn(w - 1)
        BY <3>2
      <4>4. PICK k \in 0..MaxRequests : k = admitted'[w]
        BY <3>2
      <4>5. PICK left \in 1..WindowSecs : left = SecondsLeft(now[t])
        BY <4>2
      <4>6. p * left + k * WindowSecs <= MaxRequests * WindowSecs
        BY <3>2, <4>3, <4>4, <4>5
      <4>7. (p + k) * WindowSecs <= MaxRequests * (2 * WindowSecs - 1)
        <5>1. k \in Nat
          BY LimitAssumption
        <5> QED
          BY <4>6, <5>1, EstimateSpares
      <4> QED
        BY <3>5, <4>1, <4>3, <4>4, <4>7
    <3>6. CASE u = w + 1
      <4>1. admitted'[u] = 0
        <5>1. version' > 0
          BY <2>1 DEF Write, IInv, TypeOK, LoopTypeOK
        <5>2. u > entry'.window
          BY <3>2, <3>4, <3>6
        <5> QED
          BY <5>1, <5>2 DEF IInv, WindowsInOrder, Windows, Window
      <4>2. AdmittedIn(u - 1)' = admitted'[w]
        BY <3>1, <3>3, <3>4, <3>6
      <4>3. PICK k \in 0..MaxRequests : k = admitted'[w]
        BY <3>2
      <4> QED
        BY <4>1, <4>2, <4>3, OneWindowSpares
    <3>7. CASE u # w /\ u # w + 1
      <4>1. u - 1 # w /\ u - 1 \in Int
        BY <3>4, <3>7
      <4>2. AdmittedIn(u - 1)' = AdmittedIn(u - 1) /\ admitted'[u] = admitted[u]
        BY <3>2, <3>3, <3>7, <4>1 DEF AdmittedIn
      <4> QED
        BY <2>2, <4>2 DEF NoBoundaryBurst
    <3> QED
      BY <3>5, <3>6, <3>7
  <2> QED
    BY <2>3, <2>4
<1> QED
  BY <1>1, <1>2

(* "No boundary burst" (sliding_window_counter.rs l.10): around the edge of *)
(* two windows no more comes in than twice the limit, less what weighs the  *)
(* last second of the first; no task, cost or failure changes that.        *)
THEOREM NoBurst == Spec => []NoBoundaryBurst
<1>1. Init => NoBoundaryBurst
  <2> SUFFICES ASSUME Init, NEW w \in Windows
               PROVE  (AdmittedIn(w - 1) + admitted[w]) * WindowSecs
                        <= MaxRequests * (2 * WindowSecs - 1)
    BY DEF NoBoundaryBurst
  <2>1. AdmittedIn(w - 1) = 0 /\ admitted[w] = 0
    BY DEF Init, LedgerInit, AdmittedIn
  <2>2. 0 \in 0..MaxRequests
    BY LimitAssumption
  <2> QED
    BY <2>1, <2>2, OneWindowSpares
<1> QED
  BY <1>1, Invariance, NextNoBurst, PTL DEF Spec

-----------------------------------------------------------------------------
(* The loop implements the one-step limiter.                               *)

(* Whoever writes judges what is stored, as of a reading that is timely:   *)
(* an absent key reads as a fresh state (sliding_window_counter.rs         *)
(* l.54-128).                                                              *)
LEMMA OutcomeIsJudgement ==
  ASSUME IInv, NEW t \in Tasks, Write(t, Outcome(t))
  PROVE  /\ Outcome(t) = Atomic!Judgement(t, now[t])
         /\ Atomic!Timely(t, now[t])
         /\ now[t] \in 0..clock
<1>1. pc[t] = "cas" /\ expected[t] = version
  BY DEF Write
<1>2. now[t] \in Nat /\ version \in Nat /\ clock \in Nat
  BY DEF IInv, TypeOK, LoopTypeOK
<1>3. snap[t] = IF version = 0 THEN Fresh(now[t]) ELSE entry
  BY <1>1, <1>2 DEF IInv, SnapshotsFaithful
<1>4. now[t] <= clock /\ start[t].clock <= now[t] + Drift
  BY <1>1 DEF IInv, RoundsInOrder
<1> QED
  BY <1>2, <1>3, <1>4 DEF Outcome, Atomic!Judgement, Atomic!Timely

(* A step of the loop, seen from outside, is a step of the atomic limiter  *)
(* or no step at all: get, the sleeps and the lost rounds are invisible.   *)
LEMMA StepRefines == IInv /\ [Next]_vars => [Atomic!Next]_(Atomic!vars)
<1> SUFFICES ASSUME IInv, [Next]_vars PROVE [Atomic!Next]_(Atomic!vars)
  OBVIOUS
<1> DEFINE open == [t \in Tasks |-> pc[t] # "idle"]
<1>0. pc \in [Tasks -> Labels]
  BY DEF IInv, TypeOK, LoopTypeOK
<1>1. ASSUME NEW t \in Tasks, NEW c \in Costs, Begin(t, c)
      PROVE  Atomic!Ask(t, c)
  <2>1. ~open[t] /\ open' = [open EXCEPT ![t] = TRUE]
    BY <1>0, <1>1 DEF Begin
  <2> QED
    BY <1>1, <2>1 DEF Begin, NoReply, Reply, Atomic!Ask, Atomic!NoReply, Atomic!Reply, store
<1>2. ASSUME NEW t \in Tasks, Get(t, Fresh(now[t]))
      PROVE  UNCHANGED Atomic!vars
  <2>1. open' = open
    BY <1>0, <1>2 DEF Get
  <2> QED
    BY <1>2, <2>1 DEF Get, Atomic!vars, store
<1>3. ASSUME NEW t \in Tasks, Commit(t, Outcome(t))
      PROVE  \E n \in 0..clock : Atomic!Decide(t, n)
  <2>1. open[t] /\ open' = [open EXCEPT ![t] = FALSE]
    BY <1>0, <1>3 DEF Commit, Write
  <2>2. PICK n \in 0..clock : n = now[t]
    BY <1>3, OutcomeIsJudgement DEF Commit
  <2>3. Outcome(t) = Atomic!Judgement(t, n) /\ Atomic!Timely(t, n)
    BY <1>3, <2>2, OutcomeIsJudgement DEF Commit
  <2>4. Atomic!Decide(t, n)
    BY <1>3, <2>1, <2>3 DEF Commit, Write, Answer, Reply, Atomic!Decide, Atomic!Charge,
                              Atomic!Answer, Atomic!Reply
  <2> QED
    BY <2>4
<1>4. ASSUME NEW t \in Tasks, CommitUnseen(t, Outcome(t))
      PROVE  \E n \in 0..clock : Atomic!DecideUnseen(t, n) \/ Atomic!DecideUnseenAndRefuse(t, n)
  <2>1. open[t]
    BY <1>4 DEF CommitUnseen, Write
  <2>2. PICK n \in 0..clock : n = now[t]
    BY <1>4, OutcomeIsJudgement DEF CommitUnseen
  <2>3. Outcome(t) = Atomic!Judgement(t, n) /\ Atomic!Timely(t, n)
    BY <1>4, <2>2, OutcomeIsJudgement DEF CommitUnseen
  <2>4. Atomic!Charge(t, n) /\ t \in Unreliable
    BY <1>4, <2>1, <2>3 DEF CommitUnseen, Write, LoseRound, Atomic!Charge
  <2>5. CASE attempt[t] + 1 < MaxAttempts
    <3>1. open' = open /\ UNCHANGED reply
      BY <1>0, <1>4, <2>5 DEF CommitUnseen, Write, LoseRound
    <3> QED
      BY <2>4, <3>1 DEF Atomic!DecideUnseen
  <2>6. CASE ~(attempt[t] + 1 < MaxAttempts)
    <3>1. /\ open' = [open EXCEPT ![t] = FALSE]
          /\ reply' = [reply EXCEPT ![t] = Contended(version + 1)]
      BY <1>0, <1>4, <2>6 DEF CommitUnseen, Write, LoseRound
    <3> QED
      BY <2>4, <3>1 DEF Atomic!DecideUnseenAndRefuse, Contended, Reply,
                        Atomic!Contended, Atomic!Reply
  <2> QED
    BY <2>5, <2>6
<1>5. ASSUME NEW t \in Tasks, Conflict(t)
      PROVE  Atomic!Refuse(t) \/ UNCHANGED Atomic!vars
  <2>1. CASE attempt[t] + 1 < MaxAttempts
    <3>1. open' = open
      BY <1>0, <1>5, <2>1 DEF Conflict, LoseRound
    <3> QED
      BY <1>5, <2>1, <3>1 DEF Conflict, LoseRound, Atomic!vars, store
  <2>2. CASE ~(attempt[t] + 1 < MaxAttempts)
    <3>1. open[t] /\ open' = [open EXCEPT ![t] = FALSE]
      BY <1>0, <1>5, <2>2 DEF Conflict, LoseRound
    <3>2. t \in Unreliable \/ start[t].version + MaxAttempts <= version
      BY <1>5, <2>2, LastRoundHasCause DEF IInv, TypeOK
    <3> QED
      BY <1>5, <2>2, <3>1, <3>2 DEF Conflict, LoseRound, Contended, Reply, Atomic!Refuse,
                                     Atomic!Contended, Atomic!Reply, store
  <2> QED
    BY <2>1, <2>2
<1>6. ASSUME NEW t \in Tasks, Wake(t)
      PROVE  UNCHANGED Atomic!vars
  <2>1. open' = open
    BY <1>0, <1>6 DEF Wake
  <2> QED
    BY <1>6, <2>1 DEF Wake, Atomic!vars, store
<1>7. ASSUME NEW t \in Tasks, Abandon(t)
      PROVE  Atomic!Drop(t)
  <2>1. open[t] /\ open' = [open EXCEPT ![t] = FALSE]
    BY <1>0, <1>7 DEF Abandon
  <2> QED
    BY <1>7, <2>1 DEF Abandon, Atomic!Drop, store
<1>8. ASSUME Tick
      PROVE  Atomic!Tick
  BY <1>8 DEF Tick, Atomic!Tick, store, local
<1>9. ASSUME UNCHANGED loopVars
      PROVE  UNCHANGED Atomic!vars
  BY <1>9 DEF loopVars, store, local, Atomic!vars
<1>10. CASE UNCHANGED vars
  BY <1>9, <1>10 DEF vars
<1>11. ASSUME NEW t \in Tasks
       PROVE  /\ Commit(t, Outcome(t)) => Atomic!Next
              /\ CommitUnseen(t, Outcome(t)) => Atomic!Next
              /\ Conflict(t) => Atomic!Next \/ UNCHANGED Atomic!vars
  BY <1>3, <1>4, <1>5 DEF Atomic!Next
<1> QED
  BY <1>1, <1>2, <1>6, <1>7, <1>8, <1>10, <1>11 DEF Next, Atomic!Next

(* Every answer is the answer of a check that ran alone at one moment      *)
(* (sliding_window_counter.rs l.54-128): the awaits between clock, get and *)
(* cas cannot be told from outside.                                        *)
THEOREM Atomicity == Spec => ChecksAreAtomic
<1>1. Init => Atomic!Init
  BY DEF Init, LoopInit, NoReply, Reply, Atomic!Init, Atomic!NoReply, Atomic!Reply
<1> QED
  BY <1>1, Invariance, StepRefines, PTL DEF Spec, ChecksAreAtomic, Atomic!Spec
-----------------------------------------------------------------------------
\* What the key may hold at time n, and what that still lets in at once.
StoredAt(n) == {s \in States : s.window = Window(n)}
RoomOf(s) == MaxRequests - s.count

(* What Service asks of a limiter (its AlgorithmAssumption): at any one    *)
(* time, decisions take what they let in from a room that is the limit      *)
(* at first (sliding_window_counter.rs l.73-98).                           *)
THEOREM TakesFromRoom ==
  ASSUME NEW n \in Nat
  PROVE  /\ Fresh(n) \in StoredAt(n) /\ RoomOf(Fresh(n)) <= MaxRequests
         /\ \A s \in StoredAt(n) : RoomOf(s) \in Nat
         /\ \A s \in StoredAt(n), k \in Nat : LET out == Evaluate(s, n, k) IN
              /\ out.state \in StoredAt(n) /\ out.allowed \in BOOLEAN
              /\ out.remaining \in Int /\ out.wait \in Int
              /\ RoomOf(out.state) + (IF out.allowed THEN k ELSE 0) <= RoomOf(s)
<1>1. Fresh(n) \in StoredAt(n) /\ RoomOf(Fresh(n)) = MaxRequests
  <2>1. Fresh(n) \in States /\ Fresh(n).count = 0 /\ Fresh(n).window = Window(n)
    BY FreshIsState DEF Fresh
  <2> QED
    BY <2>1, LimitAssumption DEF StoredAt, RoomOf
<1>2. ASSUME NEW s \in StoredAt(n)
      PROVE  /\ s \in States /\ s.window = Window(n) /\ s.count \in 0..MaxRequests
             /\ RoomOf(s) \in Nat
  BY LimitAssumption DEF StoredAt, States, RoomOf
<1>3. ASSUME NEW s \in StoredAt(n), NEW k \in Nat
      PROVE  LET out == Evaluate(s, n, k) IN
               /\ out.state \in StoredAt(n) /\ out.allowed \in BOOLEAN
               /\ out.remaining \in Int /\ out.wait \in Int
               /\ RoomOf(out.state) + (IF out.allowed THEN k ELSE 0) <= RoomOf(s)
  <2> DEFINE out == Evaluate(s, n, k)
  <2>1. CountAt(s, n) = s.count
    BY <1>2, WindowSpan DEF CountAt, Passed
  <2>2. /\ out.state \in States /\ out.state.window = Window(n)
        /\ out.allowed \in BOOLEAN /\ out.remaining \in Int /\ out.wait \in Int
        /\ out.state.count = s.count + (IF out.allowed THEN k ELSE 0)
    BY <1>2, <2>1, EvaluateFacts
  <2> HIDE DEF out
  <2>3. out.state \in StoredAt(n) /\ out.state.count \in Nat
    BY <2>2 DEF StoredAt, States
  <2>4. RoomOf(out.state) + (IF out.allowed THEN k ELSE 0) <= RoomOf(s)
    BY <1>2, <2>2, <2>3, LimitAssumption DEF RoomOf
  <2> QED
    BY <2>2, <2>3, <2>4 DEF out
<1> QED
  BY <1>1, <1>2, <1>3, LimitAssumption
=============================================================================
