-------------------------- MODULE TokenBucketProofs --------------------------
(***************************************************************************)
(* Proofs about the token-bucket limiter, for any number of tasks, any     *)
(* costs, capacity, refill rate, unit, clock drift and number of rounds.   *)
(***************************************************************************)
EXTENDS TokenBucket, CheckLoopProofs

(* A key that is absent reads as a full bucket (token_bucket.rs l.63-64).  *)
LEMMA FreshIsState ==
  ASSUME NEW n \in Nat
  PROVE  /\ Fresh(n) \in States
         /\ Fresh(n).tokens = Capacity /\ Fresh(n).last = n
BY BucketAssumption DEF Fresh, States

(* The refill of a stretch of time, in whole units (l.69).                 *)
LEMMA RefillIsNat ==
  ASSUME NEW a \in Nat, NEW b \in Nat
  PROVE  /\ Elapsed(a, b) \in Nat
         /\ Elapsed(a, b) * Rate \in Nat
         /\ Elapsed(a, b) * Rate = Rate * Elapsed(a, b)
<1> DEFINE e == Elapsed(a, b)
<1>1. e \in Nat
  BY DEF Elapsed
<1> HIDE DEF e
<1>2. e * Rate \in Nat /\ e * Rate = Rate * e
  BY <1>1, BucketAssumption
<1> QED
  BY <1>1, <1>2 DEF e

(* What an evaluation returns (l.68-86): what it lets in and what it leaves *)
(* behind are together what the bucket held after its refill.              *)
LEMMA EvaluateFacts ==
  ASSUME NEW s \in States, NEW n \in Nat, NEW c \in Nat
  PROVE  LET out == Evaluate(s, n, c)
             price == IF out.allowed THEN c * Unit ELSE 0
         IN  /\ out.state \in States
             /\ out.state.last = n
             /\ out.allowed \in BOOLEAN
             /\ out.remaining \in Int
             /\ out.wait \in Int
             /\ price \in Nat
             /\ price + out.state.tokens = Refilled(s, n)
             /\ Refilled(s, n) <= Capacity
             /\ Refilled(s, n) <= s.tokens + Rate * Elapsed(s.last, n)
             /\ ~out.allowed => out.wait = (c * Unit - out.state.tokens) \div Rate
<1> DEFINE held == Refilled(s, n)
           fits == Fits(s, n, c)
           left == TokensAfter(s, n, c)
           asked == c * Unit
           refill == Elapsed(s.last, n) * Rate
           out == Evaluate(s, n, c)
<1>1. s.tokens \in Nat /\ s.last \in Nat
  BY DEF States
<1>2. asked \in Nat
  BY BucketAssumption
<1>3. refill \in Nat /\ refill = Rate * Elapsed(s.last, n)
  BY <1>1, RefillIsNat
<1>4. held = IF s.tokens + refill <= Capacity THEN s.tokens + refill ELSE Capacity
  BY DEF Refilled, AtMost
<1>5. fits <=> asked <= held
  BY DEF Fits
<1>6. left = IF fits THEN held - asked ELSE held
  BY DEF TokensAfter
<1>7. fits \in BOOLEAN
  BY DEF Fits
<1> HIDE DEF held, fits, left, asked, refill
<1>8. held \in Nat /\ held <= Capacity /\ held <= s.tokens + refill
  BY <1>1, <1>3, <1>4, BucketAssumption
<1>9. left \in Nat /\ (IF fits THEN asked ELSE 0) + left = held
  <2>1. CASE fits
    <3>1. left = held - asked /\ asked <= held
      BY <2>1, <1>5, <1>6
    <3> QED
      BY <2>1, <3>1, <1>2, <1>8
  <2>2. CASE ~fits
    BY <2>2, <1>6, <1>8
  <2> QED
    BY <2>1, <2>2
<1>10. left \div Unit \in Int /\ (asked - held) \div Rate \in Int
  BY <1>2, <1>8, <1>9, BucketAssumption
<1>11. /\ out.state = [tokens |-> left, last |-> n]
       /\ out.allowed = fits
       /\ out.remaining = left \div Unit
       /\ out.wait = IF fits THEN 0 ELSE (asked - held) \div Rate
  BY DEF Evaluate, UntilRefilled, held, fits, left, asked
<1> HIDE DEF out
<1>12. out.state \in States /\ out.state.tokens = left /\ out.state.last = n
  <2>1. out.state = [tokens |-> left, last |-> n]
    BY <1>11
  <2>2. left \in Nat
    BY <1>9
  <2> QED
    BY <2>1, <2>2 DEF States
<1>13. out.wait \in Int /\ (~fits => out.wait = (asked - left) \div Rate)
  BY <1>6, <1>7, <1>10, <1>11
<1>14. held <= s.tokens + Rate * Elapsed(s.last, n)
  BY <1>3, <1>8
<1>15. /\ out.allowed \in BOOLEAN /\ out.remaining \in Int
       /\ (IF out.allowed THEN asked ELSE 0) \in Nat
       /\ (IF out.allowed THEN asked ELSE 0) + out.state.tokens = held
       /\ ~out.allowed => out.wait = (asked - out.state.tokens) \div Rate
  BY <1>2, <1>7, <1>9, <1>10, <1>11, <1>12, <1>13
<1> QED
  BY <1>8, <1>12, <1>13, <1>14, <1>15 DEF out, held, asked

(* What a task computes from its snapshot (l.68-86).                       *)
LEMMA OutcomeFacts ==
  ASSUME TypeOK, NEW t \in Tasks
  PROVE  /\ now[t] \in Nat /\ cost[t] \in Nat /\ snap[t] \in States
         /\ Outcome(t).state \in States
         /\ Outcome(t).state.last = now[t]
         /\ Outcome(t).allowed \in BOOLEAN
         /\ Outcome(t).remaining \in Int
         /\ Outcome(t).wait \in Int
         /\ Price(t) \in Nat
         /\ Price(t) + Outcome(t).state.tokens = Refilled(snap[t], now[t])
         /\ Refilled(snap[t], now[t]) <= Capacity
         /\ Refilled(snap[t], now[t]) <=
              snap[t].tokens + Rate * Elapsed(snap[t].last, now[t])
         /\ ~Outcome(t).allowed =>
              Outcome(t).wait = (cost[t] * Unit - Outcome(t).state.tokens) \div Rate
<1>1. now[t] \in Nat /\ cost[t] \in Nat /\ snap[t] \in States
  BY DEF TypeOK, LoopTypeOK
<1> QED
  BY <1>1, EvaluateFacts DEF Outcome, Price

(* The account keeps its types when a write is booked.                     *)
LEMMA BookTypes ==
  ASSUME TypeOK, NEW t \in Tasks, NEW p \in Nat, Book(t, p)
  PROVE  LedgerTypeOK'
<1>1. now[t] \in Nat /\ entry.last \in Nat
  BY DEF TypeOK, LoopTypeOK, States
<1>2. Elapsed(now[t], entry.last) \in Nat
  BY <1>1 DEF Elapsed
<1>3. charged' \in [Tasks -> Nat]
  BY DEF TypeOK, LedgerTypeOK, Book
<1> QED
  BY <1>1, <1>2, <1>3 DEF TypeOK, LedgerTypeOK, Book

-----------------------------------------------------------------------------
(* A write lets no more in than the refill of the time it adds (l.68-79):  *)
(* the cas made sure that the bucket it takes from is the stored one.      *)
LEMMA WriteKeepsRate ==
  ASSUME TypeOK, SnapshotsFaithful, NothingBooked, RateBound,
         NEW t \in Tasks, Write(t, Outcome(t)), Book(t, Price(t))
  PROVE  RateBound'
<1> DEFINE held == Refilled(snap[t], now[t])
           gained == Elapsed(entry.last, now[t])
           lost == Elapsed(now[t], entry.last)
<1>1. /\ now[t] \in Nat /\ entry.last \in Nat /\ entry.tokens \in Nat
      /\ version \in Nat /\ granted \in Nat /\ base \in Nat /\ rewound \in Nat
      /\ Rate \in Nat /\ Capacity \in Nat
  BY BucketAssumption DEF TypeOK, LoopTypeOK, LedgerTypeOK, States
<1>2. /\ entry'.last = now[t] /\ version' = version + 1
      /\ Price(t) \in Nat /\ entry'.tokens \in Nat
      /\ Price(t) + entry'.tokens = held
      /\ granted' = granted + Price(t)
  BY OutcomeFacts DEF Write, Book, States
<1>3. held \in Nat /\ held <= Capacity
  BY <1>2, OutcomeFacts
<1>4. granted' + entry'.tokens = granted + held
  BY <1>1, <1>2, <1>3
<1>5. gained \in Nat /\ lost \in Nat
      /\ now[t] + lost = entry.last + gained
  BY <1>1 DEF Elapsed
<1>6. CASE version = 0
  <2>1. /\ granted = 0 /\ rewound = 0
        /\ base' = now[t] /\ rewound' = 0
    BY <1>6, <1>1 DEF NothingBooked, Book
  <2>2. entry'.last - base' + rewound' = 0
    BY <1>1, <1>2, <2>1
  <2> QED
    BY <1>1, <1>3, <1>4, <2>1, <2>2 DEF RateBound
<1>7. CASE version > 0
  <2>1. snap[t] = entry
    BY <1>7 DEF SnapshotsFaithful, Write
  <2>2. held <= entry.tokens + Rate * gained
    BY <2>1, OutcomeFacts
  <2>3. granted + entry.tokens <= Capacity + Rate * (entry.last - base + rewound)
    BY <1>7 DEF RateBound
  <2>4. base' = base /\ rewound' = rewound + lost
    BY <1>1, <1>7 DEF Book
  <2>5. entry'.last - base' + rewound' = (entry.last - base + rewound) + gained
    BY <1>1, <1>2, <1>5, <2>4
  <2> DEFINE time == entry.last - base + rewound
  <2>6. time \in Int
    BY <1>1
  <2> HIDE DEF time, gained
  <2>7. Rate * (time + gained) = Rate * time + Rate * gained
        /\ Rate * time \in Int /\ Rate * gained \in Int
    BY <1>1, <1>5, <2>6
  <2>8. granted + held <= Capacity + Rate * (time + gained)
    BY <1>1, <1>3, <2>2, <2>3, <2>7 DEF time
  <2> QED
    BY <1>4, <2>5, <2>8 DEF RateBound, time
<1> QED
  BY <1>1, <1>6, <1>7

(* No write leaves more in the bucket than it holds (l.69).                *)
LEMMA WriteFits ==
  ASSUME TypeOK, BucketFits, NEW t \in Tasks, Write(t, Outcome(t)), UNCHANGED snap
  PROVE  BucketFits'
<1>1. Price(t) \in Nat /\ entry'.tokens \in Nat
      /\ Price(t) + entry'.tokens <= Capacity
  BY OutcomeFacts DEF Write, States
<1>2. entry'.tokens <= Capacity
  BY <1>1, BucketAssumption
<1> QED
  BY <1>2 DEF BucketFits

(* A read snapshot stays faithful until the version moves (l.59-66).       *)
LEMMA SnapshotsUndisturbed ==
  ASSUME TypeOK, RoundsInOrder, SnapshotsFaithful,
         UNCHANGED <<now, snap, expected>>,
         \A u \in Tasks : pc'[u] = "cas" => pc[u] = "cas",
         \/ UNCHANGED store
         \/ version' = version + 1
  PROVE  SnapshotsFaithful'
<1>1. ASSUME NEW u \in Tasks, pc'[u] = "cas"
      PROVE  /\ expected'[u] = 0 => snap'[u] = Fresh(now'[u])
             /\ expected'[u] = version' /\ version' > 0 => snap'[u] = entry'
  <2>1. /\ pc[u] = "cas" /\ expected[u] \in Nat /\ version \in Nat
        /\ expected[u] <= version
    BY <1>1 DEF TypeOK, LoopTypeOK, RoundsInOrder
  <2>2. expected[u] = 0 => snap[u] = Fresh(now[u])
    BY <2>1 DEF SnapshotsFaithful
  <2>3. CASE UNCHANGED store
    BY <2>1, <2>2, <2>3 DEF SnapshotsFaithful, store
  <2>4. CASE version' = version + 1
    BY <2>1, <2>2, <2>4
  <2> QED
    BY <2>3, <2>4
<1> QED
  BY <1>1 DEF SnapshotsFaithful, Fresh

(* The get of a task reads the stored bucket, or a full one (l.59-66).     *)
LEMMA GetFaithful ==
  ASSUME TypeOK, SnapshotsFaithful, BucketFits, NEW t \in Tasks, Get(t, Fresh(now[t]))
  PROVE  SnapshotsFaithful' /\ BucketFits'
<1>1. now[t] \in Nat /\ Fresh(now[t]).tokens <= Capacity
  BY FreshIsState, BucketAssumption DEF TypeOK, LoopTypeOK
<1>2. \/ version > 0 /\ snap' = [snap EXCEPT ![t] = entry] /\ expected'[t] = version
      \/ snap' = [snap EXCEPT ![t] = Fresh(now[t])] /\ expected'[t] = 0
  BY DEF Get, TypeOK, LoopTypeOK
<1>3. UNCHANGED <<now, version, entry>>
  BY DEF Get, store
<1>4. snap \in [Tasks -> States]
  BY DEF TypeOK, LoopTypeOK
<1>5. ASSUME NEW u \in Tasks, pc'[u] = "cas"
      PROVE  /\ expected'[u] = 0 => snap'[u] = Fresh(now[u])
             /\ expected'[u] = version /\ version > 0 => snap'[u] = entry
  <2>1. CASE u = t
    BY <1>2, <1>4, <2>1
  <2>2. CASE u # t
    <3>1. pc[u] = "cas" /\ snap'[u] = snap[u] /\ expected'[u] = expected[u]
      BY <1>5, <2>2 DEF Get, TypeOK, LoopTypeOK
    <3> QED
      BY <3>1 DEF SnapshotsFaithful
  <2> QED
    BY <2>1, <2>2
<1>6. \A u \in Tasks : snap'[u].tokens <= Capacity
  BY <1>1, <1>2, <1>4 DEF BucketFits
<1> QED
  BY <1>3, <1>5, <1>6 DEF SnapshotsFaithful, BucketFits, Fresh

(* A new reading of the clock belongs to a round that has read nothing yet. *)
LEMMA NewRoundFaithful ==
  ASSUME TypeOK, SnapshotsFaithful, NEW t \in Tasks, NEW n,
         now' = [now EXCEPT ![t] = n], pc' = [pc EXCEPT ![t] = "get"],
         UNCHANGED <<store, snap, expected>>
  PROVE  SnapshotsFaithful'
<1>1. ASSUME NEW u \in Tasks, pc'[u] = "cas"
      PROVE  pc[u] = "cas" /\ now'[u] = now[u]
  BY <1>1 DEF TypeOK, LoopTypeOK
<1> QED
  BY <1>1 DEF SnapshotsFaithful, Fresh, store

-----------------------------------------------------------------------------
(* The answer written by a commit is charged to its task, and no other     *)
(* account is touched (l.68-100).                                          *)
LEMMA CommitAccounts ==
  ASSUME TypeOK, AccountsInOrder, NEW t \in Tasks,
         Commit(t, Outcome(t)), Book(t, Price(t))
  PROVE  AccountsInOrder'
<1>1. /\ pc \in [Tasks -> Labels] /\ reply \in [Tasks -> Replies]
      /\ charged \in [Tasks -> Nat]
      /\ pc[t] = "cas" /\ UNCHANGED cost
      /\ pc' = [pc EXCEPT ![t] = "idle"]
      /\ reply' = [reply EXCEPT ![t] = Answer(Outcome(t), version + 1)]
      /\ charged' = [charged EXCEPT ![t] = @ + Price(t)]
  BY DEF TypeOK, LoopTypeOK, LedgerTypeOK, Commit, Write, Book
<1>2. /\ Outcome(t).allowed \in BOOLEAN
      /\ Price(t) = IF Outcome(t).allowed THEN cost[t] * Unit ELSE 0
      /\ Price(t) \in Nat
  BY OutcomeFacts DEF Price
<1>3. reply'[t].verdict = IF Outcome(t).allowed THEN "allowed" ELSE "denied"
  BY <1>1 DEF Answer, Reply
<1>4. ASSUME t \notin Unreliable
      PROVE  charged'[t] = IF reply'[t].verdict = "allowed" THEN cost[t] * Unit ELSE 0
  <2>1. charged[t] = 0
    BY <1>1, <1>4 DEF AccountsInOrder
  <2>2. charged'[t] = Price(t)
    BY <1>1, <1>2, <2>1
  <2> QED
    BY <1>2, <1>3, <2>2
<1>5. ASSUME NEW u \in Tasks
      PROVE  /\ pc'[u] # "idle" => reply'[u].verdict = "none"
             /\ u \notin Unreliable =>
                  /\ pc'[u] # "idle" => charged'[u] = 0
                  /\ PaysAsAnswered(u)'
  <2>1. CASE u = t
    BY <2>1, <1>1, <1>4 DEF PaysAsAnswered
  <2>2. CASE u # t
    <3>1. pc'[u] = pc[u] /\ reply'[u] = reply[u] /\ charged'[u] = charged[u]
      BY <1>1, <2>2
    <3> QED
      BY <1>1, <3>1 DEF AccountsInOrder, PaysAsAnswered
  <2> QED
    BY <2>1, <2>2
<1> QED
  BY <1>5 DEF AccountsInOrder

(* A lost round has charged nothing to a task whose calls are answered     *)
(* (l.88-109); a write that goes unseen is another task's account.         *)
LEMMA LostRoundAccounts ==
  ASSUME TypeOK, AccountsInOrder, NEW t \in Tasks, NEW v, LoseRound(t, v), pc[t] = "cas",
         \/ UNCHANGED charged
         \/ t \in Unreliable /\ Book(t, Price(t))
  PROVE  AccountsInOrder'
<1>1. /\ pc \in [Tasks -> Labels] /\ reply \in [Tasks -> Replies]
      /\ charged \in [Tasks -> Nat] /\ UNCHANGED cost
  BY DEF TypeOK, LoopTypeOK, LedgerTypeOK, LoseRound
<1>2. \/ pc' = [pc EXCEPT ![t] = "backoff"] /\ UNCHANGED reply
      \/ pc' = [pc EXCEPT ![t] = "idle"] /\ reply' = [reply EXCEPT ![t] = Contended(v)]
  BY DEF LoseRound
<1>3. Contended(v).verdict = "contended"
  BY DEF Contended, Reply
<1>4. \A u \in Tasks : u # t \/ u \notin Unreliable => charged'[u] = charged[u]
  BY <1>1 DEF Book
<1>5. reply[t].verdict = "none" /\ (t \notin Unreliable => charged[t] = 0)
  BY DEF AccountsInOrder
<1>6. ASSUME NEW u \in Tasks
      PROVE  /\ pc'[u] # "idle" => reply'[u].verdict = "none"
             /\ u \notin Unreliable =>
                  /\ pc'[u] # "idle" => charged'[u] = 0
                  /\ PaysAsAnswered(u)'
  <2>1. CASE u = t
    <3>1. pc'[t] # "idle" => reply'[t].verdict = "none"
      BY <1>1, <1>2, <1>5
    <3>2. reply'[t].verdict \in {"none", "contended"}
      BY <1>1, <1>2, <1>3, <1>5
    <3> QED
      BY <2>1, <3>1, <3>2, <1>1, <1>4, <1>5 DEF PaysAsAnswered
  <2>2. CASE u # t
    <3>1. pc'[u] = pc[u] /\ reply'[u] = reply[u] /\ charged'[u] = charged[u]
      BY <1>1, <1>2, <1>4, <2>2
    <3> QED
      BY <1>1, <3>1 DEF AccountsInOrder, PaysAsAnswered
  <2> QED
    BY <2>1, <2>2
<1> QED
  BY <1>6 DEF AccountsInOrder

(* The wait a commit tells is that of the bucket it leaves (l.74-86).      *)
LEMMA CommitWaits ==
  ASSUME TypeOK, WaitsInOrder, NEW t \in Tasks, Commit(t, Outcome(t))
  PROVE  WaitsInOrder'
<1>1. /\ reply \in [Tasks -> Replies] /\ version \in Nat
      /\ UNCHANGED <<cost, now>> /\ version' = version + 1
      /\ entry' = Outcome(t).state
      /\ reply' = [reply EXCEPT ![t] = Answer(Outcome(t), version + 1)]
  BY DEF TypeOK, LoopTypeOK, Commit, Write
<1>2. /\ reply'[t].stamp = version + 1 /\ reply'[t].wait = Outcome(t).wait
      /\ reply'[t].verdict = IF Outcome(t).allowed THEN "allowed" ELSE "denied"
  BY <1>1 DEF Answer, Reply
<1>3. ~Outcome(t).allowed =>
        Outcome(t).wait = (cost[t] * Unit - entry'.tokens) \div Rate
  BY <1>1, OutcomeFacts
<1>4. entry'.last = now[t]
  BY <1>1, OutcomeFacts
<1>5. ASSUME NEW u \in Tasks, reply'[u].verdict = "denied"
      PROVE  /\ reply'[u].stamp <= version'
             /\ reply'[u].stamp = version' =>
                  /\ entry'.last = now'[u]
                  /\ reply'[u].wait = (cost'[u] * Unit - entry'.tokens) \div Rate
  <2>1. CASE u = t
    <3>1. ~Outcome(t).allowed
      BY <1>2, <1>5, <2>1
    <3>2. reply'[t].stamp <= version'
      BY <1>1, <1>2
    <3> QED
      BY <2>1, <3>1, <3>2, <1>1, <1>2, <1>3, <1>4
  <2>2. CASE u # t
    <3>1. reply'[u] = reply[u] /\ reply[u].stamp \in Nat
      BY <1>1, <2>2 DEF Replies
    <3>2. reply[u].stamp <= version
      BY <1>5, <3>1 DEF WaitsInOrder
    <3>3. reply'[u].stamp <= version' /\ reply'[u].stamp # version'
      BY <1>1, <3>1, <3>2
    <3> QED
      BY <3>3
  <2> QED
    BY <2>1, <2>2
<1> QED
  BY <1>5 DEF WaitsInOrder

(* No round lost makes a denial, and a write outdates those there are.     *)
LEMMA LostRoundWaits ==
  ASSUME TypeOK, WaitsInOrder, NEW t \in Tasks, NEW v, LoseRound(t, v),
         UNCHANGED store \/ version' = version + 1
  PROVE  WaitsInOrder'
<1>1. /\ reply \in [Tasks -> Replies] /\ version \in Nat
      /\ UNCHANGED <<cost, now>>
      /\ UNCHANGED reply \/ reply' = [reply EXCEPT ![t] = Contended(v)]
  BY DEF TypeOK, LoopTypeOK, LoseRound
<1>2. Contended(v).verdict = "contended"
  BY DEF Contended, Reply
<1>3. ASSUME NEW u \in Tasks, reply'[u].verdict = "denied"
      PROVE  /\ reply'[u].stamp <= version'
             /\ reply'[u].stamp = version' =>
                  /\ entry'.last = now'[u]
                  /\ reply'[u].wait = (cost'[u] * Unit - entry'.tokens) \div Rate
  <2>1. reply'[u] = reply[u] /\ reply[u].stamp \in Nat
    BY <1>1, <1>2, <1>3 DEF Replies
  <2>2. reply[u].stamp <= version
    BY <1>3, <2>1 DEF WaitsInOrder
  <2>3. CASE UNCHANGED store
    BY <2>1, <2>3, <1>1, <1>3 DEF WaitsInOrder, store
  <2>4. CASE version' = version + 1
    <3>1. reply'[u].stamp <= version' /\ reply'[u].stamp # version'
      BY <1>1, <2>1, <2>2, <2>4
    <3> QED
      BY <3>1
  <2> QED
    BY <2>3, <2>4
<1> QED
  BY <1>3 DEF WaitsInOrder

-----------------------------------------------------------------------------
(* The first state satisfies the inductive invariant.                      *)
LEMMA InitInvariant == Init => IInv
<1> SUFFICES ASSUME Init PROVE IInv
  OBVIOUS
<1>1. Fresh(0) \in States /\ Fresh(0).tokens = Capacity
  BY FreshIsState
<1>2. LoopTypeOK(States) /\ RoundsInOrder
  BY <1>1, LoopInitTypes, LoopInitOrder DEF Init
<1>3. TypeOK
  BY <1>2 DEF Init, TypeOK, LedgerInit, LedgerTypeOK
<1>4. SnapshotsFaithful /\ NothingBooked /\ RateBound
  BY DEF SnapshotsFaithful, NothingBooked, RateBound, Init, LoopInit, LedgerInit
<1>5. BucketFits
  BY <1>1, BucketAssumption DEF BucketFits, Init, LoopInit
<1>6. ContentionHasCause /\ AccountsInOrder /\ WaitsInOrder
  BY DEF ContentionHasCause, AccountsInOrder, WaitsInOrder, PaysAsAnswered,
         Init, LoopInit, NoReply, Reply
<1> QED
  BY <1>2, <1>3, <1>4, <1>5, <1>6 DEF IInv

(* A write of the bucket, whether its task learns of it or not.            *)
LEMMA WriteInvariant ==
  ASSUME IInv, NEW t \in Tasks, Write(t, Outcome(t)), Book(t, Price(t)),
         UNCHANGED <<now, snap, expected>>,
         \A u \in Tasks : pc'[u] = "cas" => pc[u] = "cas"
  PROVE  /\ LedgerTypeOK' /\ SnapshotsFaithful' /\ BucketFits'
         /\ NothingBooked' /\ RateBound'
<1>1. version' = version + 1 /\ version \in Nat
  BY DEF Write, IInv, TypeOK, LoopTypeOK
<1>2. SnapshotsFaithful'
  BY <1>1, SnapshotsUndisturbed DEF IInv
<1>3. NothingBooked'
  BY <1>1 DEF NothingBooked
<1>4. LedgerTypeOK'
  BY OutcomeFacts, BookTypes DEF IInv
<1> QED
  BY <1>2, <1>3, <1>4, WriteFits, WriteKeepsRate DEF IInv

(* A step that leaves the store and the account of the bucket alone.       *)
LEMMA QuietInvariant ==
  ASSUME IInv, UNCHANGED <<store, granted, base, rewound>>
  PROVE  NothingBooked' /\ RateBound'
BY DEF IInv, NothingBooked, RateBound, store

(* The observer may start to count in any state (l.3-4 hold of any interval). *)
LEMMA ObserveInvariant ==
  ASSUME IInv, Observe
  PROVE  IInv'
<1> USE DEF IInv, TypeOK
<1>1. /\ entry.last \in Nat /\ entry.tokens \in Nat /\ entry.tokens <= Capacity
      /\ UNCHANGED <<charged, loopVars>>
      /\ granted' = 0 /\ base' = entry.last /\ rewound' = 0
  BY DEF LoopTypeOK, States, BucketFits, Observe
<1>2. UNCHANGED <<clock, entry, version, pc, attempt, now, cost, snap, expected,
                  reply, start, served>>
  BY <1>1 DEF loopVars, store, local
<1>3. LoopTypeOK(States)' /\ RoundsInOrder' /\ ContentionHasCause'
  BY <1>2 DEF LoopTypeOK, RoundsInOrder, ContentionHasCause
<1>4. LedgerTypeOK'
  BY <1>1 DEF LedgerTypeOK
<1>5. SnapshotsFaithful' /\ BucketFits' /\ AccountsInOrder' /\ WaitsInOrder'
  BY <1>1, <1>2 DEF SnapshotsFaithful, BucketFits, AccountsInOrder, WaitsInOrder,
                    PaysAsAnswered, Fresh
<1>6. NothingBooked'
  BY <1>1 DEF NothingBooked
<1>7. RateBound'
  <2>1. entry'.last - base' + rewound' = 0 /\ Rate * 0 = 0
    BY <1>1, <1>2, BucketAssumption
  <2>2. granted' + entry'.tokens <= Capacity
    BY <1>1, <1>2
  <2>3. Capacity + Rate * 0 = Capacity
    BY <2>1, BucketAssumption
  <2> QED
    BY <2>1, <2>2, <2>3 DEF RateBound
<1> QED
  BY <1>3, <1>4, <1>5, <1>6, <1>7

(* Every step keeps the inductive invariant.                               *)
LEMMA NextInvariant == IInv /\ [Next]_vars => IInv'
<1> SUFFICES ASSUME IInv, [Next]_vars PROVE IInv'
  OBVIOUS
<1> USE DEF IInv, TypeOK
<1>1. ASSUME NEW t \in Tasks, NEW c \in Costs, Begin(t, c), OpenAccount(t)
      PROVE  IInv'
  <2>1. LoopTypeOK(States)' /\ RoundsInOrder'
    BY <1>1, BeginTypes, BeginOrder
  <2>2. PICK n : now' = [now EXCEPT ![t] = n]
    BY <1>1 DEF Begin
  <2>3. SnapshotsFaithful'
    BY <1>1, <2>2, NewRoundFaithful DEF Begin
  <2>4. ContentionHasCause'
    BY <1>1, BeginContention
  <2>5. LedgerTypeOK'
    BY <1>1 DEF LedgerTypeOK, OpenAccount
  <2>6. BucketFits'
    BY <1>1 DEF BucketFits, Begin, store
  <2>7. /\ reply' = [reply EXCEPT ![t] = NoReply] /\ NoReply.verdict = "none"
        /\ pc' = [pc EXCEPT ![t] = "get"]
        /\ charged' = [charged EXCEPT ![t] = 0]
        /\ cost' = [cost EXCEPT ![t] = c]
        /\ UNCHANGED <<version, entry>>
    BY <1>1 DEF Begin, OpenAccount, NoReply, Reply, store
  <2>8. AccountsInOrder'
    BY <2>7 DEF AccountsInOrder, PaysAsAnswered, LoopTypeOK, LedgerTypeOK
  <2>9. WaitsInOrder'
    BY <2>2, <2>7 DEF WaitsInOrder, LoopTypeOK
  <2> QED
    BY <1>1, <2>1, <2>3, <2>4, <2>5, <2>6, <2>8, <2>9, QuietInvariant DEF Begin, OpenAccount
<1>2. ASSUME NEW t \in Tasks, Get(t, Fresh(now[t])), UNCHANGED ledger
      PROVE  IInv'
  <2>1. Fresh(now[t]) \in States
    BY FreshIsState DEF LoopTypeOK
  <2>2. LoopTypeOK(States)' /\ RoundsInOrder'
    BY <1>2, <2>1, GetTypes, GetOrder
  <2>3. /\ pc[t] = "get" /\ pc' = [pc EXCEPT ![t] = "cas"]
        /\ UNCHANGED <<version, entry, reply, start, now, cost, charged>>
    BY <1>2 DEF Get, store, ledger
  <2>4. ContentionHasCause' /\ WaitsInOrder'
    BY <2>3 DEF ContentionHasCause, WaitsInOrder
  <2>5. AccountsInOrder'
    BY <2>3 DEF AccountsInOrder, PaysAsAnswered, LoopTypeOK
  <2> QED
    BY <1>2, <2>2, <2>4, <2>5, GetFaithful, QuietInvariant DEF Get, ledger, LedgerTypeOK
<1>3. ASSUME NEW t \in Tasks, Commit(t, Outcome(t)), Book(t, Price(t))
      PROVE  IInv'
  <2>1. LoopTypeOK(States)' /\ RoundsInOrder'
    BY <1>3, OutcomeFacts, CommitTypes, CommitOrder
  <2>2. \A u \in Tasks : pc'[u] = "cas" => pc[u] = "cas"
    BY <1>3 DEF Commit, LoopTypeOK
  <2>3. ContentionHasCause' /\ AccountsInOrder' /\ WaitsInOrder'
    BY <1>3, CommitContention, CommitAccounts, CommitWaits
  <2> QED
    BY <1>3, <2>1, <2>2, <2>3, WriteInvariant DEF Commit
<1>4. ASSUME NEW t \in Tasks, CommitUnseen(t, Outcome(t)), Book(t, Price(t))
      PROVE  IInv'
  <2>1. LoopTypeOK(States)' /\ RoundsInOrder'
    BY <1>4, OutcomeFacts, CommitUnseenTypes, CommitUnseenOrder
  <2>2. \A u \in Tasks : pc'[u] = "cas" => pc[u] = "cas"
    BY <1>4 DEF CommitUnseen, LoseRound, LoopTypeOK
  <2>3. /\ t \in Unreliable /\ pc[t] = "cas" /\ LoseRound(t, version + 1)
        /\ version' = version + 1
    BY <1>4 DEF CommitUnseen, Write
  <2>4. ContentionHasCause' /\ AccountsInOrder' /\ WaitsInOrder'
    BY <1>4, <2>3, CommitUnseenContention, LostRoundAccounts, LostRoundWaits
  <2> QED
    BY <1>4, <2>1, <2>2, <2>4, WriteInvariant DEF CommitUnseen, LoseRound
<1>5. ASSUME NEW t \in Tasks, Conflict(t), UNCHANGED ledger
      PROVE  IInv'
  <2>1. LoopTypeOK(States)' /\ RoundsInOrder'
    BY <1>5, ConflictTypes, ConflictOrder
  <2>2. \A u \in Tasks : pc'[u] = "cas" => pc[u] = "cas"
    BY <1>5 DEF Conflict, LoseRound, LoopTypeOK
  <2>3. SnapshotsFaithful'
    BY <1>5, <2>2, SnapshotsUndisturbed DEF Conflict, LoseRound
  <2>4. pc[t] = "cas" /\ LoseRound(t, version) /\ UNCHANGED <<store, charged>>
    BY <1>5 DEF Conflict, ledger
  <2>5. ContentionHasCause' /\ AccountsInOrder' /\ WaitsInOrder'
    BY <1>5, <2>4, ConflictContention, LostRoundAccounts, LostRoundWaits
  <2>6. BucketFits' /\ LedgerTypeOK'
    BY <1>5 DEF Conflict, LoseRound, BucketFits, LedgerTypeOK, store, ledger
  <2> QED
    BY <1>5, <2>1, <2>3, <2>5, <2>6, QuietInvariant DEF Conflict, ledger
<1>6. ASSUME NEW t \in Tasks, Wake(t), UNCHANGED ledger
      PROVE  IInv'
  <2>1. LoopTypeOK(States)' /\ RoundsInOrder'
    BY <1>6, WakeTypes, WakeOrder
  <2>2. PICK n : now' = [now EXCEPT ![t] = n]
    BY <1>6 DEF Wake
  <2>3. SnapshotsFaithful'
    BY <1>6, <2>2, NewRoundFaithful DEF Wake
  <2>4. /\ pc[t] = "backoff" /\ pc' = [pc EXCEPT ![t] = "get"]
        /\ UNCHANGED <<version, entry, snap, reply, start, cost, ledger>>
    BY <1>6 DEF Wake, store
  <2>5. ContentionHasCause' /\ BucketFits' /\ LedgerTypeOK'
    BY <2>4 DEF ContentionHasCause, BucketFits, LedgerTypeOK, ledger
  <2>6. AccountsInOrder'
    BY <2>4 DEF AccountsInOrder, PaysAsAnswered, LoopTypeOK, ledger
  <2>7. WaitsInOrder'
    <3>1. reply[t].verdict = "none"
      BY <2>4 DEF AccountsInOrder
    <3>2. \A u \in Tasks : u # t => now'[u] = now[u]
      BY <2>2 DEF LoopTypeOK
    <3> QED
      BY <2>4, <3>1, <3>2 DEF WaitsInOrder
  <2> QED
    BY <1>6, <2>1, <2>3, <2>5, <2>6, <2>7, QuietInvariant DEF Wake, ledger
<1>7. ASSUME NEW t \in Tasks, Abandon(t), UNCHANGED ledger
      PROVE  IInv'
  <2>1. LoopTypeOK(States)' /\ RoundsInOrder'
    BY <1>7, AbandonTypes, AbandonOrder
  <2>2. \A u \in Tasks : pc'[u] = "cas" => pc[u] = "cas"
    BY <1>7 DEF Abandon, LoopTypeOK
  <2>3. SnapshotsFaithful'
    BY <1>7, <2>2, SnapshotsUndisturbed DEF Abandon
  <2>4. /\ pc' = [pc EXCEPT ![t] = "idle"] /\ pc[t] # "idle"
        /\ UNCHANGED <<version, entry, snap, reply, start, cost, now, ledger>>
    BY <1>7 DEF Abandon, store
  <2>5. ContentionHasCause' /\ BucketFits' /\ LedgerTypeOK' /\ WaitsInOrder'
    BY <2>4 DEF ContentionHasCause, BucketFits, LedgerTypeOK, WaitsInOrder, ledger
  <2>6. AccountsInOrder'
    BY <2>4 DEF AccountsInOrder, PaysAsAnswered, LoopTypeOK, ledger
  <2> QED
    BY <1>7, <2>1, <2>3, <2>5, <2>6, QuietInvariant DEF Abandon, ledger
<1>8. CASE Tick /\ UNCHANGED ledger
  <2>1. LoopTypeOK(States)' /\ RoundsInOrder'
    BY <1>8, TickTypes, TickOrder
  <2>2. UNCHANGED <<store, local, reply, start, served, ledger>>
    BY <1>8 DEF Tick
  <2>3. SnapshotsFaithful' /\ BucketFits' /\ ContentionHasCause'
    BY <2>2 DEF SnapshotsFaithful, Fresh, BucketFits, ContentionHasCause, store, local
  <2>4. LedgerTypeOK' /\ AccountsInOrder' /\ WaitsInOrder'
    BY <2>2 DEF LedgerTypeOK, AccountsInOrder, PaysAsAnswered, WaitsInOrder,
                store, local, ledger
  <2> QED
    BY <2>1, <2>2, <2>3, <2>4, QuietInvariant DEF ledger
<1>9. CASE UNCHANGED vars
  <2>1. UNCHANGED <<clock, entry, version, pc, attempt, now, cost, snap, expected,
                    reply, start, served, granted, base, rewound, charged>>
    BY <1>9 DEF vars, loopVars, store, local, ledger
  <2> QED
    BY <2>1 DEF LoopTypeOK, LedgerTypeOK, RoundsInOrder, ContentionHasCause,
                SnapshotsFaithful, Fresh, BucketFits, NothingBooked, RateBound,
                AccountsInOrder, PaysAsAnswered, WaitsInOrder
<1> QED
  BY <1>1, <1>2, <1>3, <1>4, <1>5, <1>6, <1>7, <1>8, <1>9, ObserveInvariant DEF Next

(* Every state of the limiter satisfies the inductive invariant.           *)
THEOREM Invariance == Spec => []IInv
<1> QED
  BY InitInvariant, NextInvariant, PTL DEF Spec

(* The rate (token_bucket.rs l.3-4): over any interval, what is let in is  *)
(* a full bucket and the refill of the time that passed, plus the refill   *)
(* of the time the stored reading was moved back over.                     *)
THEOREM RateKept == Spec => []RateBound
<1>1. IInv => RateBound
  BY DEF IInv
<1> QED
  BY <1>1, Invariance, PTL

(* Payment (token_bucket.rs l.4-5): a task whose calls are answered has    *)
(* paid its cost once if it was let in, and nothing otherwise.             *)
THEOREM PaidAsAnswered == Spec => []ReliablyCharged
<1>1. IInv => ReliablyCharged
  BY DEF IInv, AccountsInOrder, ReliablyCharged
<1> QED
  BY <1>1, Invariance, PTL

(* Every lost round has taken the price at most once, and whoever may      *)
(* proceed has paid: it is the work of the round that commits (l.53-97).   *)
PaysInOrder ==
  \A t \in Tasks :
    /\ charged[t] <= (IF pc[t] = "idle" THEN MaxAttempts ELSE attempt[t]) * (cost[t] * Unit)
    /\ reply[t].verdict = "allowed" => cost[t] * Unit <= charged[t]

(* One more round, at most one more price.                                 *)
LEMMA OneMorePrice ==
  ASSUME NEW a \in Nat, NEW m \in Nat, a + 1 <= m, NEW p \in Nat, NEW q \in {0, p},
         NEW paid \in Nat, paid <= a * p
  PROVE  paid + q <= (a + 1) * p /\ paid + q <= m * p
<1>1. a * p + p = (a + 1) * p /\ a * p \in Nat
  OBVIOUS
<1>2. m * p = (a + 1) * p + (m - (a + 1)) * p /\ (m - (a + 1)) * p \in Nat
  OBVIOUS
<1> QED
  BY <1>1, <1>2

(* A round that writes is charged for once, whether it is answered or not  *)
(* (l.82-97), and one that is lost without a write is charged nothing.     *)
LEMMA RoundPays ==
  ASSUME IInv, PaysInOrder, NEW t \in Tasks, pc[t] = "cas", UNCHANGED cost,
         \/ charged' = [charged EXCEPT ![t] = @ + Price(t)]
         \/ UNCHANGED charged,
         \/ /\ pc' = [pc EXCEPT ![t] = "idle"]
            /\ \/ reply' = [reply EXCEPT ![t] = Answer(Outcome(t), version + 1)]
                  /\ charged' = [charged EXCEPT ![t] = @ + Price(t)]
               \/ \E v : reply' = [reply EXCEPT ![t] = Contended(v)]
         \/ /\ pc' = [pc EXCEPT ![t] = "backoff"]
            /\ UNCHANGED reply
            /\ attempt' = [attempt EXCEPT ![t] = @ + 1],
         attempt' = [attempt EXCEPT ![t] = @ + 1] \/ UNCHANGED attempt
  PROVE  PaysInOrder'
<1>1. /\ pc \in [Tasks -> Labels] /\ reply \in [Tasks -> Replies] /\ charged \in [Tasks -> Nat]
      /\ attempt \in [Tasks -> 0..MaxAttempts] /\ cost[t] \in Nat /\ Price(t) \in Nat
      /\ Outcome(t).allowed \in BOOLEAN
      /\ reply[t].verdict = "none" /\ attempt[t] \in Nat /\ attempt[t] + 1 <= MaxAttempts
  BY OutcomeFacts, AttemptsAssumption
     DEF IInv, TypeOK, LoopTypeOK, LedgerTypeOK, AccountsInOrder, RoundsInOrder
<1>2. PICK p \in Nat : p = cost[t] * Unit
  BY <1>1, BucketAssumption
<1>3. Price(t) \in {0, p} /\ (Outcome(t).allowed => Price(t) = p)
  BY <1>2 DEF Price
<1>4. charged[t] <= attempt[t] * p
  BY <1>2 DEF PaysInOrder
<1>5. PICK q \in {0, p} : charged'[t] = charged[t] + q
  BY <1>1, <1>3
<1>6. charged'[t] <= (attempt[t] + 1) * p /\ charged'[t] <= MaxAttempts * p
  BY <1>1, <1>4, <1>5, OneMorePrice, AttemptsAssumption
<1>7. reply'[t].verdict = "allowed" => p <= charged'[t]
  <2>1. ASSUME NEW v PROVE Contended(v).verdict # "allowed"
    BY DEF Contended, Reply
  <2>2. CASE \E v : reply' = [reply EXCEPT ![t] = Contended(v)]
    BY <1>1, <2>1, <2>2
  <2>3. CASE /\ reply' = [reply EXCEPT ![t] = Answer(Outcome(t), version + 1)]
             /\ charged' = [charged EXCEPT ![t] = @ + Price(t)]
    <3>1. reply'[t].verdict = "allowed" => Outcome(t).allowed
      BY <1>1, <2>3 DEF Answer, Reply
    <3>2. charged'[t] = charged[t] + Price(t) /\ charged[t] \in Nat
      BY <1>1, <2>3
    <3> QED
      BY <1>2, <1>3, <3>1, <3>2
  <2>4. CASE UNCHANGED reply
    BY <1>1, <2>4
  <2> QED
    BY <2>2, <2>3, <2>4
<1>8. cost'[t] * Unit = p
  BY <1>2
<1>9. charged'[t] <= (IF pc'[t] = "idle" THEN MaxAttempts ELSE attempt'[t]) * p
  BY <1>1, <1>6
<1>10. ASSUME NEW u \in Tasks, u # t
       PROVE  pc'[u] = pc[u] /\ reply'[u] = reply[u] /\ charged'[u] = charged[u]
              /\ attempt'[u] = attempt[u] /\ cost'[u] = cost[u]
  BY <1>1, <1>10
<1> QED
  BY <1>2, <1>7, <1>8, <1>9, <1>10 DEF PaysInOrder

(* A check that is given up half way has not been let in, and its rounds   *)
(* were no more than the loop has (l.53).                                  *)
LEMMA AbandonPays ==
  ASSUME IInv, PaysInOrder, NEW t \in Tasks, Abandon(t), UNCHANGED ledger
  PROVE  PaysInOrder'
<1>1. /\ pc \in [Tasks -> Labels] /\ charged[t] \in Nat /\ pc[t] # "idle"
      /\ attempt[t] \in Nat /\ attempt[t] + 1 <= MaxAttempts /\ cost[t] \in Nat
      /\ pc' = [pc EXCEPT ![t] = "idle"]
      /\ UNCHANGED <<attempt, cost, charged, reply>>
  BY AttemptsAssumption
     DEF IInv, TypeOK, LoopTypeOK, LedgerTypeOK, RoundsInOrder, Abandon, Labels, ledger
<1>2. PICK p \in Nat : p = cost[t] * Unit
  BY <1>1, BucketAssumption
<1>3. charged[t] <= attempt[t] * p
  BY <1>1, <1>2 DEF PaysInOrder
<1>4. charged[t] + 0 <= MaxAttempts * p
  BY <1>1, <1>3, OneMorePrice, AttemptsAssumption
<1>5. charged'[t] <= MaxAttempts * (cost'[t] * Unit)
  BY <1>1, <1>2, <1>4
<1> QED
  BY <1>1, <1>5 DEF PaysInOrder

LEMMA NextPays == IInv /\ PaysInOrder /\ [Next]_vars => PaysInOrder'
<1> SUFFICES ASSUME IInv, PaysInOrder, [Next]_vars PROVE PaysInOrder'
  OBVIOUS
<1>1. /\ pc \in [Tasks -> Labels] /\ reply \in [Tasks -> Replies] /\ charged \in [Tasks -> Nat]
      /\ attempt \in [Tasks -> 0..MaxAttempts] /\ cost \in [Tasks -> Nat]
  BY DEF IInv, TypeOK, LoopTypeOK, LedgerTypeOK
<1>2. ASSUME UNCHANGED <<attempt, cost, charged, reply>>,
             \A u \in Tasks : pc'[u] = "idle" <=> pc[u] = "idle"
      PROVE  PaysInOrder'
  BY <1>2 DEF PaysInOrder
<1>3. ASSUME NEW t \in Tasks, NEW c \in Costs, Begin(t, c), OpenAccount(t)
      PROVE  PaysInOrder'
  <2>1. /\ reply' = [reply EXCEPT ![t] = NoReply] /\ NoReply.verdict # "allowed"
        /\ pc' = [pc EXCEPT ![t] = "get"]
        /\ charged' = [charged EXCEPT ![t] = 0] /\ attempt' = [attempt EXCEPT ![t] = 0]
        /\ cost' = [cost EXCEPT ![t] = c]
    BY <1>3 DEF Begin, OpenAccount, NoReply, Reply
  <2>2. c * Unit \in Nat
    BY CostsAssumption, BucketAssumption
  <2>3. PICK p \in Nat : p = c * Unit
    BY <2>2
  <2>4. 0 <= 0 * p
    OBVIOUS
  <2> QED
    BY <1>1, <2>1, <2>3, <2>4 DEF PaysInOrder
<1>4. ASSUME NEW t \in Tasks, Get(t, Fresh(now[t])) \/ Wake(t), UNCHANGED ledger
      PROVE  PaysInOrder'
  BY <1>1, <1>2, <1>4 DEF Get, Wake, ledger
<1>5. ASSUME NEW t \in Tasks, Commit(t, Outcome(t)), Book(t, Price(t))
      PROVE  PaysInOrder'
  BY <1>5, RoundPays DEF Commit, Write, Book
<1>6. ASSUME NEW t \in Tasks, CommitUnseen(t, Outcome(t)), Book(t, Price(t))
      PROVE  PaysInOrder'
  <2>1. /\ pc[t] = "cas" /\ LoseRound(t, version + 1)
        /\ charged' = [charged EXCEPT ![t] = @ + Price(t)]
    BY <1>6 DEF CommitUnseen, Write, Book
  <2> QED
    BY <2>1, RoundPays DEF LoseRound
<1>7. ASSUME NEW t \in Tasks, Conflict(t), UNCHANGED ledger
      PROVE  PaysInOrder'
  <2>1. pc[t] = "cas" /\ LoseRound(t, version) /\ UNCHANGED charged
    BY <1>7 DEF Conflict, ledger
  <2> QED
    BY <2>1, RoundPays DEF LoseRound
<1>8. ASSUME NEW t \in Tasks, Abandon(t), UNCHANGED ledger
      PROVE  PaysInOrder'
  BY <1>8, AbandonPays
<1>9. CASE (Tick /\ UNCHANGED ledger) \/ Observe \/ UNCHANGED vars
  BY <1>2, <1>9 DEF Tick, Observe, vars, loopVars, local, ledger
<1> QED
  BY <1>3, <1>4, <1>5, <1>6, <1>7, <1>8, <1>9 DEF Next

(* The price of lost answers (token_bucket.rs l.53-97): whatever calls    *)
(* are lost and whoever hangs up, a check pays at most once a round, and   *)
(* nobody is let in without having paid.                                   *)
THEOREM PaysForRounds == Spec => []PaysByRound
<1>1. Init => PaysInOrder
  <2>1. 0 <= MaxAttempts * (0 * Unit)
    BY BucketAssumption, AttemptsAssumption
  <2> QED
    BY <2>1 DEF Init, LoopInit, LedgerInit, PaysInOrder, NoReply, Reply
<1>2. IInv /\ PaysInOrder => PaysByRound
  <2> SUFFICES ASSUME IInv, PaysInOrder, NEW t \in Tasks
               PROVE  charged[t] <= MaxAttempts * (cost[t] * Unit)
    BY DEF PaysInOrder, PaysByRound
  <2>1. CASE pc[t] = "idle"
    BY <2>1 DEF PaysInOrder
  <2>2. CASE pc[t] # "idle"
    <3>1. /\ charged[t] \in Nat /\ cost[t] \in Nat
          /\ attempt[t] \in Nat /\ attempt[t] + 1 <= MaxAttempts
      BY <2>2, AttemptsAssumption
         DEF IInv, TypeOK, LoopTypeOK, LedgerTypeOK, RoundsInOrder, Labels
    <3>2. PICK p \in Nat : p = cost[t] * Unit
      BY <3>1, BucketAssumption
    <3>3. charged[t] + 0 <= MaxAttempts * p
      BY <2>2, <3>1, <3>2, OneMorePrice, AttemptsAssumption DEF PaysInOrder
    <3> QED
      BY <3>1, <3>2, <3>3
  <2> QED
    BY <2>1, <2>2
<1> QED
  BY <1>1, <1>2, NextPays, Invariance, PTL DEF Spec

(* A truncated quotient and one more covers what was divided (l.74-75).    *)
LEMMA OneMoreCovers ==
  ASSUME NEW a \in Int, NEW d \in Nat \ {0}
  PROVE  a \div d \in Int /\ a <= ((a \div d) + 1) * d
OBVIOUS

(* The advised wait (token_bucket.rs l.74-75, limiter.rs l.14): a request  *)
(* no larger than the bucket is let in one millisecond after the wait it   *)
(* was told, if nobody else was decided meanwhile.                         *)
THEOREM WaitsEnough == Spec => []RetrySucceedsSoon
<1>1. IInv => RetrySucceedsSoon
  <2> SUFFICES ASSUME IInv, NEW t \in Tasks, reply[t].verdict = "denied",
                      reply[t].stamp = version, cost[t] * Unit <= Capacity
      PROVE  Evaluate(entry, now[t] + reply[t].wait + 1, cost[t]).allowed
    BY DEF RetrySucceedsSoon
  <2> DEFINE asked == cost[t] * Unit
             wait == reply[t].wait
             then == now[t] + wait + 1
             refill == Elapsed(entry.last, then) * Rate
  <2>1. /\ entry.tokens \in Nat /\ now[t] \in Nat /\ cost[t] \in Nat
        /\ entry.last = now[t]
        /\ wait = (asked - entry.tokens) \div Rate
    BY DEF IInv, TypeOK, LoopTypeOK, States, WaitsInOrder
  <2>2. asked \in Nat
    BY <2>1, BucketAssumption
  <2>3. asked <= Capacity
    OBVIOUS
  <2>4. ASSUME asked <= AtMost(entry.tokens + refill, Capacity)
        PROVE  Evaluate(entry, then, cost[t]).allowed
    BY <2>4 DEF Evaluate, Fits, Refilled
  <2> HIDE DEF asked
  <2>5. wait \in Int /\ asked - entry.tokens <= (wait + 1) * Rate
    <3>1. asked - entry.tokens \in Int
      BY <2>1, <2>2
    <3> HIDE DEF wait
    <3> QED
      BY <2>1, <3>1, OneMoreCovers, BucketAssumption
  <2> SUFFICES asked <= AtMost(entry.tokens + refill, Capacity)
    BY <2>4 DEF then, wait
  <2> HIDE DEF wait
  <2>6. CASE wait + 1 >= 0
    <3>1. Elapsed(entry.last, then) = wait + 1
      BY <2>1, <2>5, <2>6 DEF Elapsed
    <3>2. refill = (wait + 1) * Rate
      BY <3>1
    <3>3. refill \in Int
      BY <2>5, <3>2, BucketAssumption
    <3> HIDE DEF refill
    <3> QED
      BY <2>1, <2>2, <2>3, <2>5, <3>2, <3>3, BucketAssumption DEF AtMost
  <2>7. CASE wait + 1 < 0
    <3>1. (wait + 1) * Rate <= 0
      BY <2>5, <2>7, BucketAssumption
    <3>2. Elapsed(entry.last, then) = 0 /\ 0 * Rate = 0
      BY <2>1, <2>5, <2>7, BucketAssumption DEF Elapsed
    <3>3. refill = 0
      BY <3>2
    <3> HIDE DEF refill
    <3>4. asked <= entry.tokens + refill
      <4>1. (wait + 1) * Rate \in Int
        BY <2>5, BucketAssumption
      <4> QED
        BY <2>1, <2>2, <2>5, <3>1, <3>3, <4>1
    <3> QED
      BY <2>1, <2>2, <2>3, <3>3, <3>4, BucketAssumption DEF AtMost
  <2> QED
    BY <2>5, <2>6, <2>7
<1> QED
  BY <1>1, Invariance, PTL
(* The same of the bucket alone (token_bucket.rs l.68-79), for whoever     *)
(* runs it: what is denied now, and fits the bucket at all, is let in by   *)
(* the bucket as it was left at any time that is past the wait.            *)
THEOREM PastTheWait ==
  ASSUME NEW s \in States, NEW n \in Nat, NEW k \in Nat, NEW m \in Nat,
         ~Evaluate(s, n, k).allowed, k * Unit <= Capacity, m > n + Evaluate(s, n, k).wait
  PROVE  Evaluate(Evaluate(s, n, k).state, m, k).allowed
<1>1. PICK asked \in Nat : asked = k * Unit
  BY BucketAssumption
<1>2. PICK tokens \in Nat : tokens = Refilled(s, n)
  <2>1. PICK back \in Nat : back = Elapsed(s.last, n) * Rate
    <3>1. Elapsed(s.last, n) \in Nat
      BY DEF Elapsed, States
    <3> QED
      BY <3>1, BucketAssumption
  <2> QED
    BY <2>1, BucketAssumption DEF Refilled, AtMost, States
<1>3. ~(asked <= tokens) /\ asked <= Capacity
  BY <1>1, <1>2 DEF Evaluate, Fits
<1>4. Evaluate(s, n, k).state = [tokens |-> tokens, last |-> n]
      /\ Evaluate(s, n, k).wait = (asked - tokens) \div Rate
  BY <1>1, <1>2, <1>3 DEF Evaluate, Fits, TokensAfter, UntilRefilled
<1>5. PICK wait \in Int : wait = (asked - tokens) \div Rate /\ asked - tokens <= (wait + 1) * Rate
  <2>1. asked - tokens \in Int
    OBVIOUS
  <2> QED
    BY <2>1, OneMoreCovers, BucketAssumption
<1>6. wait >= 0
  <2>1. ASSUME wait < 0 PROVE (wait + 1) * Rate <= 0
    BY <2>1, BucketAssumption
  <2>2. (wait + 1) * Rate \in Int
    BY BucketAssumption
  <2> QED
    BY <1>3, <1>5, <2>1, <2>2
<1>7. PICK past \in Nat : past = m - n /\ past >= wait + 1 /\ Elapsed(n, m) = past
  BY <1>4, <1>5, <1>6 DEF Elapsed
<1>8. PICK refill \in Nat : refill = past * Rate
  BY <1>7, BucketAssumption
<1>9. (wait + 1) * Rate <= refill /\ (wait + 1) * Rate \in Int
  BY <1>5, <1>6, <1>7, <1>8, BucketAssumption
<1>10. asked <= tokens + refill
  BY <1>5, <1>9
<1>11. asked <= Refilled([tokens |-> tokens, last |-> n], m)
  BY <1>3, <1>7, <1>8, <1>10, BucketAssumption DEF Refilled, AtMost
<1> QED
  BY <1>1, <1>4, <1>11 DEF Evaluate, Fits
-----------------------------------------------------------------------------
(* The loop implements the one-step limiter.                               *)

(* Whoever writes judges what is stored, as of a reading that is timely    *)
(* (token_bucket.rs l.53-106): an absent key reads as a fresh state.        *)
LEMMA OutcomeIsJudgement ==
  ASSUME IInv, NEW t \in Tasks, Write(t, Outcome(t))
  PROVE  /\ Outcome(t) = Atomic!Judgement(t, now[t])
         /\ Atomic!Timely(t, now[t])
         /\ now[t] \in 0..clock
<1>1. pc[t] = "cas" /\ expected[t] = version
  BY DEF Write
<1>2. now[t] \in Nat /\ version \in Nat /\ clock \in Nat
  BY DEF IInv, TypeOK, LoopTypeOK
<1>3. snap[t] = IF version = 0 THEN Fresh(now[t]) ELSE entry
  BY <1>1, <1>2 DEF IInv, SnapshotsFaithful
<1>4. now[t] <= clock /\ start[t].clock <= now[t] + Drift
  BY <1>1 DEF IInv, RoundsInOrder
<1> QED
  BY <1>2, <1>3, <1>4 DEF Outcome, Atomic!Judgement, Atomic!Timely

(* A step of the loop, seen from outside, is a step of the atomic limiter  *)
(* or no step at all: get, the sleeps and the lost rounds are invisible.   *)
LEMMA StepRefines == IInv /\ [Next]_vars => [Atomic!Next]_(Atomic!vars)
<1> SUFFICES ASSUME IInv, [Next]_vars PROVE [Atomic!Next]_(Atomic!vars)
  OBVIOUS
<1> DEFINE open == [t \in Tasks |-> pc[t] # "idle"]
<1>0. pc \in [Tasks -> Labels]
  BY DEF IInv, TypeOK, LoopTypeOK
<1>1. ASSUME NEW t \in Tasks, NEW c \in Costs, Begin(t, c)
      PROVE  Atomic!Ask(t, c)
  <2>1. ~open[t] /\ open' = [open EXCEPT ![t] = TRUE]
    BY <1>0, <1>1 DEF Begin
  <2> QED
    BY <1>1, <2>1 DEF Begin, NoReply, Reply, Atomic!Ask, Atomic!NoReply, Atomic!Reply, store
<1>2. ASSUME NEW t \in Tasks, Get(t, Fresh(now[t]))
      PROVE  UNCHANGED Atomic!vars
  <2>1. open' = open
    BY <1>0, <1>2 DEF Get
  <2> QED
    BY <1>2, <2>1 DEF Get, Atomic!vars, store
<1>3. ASSUME NEW t \in Tasks, Commit(t, Outcome(t))
      PROVE  \E n \in 0..clock : Atomic!Decide(t, n)
  <2>1. open[t] /\ open' = [open EXCEPT ![t] = FALSE]
    BY <1>0, <1>3 DEF Commit, Write
  <2>2. PICK n \in 0..clock : n = now[t]
    BY <1>3, OutcomeIsJudgement DEF Commit
  <2>3. Outcome(t) = Atomic!Judgement(t, n) /\ Atomic!Timely(t, n)
    BY <1>3, <2>2, OutcomeIsJudgement DEF Commit
  <2>4. Atomic!Decide(t, n)
    BY <1>3, <2>1, <2>3 DEF Commit, Write, Answer, Reply, Atomic!Decide, Atomic!Charge,
                              Atomic!Answer, Atomic!Reply
  <2> QED
    BY <2>4
<1>4. ASSUME NEW t \in Tasks, CommitUnseen(t, Outcome(t))
      PROVE  \E n \in 0..clock : Atomic!DecideUnseen(t, n) \/ Atomic!DecideUnseenAndRefuse(t, n)
  <2>1. open[t]
    BY <1>4 DEF CommitUnseen, Write
  <2>2. PICK n \in 0..clock : n = now[t]
    BY <1>4, OutcomeIsJudgement DEF CommitUnseen
  <2>3. Outcome(t) = Atomic!Judgement(t, n) /\ Atomic!Timely(t, n)
    BY <1>4, <2>2, OutcomeIsJudgement DEF CommitUnseen
  <2>4. Atomic!Charge(t, n) /\ t \in Unreliable
    BY <1>4, <2>1, <2>3 DEF CommitUnseen, Write, LoseRound, Atomic!Charge
  <2>5. CASE attempt[t] + 1 < MaxAttempts
    <3>1. open' = open /\ UNCHANGED reply
      BY <1>0, <1>4, <2>5 DEF CommitUnseen, Write, LoseRound
    <3> QED
      BY <2>4, <3>1 DEF Atomic!DecideUnseen
  <2>6. CASE ~(attempt[t] + 1 < MaxAttempts)
    <3>1. /\ open' = [open EXCEPT ![t] = FALSE]
          /\ reply' = [reply EXCEPT ![t] = Contended(version + 1)]
      BY <1>0, <1>4, <2>6 DEF CommitUnseen, Write, LoseRound
    <3> QED
      BY <2>4, <3>1 DEF Atomic!DecideUnseenAndRefuse, Contended, Reply,
                        Atomic!Contended, Atomic!Reply
  <2> QED
    BY <2>5, <2>6
<1>5. ASSUME NEW t \in Tasks, Conflict(t)
      PROVE  Atomic!Refuse(t) \/ UNCHANGED Atomic!vars
  <2>1. CASE attempt[t] + 1 < MaxAttempts
    <3>1. open' = open
      BY <1>0, <1>5, <2>1 DEF Conflict, LoseRound
    <3> QED
      BY <1>5, <2>1, <3>1 DEF Conflict, LoseRound, Atomic!vars, store
  <2>2. CASE ~(attempt[t] + 1 < MaxAttempts)
    <3>1. open[t] /\ open' = [open EXCEPT ![t] = FALSE]
      BY <1>0, <1>5, <2>2 DEF Conflict, LoseRound
    <3>2. t \in Unreliable \/ start[t].version + MaxAttempts <= version
      BY <1>5, <2>2, LastRoundHasCause DEF IInv, TypeOK
    <3> QED
      BY <1>5, <2>2, <3>1, <3>2 DEF Conflict, LoseRound, Contended, Reply, Atomic!Refuse,
                                     Atomic!Contended, Atomic!Reply, store
  <2> QED
    BY <2>1, <2>2
<1>6. ASSUME NEW t \in Tasks, Wake(t)
      PROVE  UNCHANGED Atomic!vars
  <2>1. open' = open
    BY <1>0, <1>6 DEF Wake
  <2> QED
    BY <1>6, <2>1 DEF Wake, Atomic!vars, store
<1>7. ASSUME NEW t \in Tasks, Abandon(t)
      PROVE  Atomic!Drop(t)
  <2>1. open[t] /\ open' = [open EXCEPT ![t] = FALSE]
    BY <1>0, <1>7 DEF Abandon
  <2> QED
    BY <1>7, <2>1 DEF Abandon, Atomic!Drop, store
<1>8. ASSUME Tick
      PROVE  Atomic!Tick
  BY <1>8 DEF Tick, Atomic!Tick, store, local
<1>9. ASSUME UNCHANGED loopVars
      PROVE  UNCHANGED Atomic!vars
  BY <1>9 DEF loopVars, store, local, Atomic!vars
<1>10. CASE UNCHANGED vars
  BY <1>9, <1>10 DEF vars
<1>11. CASE Observe
  BY <1>9, <1>11 DEF Observe
<1>12. ASSUME NEW t \in Tasks
       PROVE  /\ Commit(t, Outcome(t)) => Atomic!Next
              /\ CommitUnseen(t, Outcome(t)) => Atomic!Next
              /\ Conflict(t) => Atomic!Next \/ UNCHANGED Atomic!vars
  BY <1>3, <1>4, <1>5 DEF Atomic!Next
<1> QED
  BY <1>1, <1>2, <1>6, <1>7, <1>8, <1>10, <1>11, <1>12 DEF Next, Atomic!Next

(* Every answer is the answer of a check that ran alone at one moment      *)
(* (token_bucket.rs l.53-106): the awaits between clock, get and cas        *)
(* cannot be told from outside.                                            *)
THEOREM Atomicity == Spec => ChecksAreAtomic
<1>1. Init => Atomic!Init
  BY DEF Init, LoopInit, NoReply, Reply, Atomic!Init, Atomic!NoReply, Atomic!Reply
<1> QED
  BY <1>1, Invariance, StepRefines, PTL DEF Spec, ChecksAreAtomic, Atomic!Spec
-----------------------------------------------------------------------------
\* What the key may hold at time n, and what that still lets in at once.
StoredAt(n) == {s \in States : s.last = n}
RoomOf(s) == s.tokens \div Unit

(* What Service asks of a limiter (its AlgorithmAssumption): at any one    *)
(* time, decisions take what they let in from a room that is the capacity   *)
(* at first (token_bucket.rs l.65-80).                                    *)
THEOREM TakesFromRoom ==
  ASSUME NEW n \in Nat
  PROVE  /\ Fresh(n) \in StoredAt(n) /\ RoomOf(Fresh(n)) <= Capacity \div Unit
         /\ \A s \in StoredAt(n) : RoomOf(s) \in Nat
         /\ \A s \in StoredAt(n), k \in Nat : LET out == Evaluate(s, n, k) IN
              /\ out.state \in StoredAt(n) /\ out.allowed \in BOOLEAN
              /\ out.remaining \in Int /\ out.wait \in Int
              /\ RoomOf(out.state) + (IF out.allowed THEN k ELSE 0) <= RoomOf(s)
<1>1. Fresh(n) \in StoredAt(n) /\ RoomOf(Fresh(n)) = Capacity \div Unit
  BY FreshIsState DEF StoredAt, RoomOf
<1>2. ASSUME NEW s \in StoredAt(n)
      PROVE  s \in States /\ s.tokens \in Nat /\ s.last = n /\ RoomOf(s) \in Nat
  <2>1. s \in States /\ s.tokens \in Nat /\ s.last = n
    BY DEF StoredAt, States
  <2> QED
    BY <2>1, QuotientSpan, BucketAssumption DEF RoomOf
<1>3. ASSUME NEW s \in StoredAt(n), NEW k \in Nat
      PROVE  LET out == Evaluate(s, n, k) IN
               /\ out.state \in StoredAt(n) /\ out.allowed \in BOOLEAN
               /\ out.remaining \in Int /\ out.wait \in Int
               /\ RoomOf(out.state) + (IF out.allowed THEN k ELSE 0) <= RoomOf(s)
  <2> DEFINE out == Evaluate(s, n, k)
  <2>1. /\ out.state \in States /\ out.state.last = n /\ out.allowed \in BOOLEAN
        /\ out.remaining \in Int /\ out.wait \in Int
        /\ (IF out.allowed THEN k * Unit ELSE 0) + out.state.tokens = Refilled(s, n)
        /\ Refilled(s, n) <= s.tokens + Rate * Elapsed(s.last, n)
    BY <1>2, EvaluateFacts
  <2> HIDE DEF out
  <2>2. Rate * Elapsed(s.last, n) = 0
    BY <1>2, BucketAssumption DEF Elapsed
  <2>3. PICK left \in Nat, held \in Nat : left = out.state.tokens /\ held = s.tokens
    BY <1>2, <2>1 DEF States
  <2>4. PICK g \in Nat : g = IF out.allowed THEN k ELSE 0
    OBVIOUS
  <2>5. PICK price \in Nat : price = g * Unit
    BY BucketAssumption
  <2>6. price = IF out.allowed THEN k * Unit ELSE 0
    BY <2>4, <2>5, BucketAssumption
  <2>7. left + price <= held
    BY <2>1, <2>2, <2>3, <2>6
  <2>8. (left \div Unit) + g <= held \div Unit
    BY <2>5, <2>7, TakenWhole, BucketAssumption
  <2>9. out.state \in StoredAt(n)
    BY <2>1 DEF StoredAt
  <2> QED
    BY <2>1, <2>3, <2>4, <2>8, <2>9 DEF RoomOf, out
<1>4. Capacity \div Unit \in Nat
  BY QuotientSpan, BucketAssumption
<1> QED
  BY <1>1, <1>2, <1>3, <1>4
=============================================================================
