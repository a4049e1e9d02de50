-------------------------- MODULE LeakyBucketProofs --------------------------
(***************************************************************************)
(* Proofs about the leaky-bucket limiter, for any number of tasks, any     *)
(* costs, capacity, leak rate, unit, clock drift and number of rounds.     *)
(***************************************************************************)
EXTENDS LeakyBucket, CheckLoopProofs

(* The capacity in units (leaky_bucket.rs l.49).                           *)
LEMMA CapIsNat == Cap \in Nat
BY QueueAssumption DEF Cap

(* A key that is absent reads as an empty queue (l.61-64).                 *)
LEMMA FreshIsState ==
  ASSUME NEW n \in Nat
  PROVE  Fresh(n) \in States
BY CapIsNat DEF Fresh, States

(* What has leaked never leaves less than nothing (l.68).                  *)
LEMMA LeakFacts ==
  ASSUME NEW s \in States, NEW n \in Int
  PROVE  /\ QueueAt(s, n) \in 0..Cap
         /\ Elapsed(s.last, n) * LeakRate \in Nat
         /\ QueueAt(s, n) = IF s.queue >= Elapsed(s.last, n) * LeakRate
                              THEN s.queue - Elapsed(s.last, n) * LeakRate ELSE 0
<1> DEFINE e == Elapsed(s.last, n)
           leak == e * LeakRate
<1>1. s.queue \in 0..Cap /\ s.last \in Nat
  BY DEF States
<1>2. e \in Nat
  BY <1>1 DEF Elapsed
<1> HIDE DEF e
<1>3. leak \in Nat
  BY <1>2, QueueAssumption
<1>4. QueueAt(s, n) = IF s.queue >= leak THEN s.queue - leak ELSE 0
  BY DEF QueueAt, Leaked, e
<1> HIDE DEF leak
<1>5. QueueAt(s, n) \in 0..Cap
  BY <1>1, <1>3, <1>4, CapIsNat
<1> QED
  BY <1>3, <1>4, <1>5 DEF leak, e

(* What an evaluation stores is a queue within the capacity (l.67-86).     *)
LEMMA EvaluateFacts ==
  ASSUME NEW s \in States, NEW n \in Nat, NEW c \in Nat
  PROVE  /\ c * Unit \in Nat
         /\ QueueWith(s, n, c) = QueueAt(s, n) + c * Unit
         /\ QueueAfter(s, n, c) \in 0..Cap
         /\ Evaluate(s, n, c).state = [queue |-> QueueAfter(s, n, c), last |-> n]
         /\ Evaluate(s, n, c).state \in States
         /\ Evaluate(s, n, c).allowed = Fits(s, n, c)
         /\ Evaluate(s, n, c).remaining \in Int
         /\ Evaluate(s, n, c).wait \in Int
<1> DEFINE asked == c * Unit
           held == QueueAt(s, n)
           with == QueueWith(s, n, c)
           after == QueueAfter(s, n, c)
<1>1. held \in 0..Cap /\ Cap \in Nat
  BY LeakFacts, CapIsNat
<1>2. asked \in Nat
  BY QueueAssumption
<1>3. with = held + asked
  BY DEF QueueWith
<1>4. after = IF with <= Cap THEN with ELSE held
  BY DEF QueueAfter, Fits
<1>5. /\ Evaluate(s, n, c).state = [queue |-> after, last |-> n]
      /\ Evaluate(s, n, c).allowed = Fits(s, n, c)
      /\ Evaluate(s, n, c).remaining = (Cap - after) \div Unit
      /\ Evaluate(s, n, c).wait = IF with <= Cap THEN 0 ELSE (with - Cap) \div LeakRate
  BY DEF Evaluate, Fits, UntilLeaked
<1> HIDE DEF asked, held, with, after
<1>6. with \in Nat /\ after \in 0..Cap
  BY <1>1, <1>2, <1>3, <1>4
<1>7. (Cap - after) \div Unit \in Int /\ (with - Cap) \div LeakRate \in Int
  BY <1>1, <1>6, QueueAssumption
<1>8. Evaluate(s, n, c).state \in States
  <2>1. [queue |-> after, last |-> n] \in States
    BY <1>6 DEF States
  <2> QED
    BY <2>1, <1>5
<1>9. Evaluate(s, n, c).remaining \in Int /\ Evaluate(s, n, c).wait \in Int
  BY <1>5, <1>7
<1> QED
  BY <1>2, <1>3, <1>5, <1>6, <1>8, <1>9 DEF asked, held, with, after

(* What a task computes from its snapshot (l.67-86).                       *)
LEMMA OutcomeTypes ==
  ASSUME TypeOK, NEW t \in Tasks
  PROVE  /\ now[t] \in Nat /\ cost[t] \in Nat /\ snap[t] \in States
         /\ Outcome(t).state \in States
         /\ Outcome(t).remaining \in Int
         /\ Outcome(t).wait \in Int
         /\ Price(t) \in Nat
<1>1. now[t] \in Nat /\ cost[t] \in Nat /\ snap[t] \in States
  BY DEF TypeOK, LoopTypeOK
<1> QED
  BY <1>1, EvaluateFacts DEF Outcome, Price

(* The account keeps its types when a write is booked.                     *)
LEMMA BookTypes ==
  ASSUME TypeOK, NEW t \in Tasks, NEW p \in Nat, Book(t, p)
  PROVE  LedgerTypeOK'
<1>1. now[t] \in Nat /\ entry.last \in Nat
  BY DEF TypeOK, LoopTypeOK, States
<1>2. Elapsed(now[t], entry.last) \in Nat
  BY <1>1 DEF Elapsed
<1>3. charged' \in [Tasks -> Nat]
  BY DEF TypeOK, LedgerTypeOK, Book
<1> QED
  BY <1>1, <1>2, <1>3 DEF TypeOK, LedgerTypeOK, Book

-----------------------------------------------------------------------------
(* The first state satisfies the inductive invariant.                      *)
LEMMA InitInvariant == Init => IInv
<1> SUFFICES ASSUME Init PROVE IInv
  OBVIOUS
<1>1. Fresh(0) \in States
  BY FreshIsState
<1>2. LoopTypeOK(States) /\ RoundsInOrder
  BY <1>1, LoopInitTypes, LoopInitOrder DEF Init
<1> QED
  BY <1>2 DEF IInv, TypeOK, Init, LedgerInit, LedgerTypeOK

(* Every step keeps the inductive invariant.                               *)
LEMMA NextInvariant == IInv /\ [Next]_vars => IInv'
<1> SUFFICES ASSUME IInv, [Next]_vars PROVE IInv'
  OBVIOUS
<1> USE DEF IInv, TypeOK
<1>0. ASSUME UNCHANGED ledger PROVE LedgerTypeOK'
  BY <1>0 DEF ledger, LedgerTypeOK
<1>1. ASSUME NEW t \in Tasks, NEW c \in Costs, Begin(t, c), OpenAccount(t)
      PROVE  IInv'
  <2>1. LedgerTypeOK'
    BY <1>1 DEF LedgerTypeOK, OpenAccount
  <2> QED
    BY <1>1, <2>1, BeginTypes, BeginOrder
<1>2. ASSUME NEW t \in Tasks, Get(t, Fresh(now[t])), UNCHANGED ledger
      PROVE  IInv'
  <2>1. Fresh(now[t]) \in States
    BY FreshIsState DEF LoopTypeOK
  <2> QED
    BY <1>0, <1>2, <2>1, GetTypes, GetOrder
<1>3. ASSUME NEW t \in Tasks, Commit(t, Outcome(t)), Book(t, Price(t))
      PROVE  IInv'
  BY <1>3, OutcomeTypes, BookTypes, CommitTypes, CommitOrder
<1>4. ASSUME NEW t \in Tasks, CommitUnseen(t, Outcome(t)), Book(t, Price(t))
      PROVE  IInv'
  BY <1>4, OutcomeTypes, BookTypes, CommitUnseenTypes, CommitUnseenOrder
<1>5. ASSUME NEW t \in Tasks, Conflict(t), UNCHANGED ledger
      PROVE  IInv'
  BY <1>0, <1>5, ConflictTypes, ConflictOrder
<1>6. ASSUME NEW t \in Tasks, Wake(t), UNCHANGED ledger
      PROVE  IInv'
  BY <1>0, <1>6, WakeTypes, WakeOrder
<1>7. ASSUME NEW t \in Tasks, Abandon(t), UNCHANGED ledger
      PROVE  IInv'
  BY <1>0, <1>7, AbandonTypes, AbandonOrder
<1>8. CASE Tick /\ UNCHANGED ledger
  BY <1>0, <1>8, TickTypes, TickOrder
<1>9. ASSUME UNCHANGED loopVars PROVE LoopTypeOK(States)' /\ RoundsInOrder'
  BY <1>9 DEF loopVars, store, local, LoopTypeOK, RoundsInOrder
<1>10. CASE Observe
  <2>1. entry.last \in Nat
    BY DEF LoopTypeOK, States
  <2>2. LedgerTypeOK'
    BY <1>10, <2>1 DEF Observe, LedgerTypeOK
  <2> QED
    BY <1>9, <1>10, <2>2 DEF Observe
<1>11. CASE UNCHANGED vars
  BY <1>0, <1>9, <1>11 DEF vars
<1> QED
  BY <1>1, <1>2, <1>3, <1>4, <1>5, <1>6, <1>7, <1>8, <1>10, <1>11 DEF Next

(* Types: in particular no interleaving makes the stored queue exceed its  *)
(* capacity or fall below zero (leaky_bucket.rs l.19-22, l.67-79).         *)
THEOREM Invariance == Spec => []IInv
<1> QED
  BY InitInvariant, NextInvariant, PTL DEF Spec

-----------------------------------------------------------------------------
(* An empty queue is a full bucket (l.64 against token_bucket.rs l.64).    *)
LEMMA FreshIsFull ==
  ASSUME NEW n \in Nat
  PROVE  Room(Fresh(n)) = TB!Fresh(n)
BY CapIsNat DEF Room, Fresh, TB!Fresh

(* What leaks out of the queue flows into the bucket, and neither goes     *)
(* beyond its end (l.67-68 against token_bucket.rs l.68-69).               *)
LEMMA RoomRefills ==
  ASSUME NEW s \in States, NEW n \in Int
  PROVE  TB!Refilled(Room(s), n) = Cap - QueueAt(s, n)
<1> DEFINE leak == Elapsed(s.last, n) * LeakRate
<1>1. s.queue \in 0..Cap /\ Cap \in Nat
  BY CapIsNat DEF States
<1>2. /\ leak \in Nat
      /\ QueueAt(s, n) = IF s.queue >= leak THEN s.queue - leak ELSE 0
  BY LeakFacts
<1>3. TB!Refilled(Room(s), n) =
        IF (Cap - s.queue) + leak <= Cap THEN (Cap - s.queue) + leak ELSE Cap
  BY DEF TB!Refilled, TB!AtMost, TB!Elapsed, Elapsed, Room
<1> HIDE DEF leak
<1> QED
  BY <1>1, <1>2, <1>3

(* A request finds room in the one if it finds tokens in the other (l.71). *)
LEMMA FitsAlike ==
  ASSUME NEW s \in States, NEW n \in Int, NEW c \in Nat
  PROVE  Fits(s, n, c) <=> TB!Fits(Room(s), n, c)
<1> DEFINE asked == c * Unit
           held == QueueAt(s, n)
           room == TB!Refilled(Room(s), n)
<1>1. held \in 0..Cap /\ Cap \in Nat /\ asked \in Nat /\ room = Cap - held
  BY LeakFacts, CapIsNat, RoomRefills, QueueAssumption
<1>2. (Fits(s, n, c) <=> held + asked <= Cap) /\ (TB!Fits(Room(s), n, c) <=> asked <= room)
  BY DEF Fits, QueueWith, TB!Fits
<1> HIDE DEF asked, held, room
<1> QED
  BY <1>1, <1>2

(* The two limiters judge alike (l.67-96 against token_bucket.rs l.68-100). *)
LEMMA JudgedAlike ==
  ASSUME NEW s \in States, NEW n \in Nat, NEW c \in Nat
  PROVE  LET mine == Evaluate(s, n, c)
             theirs == TB!Evaluate(Room(s), n, c)
         IN  /\ theirs.state = Room(mine.state)
             /\ theirs.allowed = mine.allowed
             /\ theirs.remaining = mine.remaining
             /\ theirs.wait = mine.wait
<1> DEFINE asked == c * Unit
           held == QueueAt(s, n)
           with == QueueWith(s, n, c)
           after == QueueAfter(s, n, c)
           fits == Fits(s, n, c)
           room == TB!Refilled(Room(s), n)
           left == TB!TokensAfter(Room(s), n, c)
           grants == TB!Fits(Room(s), n, c)
           mine == Evaluate(s, n, c)
           theirs == TB!Evaluate(Room(s), n, c)
<1>1. /\ held \in 0..Cap /\ Cap \in Nat /\ asked \in Nat
      /\ with = held + asked /\ room = Cap - held
  <2>1. n \in Int
    OBVIOUS
  <2>2. held \in 0..Cap /\ room = Cap - held
    BY <2>1, LeakFacts, RoomRefills
  <2> QED
    BY <2>2, CapIsNat, EvaluateFacts
<1>2. /\ fits \in BOOLEAN /\ (fits <=> with <= Cap)
      /\ after = IF fits THEN with ELSE held
  BY DEF Fits, QueueAfter
<1>3. /\ grants \in BOOLEAN /\ (grants <=> asked <= room)
      /\ left = IF grants THEN room - asked ELSE room
  BY DEF TB!Fits, TB!TokensAfter
<1>4. /\ mine.state.queue = after /\ mine.state.last = n
      /\ mine.allowed = fits
      /\ mine.remaining = (Cap - after) \div Unit
      /\ mine.wait = IF fits THEN 0 ELSE (with - Cap) \div LeakRate
  BY DEF Evaluate, UntilLeaked
<1>5. /\ theirs.state = [tokens |-> left, last |-> n]
      /\ theirs.allowed = grants
      /\ theirs.remaining = left \div Unit
      /\ theirs.wait = IF grants THEN 0 ELSE (asked - room) \div LeakRate
  BY DEF TB!Evaluate, TB!UntilRefilled
<1> HIDE DEF asked, held, with, after, fits, room, left, grants, mine, theirs
<1>6. fits <=> grants
  BY <1>1, <1>2, <1>3
<1>7. fits = grants
  BY <1>2, <1>3, <1>6
<1>8. left = Cap - after
  <2>1. CASE fits
    BY <2>1, <1>1, <1>2, <1>3, <1>6
  <2>2. CASE ~fits
    BY <2>2, <1>1, <1>2, <1>3, <1>6
  <2> QED
    BY <2>1, <2>2
<1>9. asked - room = with - Cap
  BY <1>1
<1>10. theirs.state = Room(mine.state)
  BY <1>4, <1>5, <1>8 DEF Room
<1> QED
  BY <1>4, <1>5, <1>7, <1>8, <1>9, <1>10 DEF mine, theirs

-----------------------------------------------------------------------------
(* What a task of the bucket computes is what the task of the queue does.  *)
LEMMA OutcomeAlike ==
  ASSUME IInv, NEW t \in Tasks
  PROVE  /\ TB!Outcome(t).state = Room(Outcome(t).state)
         /\ TB!Outcome(t).allowed = Outcome(t).allowed
         /\ TB!Outcome(t).remaining = Outcome(t).remaining
         /\ TB!Outcome(t).wait = Outcome(t).wait
         /\ TB!Price(t) = Price(t)
<1>1. now[t] \in Nat /\ cost[t] \in Nat /\ snap[t] \in States
  BY OutcomeTypes DEF IInv
<1>2. /\ TB!Outcome(t) = TB!Evaluate(Room(snap[t]), now[t], cost[t])
      /\ Outcome(t) = Evaluate(snap[t], now[t], cost[t])
  BY DEF TB!Outcome, Outcome
<1>3. /\ TB!Outcome(t).state = Room(Outcome(t).state)
      /\ TB!Outcome(t).allowed = Outcome(t).allowed
      /\ TB!Outcome(t).remaining = Outcome(t).remaining
      /\ TB!Outcome(t).wait = Outcome(t).wait
  BY <1>1, <1>2, JudgedAlike
<1>4. TB!Price(t) = Price(t)
  BY <1>3 DEF TB!Price, Price
<1> QED
  BY <1>3, <1>4

(* A round lost by the one is lost by the other.                           *)
LEMMA LoseRoundAlike ==
  ASSUME NEW t \in Tasks, NEW v, LoseRound(t, v)
  PROVE  TB!LoseRound(t, v)
BY DEF LoseRound, TB!LoseRound, Contended, TB!Contended, Reply, TB!Reply

(* The accounts are the same.                                              *)
LEMMA BookAlike ==
  ASSUME IInv, NEW t \in Tasks, Book(t, Price(t))
  PROVE  TB!Book(t, TB!Price(t))
<1>1. Room(entry).last = entry.last
  BY DEF Room
<1> QED
  BY <1>1, OutcomeAlike DEF Book, TB!Book, Elapsed, TB!Elapsed

(* A write of the queue is a write of the bucket.                          *)
LEMMA WriteAlike ==
  ASSUME IInv, NEW t \in Tasks, Write(t, Outcome(t))
  PROVE  TB!Write(t, TB!Outcome(t))
BY OutcomeAlike DEF Write, TB!Write

(* Every step of the queue is the step of that name of the bucket.         *)
LEMMA StepRefines == IInv /\ [Next]_vars => [TB!Next]_(TB!vars)
<1> SUFFICES ASSUME IInv, [Next]_vars PROVE [TB!Next]_(TB!vars)
  OBVIOUS
<1> DEFINE rooms == [u \in Tasks |-> Room(snap[u])]
<1>0. ASSUME UNCHANGED ledger PROVE UNCHANGED TB!ledger
  BY <1>0 DEF ledger, TB!ledger
<1>1. ASSUME NEW t \in Tasks, NEW c \in Costs, Begin(t, c), OpenAccount(t)
      PROVE  TB!Begin(t, c) /\ TB!OpenAccount(t)
  BY <1>1 DEF Begin, TB!Begin, OpenAccount, TB!OpenAccount, NoReply, TB!NoReply,
              Reply, TB!Reply, Readings, TB!Readings, store, TB!store
<1>2. ASSUME NEW t \in Tasks, Get(t, Fresh(now[t]))
      PROVE  TB!Get(t, TB!Fresh(now[t]))
  <2>1. now[t] \in Nat /\ snap \in [Tasks -> States]
    BY DEF IInv, TypeOK, LoopTypeOK
  <2>2. ASSUME NEW x, snap' = [snap EXCEPT ![t] = x]
        PROVE  rooms' = [rooms EXCEPT ![t] = Room(x)]
    BY <2>1, <2>2
  <2>3. Room(Fresh(now[t])) = TB!Fresh(now[t])
    BY <2>1, FreshIsFull
  <2> HIDE DEF rooms
  <2>4. \/ /\ version > 0
           /\ rooms' = [rooms EXCEPT ![t] = Room(entry)]
           /\ expected' = [expected EXCEPT ![t] = version]
        \/ /\ version = 0 \/ t \in Unreliable
           /\ rooms' = [rooms EXCEPT ![t] = TB!Fresh(now[t])]
           /\ expected' = [expected EXCEPT ![t] = 0]
    BY <1>2, <2>2, <2>3 DEF Get
  <2>5. /\ pc[t] = "get" /\ pc' = [pc EXCEPT ![t] = "cas"]
        /\ UNCHANGED <<clock, entry, version, attempt, now, cost, reply, start, served>>
    BY <1>2 DEF Get, store
  <2> QED
    BY <2>4, <2>5 DEF TB!Get, TB!store, rooms
<1>3. ASSUME NEW t \in Tasks, Commit(t, Outcome(t))
      PROVE  TB!Commit(t, TB!Outcome(t))
  <2>1. TB!Write(t, TB!Outcome(t))
    BY <1>3, WriteAlike DEF Commit
  <2>2. TB!Answer(TB!Outcome(t), version + 1) = Answer(Outcome(t), version + 1)
    BY OutcomeAlike DEF TB!Answer, Answer, TB!Reply, Reply
  <2> QED
    BY <1>3, <2>1, <2>2 DEF Commit, TB!Commit
<1>4. ASSUME NEW t \in Tasks, CommitUnseen(t, Outcome(t))
      PROVE  TB!CommitUnseen(t, TB!Outcome(t))
  BY <1>4, WriteAlike, LoseRoundAlike DEF CommitUnseen, TB!CommitUnseen
<1>5. ASSUME NEW t \in Tasks, Conflict(t)
      PROVE  TB!Conflict(t)
  BY <1>5, LoseRoundAlike DEF Conflict, TB!Conflict, store, TB!store
<1>6. ASSUME NEW t \in Tasks, Wake(t)
      PROVE  TB!Wake(t)
  BY <1>6 DEF Wake, TB!Wake, Readings, TB!Readings, store, TB!store
<1>7. ASSUME NEW t \in Tasks, Abandon(t)
      PROVE  TB!Abandon(t)
  BY <1>7 DEF Abandon, TB!Abandon, store, TB!store
<1>8. ASSUME Tick
      PROVE  TB!Tick
  BY <1>8 DEF Tick, TB!Tick, store, TB!store, local, TB!local
<1>9. ASSUME UNCHANGED loopVars
      PROVE  UNCHANGED TB!loopVars
  BY <1>9 DEF loopVars, TB!loopVars, store, TB!store, local, TB!local
<1>10. CASE Observe
  <2>1. Room(entry).last = entry.last
    BY DEF Room
  <2>2. TB!Observe
    BY <1>9, <1>10, <2>1 DEF Observe, TB!Observe
  <2> QED
    BY <2>2 DEF TB!Next
<1>11. CASE UNCHANGED vars
  BY <1>0, <1>9, <1>11 DEF vars, TB!vars
<1>12. ASSUME NEW t \in Tasks, NEW c \in Costs, Begin(t, c), OpenAccount(t)
       PROVE  TB!Next
  BY <1>1, <1>12 DEF TB!Next
<1>13. ASSUME NEW t \in Tasks,
              \/ Get(t, Fresh(now[t])) /\ UNCHANGED ledger
              \/ Commit(t, Outcome(t)) /\ Book(t, Price(t))
              \/ CommitUnseen(t, Outcome(t)) /\ Book(t, Price(t))
              \/ Conflict(t) /\ UNCHANGED ledger
              \/ Wake(t) /\ UNCHANGED ledger
              \/ Abandon(t) /\ UNCHANGED ledger
       PROVE  TB!Next
  BY <1>0, <1>2, <1>3, <1>4, <1>5, <1>6, <1>7, <1>13, BookAlike DEF TB!Next
<1> QED
  BY <1>0, <1>8, <1>10, <1>11, <1>12, <1>13 DEF Next, TB!Next

(* The leaky bucket is a token bucket (leaky_bucket.rs l.67-77 against     *)
(* token_bucket.rs l.68-77): whoever sees requests and answers only cannot *)
(* tell which of the two is configured, whatever races and is lost.        *)
THEOREM TokenBucketRefined == Spec => IsTokenBucket
<1>1. Init => TB!Init
  <2> SUFFICES ASSUME Init PROVE TB!Init
    OBVIOUS
  <2>1. Room(Fresh(0)) = TB!Fresh(0)
    BY FreshIsFull
  <2>2. TB!LoopInit(TB!Fresh(0))
    BY <2>1 DEF Init, LoopInit, TB!LoopInit, NoReply, TB!NoReply, Reply, TB!Reply
  <2> QED
    BY <2>2 DEF Init, LedgerInit, TB!Init, TB!LedgerInit
<1> QED
  BY <1>1, Invariance, StepRefines, PTL DEF Spec, IsTokenBucket, TB!Spec
-----------------------------------------------------------------------------
(* What is proved of the token bucket is proved of the queue.              *)
TBP == INSTANCE TokenBucketProofs
         WITH Capacity <- Cap, Rate <- LeakRate,
              entry <- Room(entry), snap <- [t \in Tasks |-> Room(snap[t])]

(* What the token bucket assumes of its constants, capacity and leak rate  *)
(* satisfy (leaky_bucket.rs l.25-27).                                      *)
LEMMA BucketConstants == TBP!BucketAssumption
BY CapIsNat, QueueAssumption DEF TBP!BucketAssumption

(* TBP only adds proofs to TB: the two compute the same outcomes.          *)
LEMMA SameOutcome ==
  ASSUME NEW t \in Tasks
  PROVE  TBP!Outcome(t) = TB!Outcome(t) /\ TBP!Price(t) = TB!Price(t)
<1>1. TBP!Outcome(t) = TB!Outcome(t)
  BY DEF TBP!Outcome, TB!Outcome, TBP!Evaluate, TB!Evaluate, TBP!TokensAfter, TB!TokensAfter,
         TBP!Refilled, TB!Refilled, TBP!Fits, TB!Fits, TBP!UntilRefilled, TB!UntilRefilled,
         TBP!AtMost, TB!AtMost, TBP!Elapsed, TB!Elapsed
<1> QED
  BY <1>1 DEF TBP!Price, TB!Price

(* And make the same steps.                                                *)
LEMMA SameStep == [TB!Next]_(TB!vars) => [TBP!Next]_(TBP!vars)
<1> SUFFICES ASSUME [TB!Next]_(TB!vars) PROVE [TBP!Next]_(TBP!vars)
  OBVIOUS
<1>0. ASSUME UNCHANGED TB!ledger PROVE UNCHANGED TBP!ledger
  BY <1>0 DEF TB!ledger, TBP!ledger
<1>1. ASSUME NEW t \in Tasks, NEW c \in Costs, TB!Begin(t, c), TB!OpenAccount(t)
      PROVE  TBP!Next
  <2>1. TBP!Begin(t, c) /\ TBP!OpenAccount(t)
    BY <1>1 DEF TBP!Begin, TB!Begin, TBP!OpenAccount, TB!OpenAccount, TBP!NoReply, TB!NoReply,
                TBP!Reply, TB!Reply, TBP!Readings, TB!Readings, TBP!store, TB!store
  <2> QED
    BY <2>1 DEF TBP!Next
<1>2. ASSUME NEW t \in Tasks, TB!Get(t, TB!Fresh(now[t]))
      PROVE  TBP!Get(t, TBP!Fresh(now[t]))
  BY <1>2 DEF TBP!Get, TB!Get, TBP!store, TB!store, TBP!Fresh, TB!Fresh
<1>3. ASSUME NEW t \in Tasks, NEW out, TB!Commit(t, out)
      PROVE  TBP!Commit(t, out)
  BY <1>3 DEF TBP!Commit, TB!Commit, TBP!Write, TB!Write, TBP!Answer, TB!Answer,
              TBP!Reply, TB!Reply
<1>4. ASSUME NEW t \in Tasks, NEW v, TB!LoseRound(t, v)
      PROVE  TBP!LoseRound(t, v)
  BY <1>4 DEF TBP!LoseRound, TB!LoseRound, TBP!Contended, TB!Contended, TBP!Reply, TB!Reply
<1>5. ASSUME NEW t \in Tasks, NEW out, TB!CommitUnseen(t, out)
      PROVE  TBP!CommitUnseen(t, out)
  BY <1>4, <1>5 DEF TBP!CommitUnseen, TB!CommitUnseen, TBP!Write, TB!Write
<1>6. ASSUME NEW t \in Tasks, TB!Conflict(t)
      PROVE  TBP!Conflict(t)
  BY <1>4, <1>6 DEF TBP!Conflict, TB!Conflict, TBP!store, TB!store
<1>7. ASSUME NEW t \in Tasks, TB!Wake(t) \/ TB!Abandon(t)
      PROVE  TBP!Wake(t) \/ TBP!Abandon(t)
  BY <1>7 DEF TBP!Wake, TB!Wake, TBP!Abandon, TB!Abandon, TBP!Readings, TB!Readings,
              TBP!store, TB!store
<1>8. ASSUME NEW t \in Tasks, NEW price, TB!Book(t, price)
      PROVE  TBP!Book(t, price)
  BY <1>8 DEF TBP!Book, TB!Book, TBP!Elapsed, TB!Elapsed
<1>9. CASE TB!Tick /\ UNCHANGED TB!ledger
  <2>1. TBP!Tick
    BY <1>9 DEF TBP!Tick, TB!Tick, TBP!store, TB!store, TBP!local, TB!local
  <2> QED
    BY <1>0, <1>9, <2>1 DEF TBP!Next
<1>10. CASE TB!Observe
  <2>1. TBP!Observe
    BY <1>10 DEF TBP!Observe, TB!Observe, TBP!loopVars, TB!loopVars, TBP!store, TB!store,
                 TBP!local, TB!local
  <2> QED
    BY <2>1 DEF TBP!Next
<1>11. CASE UNCHANGED TB!vars
  BY <1>11 DEF TBP!vars, TB!vars, TBP!loopVars, TB!loopVars, TBP!ledger, TB!ledger,
               TBP!store, TB!store, TBP!local, TB!local
<1>12. ASSUME NEW t \in Tasks,
              \/ TB!Get(t, TB!Fresh(now[t])) /\ UNCHANGED TB!ledger
              \/ TB!Commit(t, TB!Outcome(t)) /\ TB!Book(t, TB!Price(t))
              \/ TB!CommitUnseen(t, TB!Outcome(t)) /\ TB!Book(t, TB!Price(t))
              \/ TB!Conflict(t) /\ UNCHANGED TB!ledger
              \/ TB!Wake(t) /\ UNCHANGED TB!ledger
              \/ TB!Abandon(t) /\ UNCHANGED TB!ledger
       PROVE  TBP!Next
  BY <1>0, <1>2, <1>3, <1>5, <1>6, <1>7, <1>8, <1>12, SameOutcome DEF TBP!Next
<1> QED
  BY <1>1, <1>9, <1>10, <1>11, <1>12 DEF TB!Next

(* So the queue behaves as the token bucket its theorems are about.        *)
LEMMA BehavesAsBucket == Spec => TBP!Spec
<1>1. TB!Init => TBP!Init
  BY DEF TBP!Init, TB!Init, TBP!LoopInit, TB!LoopInit, TBP!LedgerInit, TB!LedgerInit,
         TBP!Fresh, TB!Fresh, TBP!NoReply, TB!NoReply, TBP!Reply, TB!Reply
<1> QED
  BY <1>1, SameStep, TokenBucketRefined, PTL DEF IsTokenBucket, TB!Spec, TBP!Spec

(* The drain of the queue (leaky_bucket.rs l.3-4): over any interval, what *)
(* is let in is still queued or leaked, whatever races and is lost.        *)
THEOREM RateKept == Spec => []RateBound
<1>1. TBP!Spec => []TBP!RateBound
  BY TBP!RateKept, BucketConstants, CostsAssumption, AttemptsAssumption, DriftAssumption,
     FaultAssumption, BoundsAssumption, PTL
<1>2. IInv /\ TBP!RateBound => RateBound
  <2> SUFFICES ASSUME IInv, TBP!RateBound, version > 0
               PROVE  /\ entry.queue <= Cap
                      /\ granted <= entry.queue + LeakRate * (entry.last - base + rewound)
    BY DEF RateBound
  <2> DEFINE leaked == LeakRate * (entry.last - base + rewound)
  <2>1. /\ entry.queue \in 0..Cap /\ granted \in Nat /\ Cap \in Nat
        /\ entry.last - base + rewound \in Int
    BY CapIsNat DEF IInv, TypeOK, LoopTypeOK, LedgerTypeOK, States
  <2>2. leaked \in Int
    BY <2>1, QueueAssumption
  <2>3. granted + (Cap - entry.queue) <= Cap + leaked
    BY DEF TBP!RateBound, Room
  <2> HIDE DEF leaked
  <2>4. granted <= entry.queue + leaked
    BY <2>1, <2>2, <2>3
  <2> QED
    BY <2>1, <2>4 DEF leaked
<1> QED
  BY <1>1, <1>2, Invariance, BehavesAsBucket, PTL

(* What a caller is told and what is queued for it agree (l.79-96), if its *)
(* calls are answered, whatever happens to the calls of the others.        *)
THEOREM PaidAsAnswered == Spec => []ReliablyCharged
<1>1. TBP!Spec => []TBP!ReliablyCharged
  BY TBP!PaidAsAnswered, BucketConstants, CostsAssumption, AttemptsAssumption, DriftAssumption,
     FaultAssumption, BoundsAssumption, PTL
<1>2. TBP!ReliablyCharged => ReliablyCharged
  BY DEF ReliablyCharged, TB!ReliablyCharged, TBP!ReliablyCharged,
         TB!PaysAsAnswered, TBP!PaysAsAnswered
<1> QED
  BY <1>1, <1>2, BehavesAsBucket, PTL

(* The advised wait (l.73-76): a millisecond beyond it the queue has room, *)
(* if nobody else was decided meanwhile; truncation costs no more.         *)
THEOREM WaitsEnough == Spec => []RetrySucceedsSoon
<1>1. TBP!Spec => []TBP!RetrySucceedsSoon
  BY TBP!WaitsEnough, BucketConstants, CostsAssumption, AttemptsAssumption,
     DriftAssumption, FaultAssumption, BoundsAssumption, PTL
<1>2. IInv /\ TBP!RetrySucceedsSoon => RetrySucceedsSoon
  <2> SUFFICES ASSUME IInv, TBP!RetrySucceedsSoon, NEW t \in Tasks,
                      reply[t].verdict = "denied", reply[t].stamp = version,
                      cost[t] * Unit <= Cap
               PROVE  Evaluate(entry, now[t] + reply[t].wait + 1, cost[t]).allowed
    BY DEF RetrySucceedsSoon
  <2> DEFINE then == now[t] + reply[t].wait + 1
  <2>1. entry \in States /\ now[t] \in Nat /\ cost[t] \in Nat
    BY DEF IInv, TypeOK, LoopTypeOK
  <2>2. then \in Int
    BY DEF IInv, TypeOK, LoopTypeOK, Replies
  <2>3. TBP!Evaluate(Room(entry), then, cost[t]).allowed
    BY DEF TBP!RetrySucceedsSoon
  <2>4. TB!Fits(Room(entry), then, cost[t])
    BY <2>3 DEF TBP!Evaluate, TBP!Fits, TB!Fits, TBP!Refilled, TB!Refilled,
                TBP!AtMost, TB!AtMost, TBP!Elapsed, TB!Elapsed
  <2> HIDE DEF then
  <2>5. Fits(entry, then, cost[t])
    BY <2>1, <2>2, <2>4, FitsAlike
  <2>6. Evaluate(entry, then, cost[t]).allowed
    BY <2>5 DEF Evaluate
  <2> QED
    BY <2>6 DEF then
<1> QED
  BY <1>1, <1>2, Invariance, BehavesAsBucket, PTL

(* What a round that is about to write has read is what is stored, unless  *)
(* another task wrote meanwhile, and an absent key reads as an empty queue *)
(* (l.57-65): the bucket's rounds do (TokenBucket), and no two queues have *)
(* the same room.                                                          *)
ReadsFaithful ==
  \A t \in Tasks : pc[t] = "cas" =>
    /\ expected[t] = 0 => snap[t] = Fresh(now[t])
    /\ expected[t] = version /\ version > 0 => snap[t] = entry

(* A queue is known from its room.                                         *)
LEMMA RoomTells ==
  ASSUME NEW r \in States, NEW s \in States, Room(r) = Room(s)
  PROVE  r = s
<1>1. r.queue \in 0..Cap /\ s.queue \in 0..Cap /\ Cap \in Nat
  BY CapIsNat DEF States
<1>2. Cap - r.queue = Cap - s.queue /\ r.last = s.last
  BY DEF Room
<1>3. r.queue = s.queue
  BY <1>1, <1>2
<1> QED
  BY <1>2, <1>3 DEF States

(* What the rounds read is true at any time.                               *)
LEMMA ReadsStayFaithful == Spec => []ReadsFaithful
<1>1. TBP!Spec => []TBP!IInv
  BY TBP!Invariance, BucketConstants, CostsAssumption, AttemptsAssumption, DriftAssumption,
     FaultAssumption, BoundsAssumption, PTL
<1>2. IInv /\ TBP!IInv => ReadsFaithful
  <2> SUFFICES ASSUME IInv, TBP!IInv, NEW t \in Tasks, pc[t] = "cas"
               PROVE  /\ expected[t] = 0 => snap[t] = Fresh(now[t])
                      /\ expected[t] = version /\ version > 0 => snap[t] = entry
    BY DEF ReadsFaithful
  <2>1. entry \in States /\ snap[t] \in States /\ now[t] \in Nat
    BY DEF IInv, TypeOK, LoopTypeOK
  <2>2. /\ expected[t] = 0 => Room(snap[t]) = TBP!Fresh(now[t])
        /\ expected[t] = version /\ version > 0 => Room(snap[t]) = Room(entry)
    BY DEF TBP!IInv, TBP!SnapshotsFaithful
  <2>3. TBP!Fresh(now[t]) = Room(Fresh(now[t])) /\ Fresh(now[t]) \in States
    BY <2>1, FreshIsState, FreshIsFull DEF TBP!Fresh, TB!Fresh
  <2> QED
    BY <2>1, <2>2, <2>3, RoomTells
<1> QED
  BY <1>1, <1>2, Invariance, BehavesAsBucket, PTL

(* Whoever writes judges the queue that is stored, as of a reading that is *)
(* timely: an absent key reads as an empty queue (leaky_bucket.rs l.52-79). *)
LEMMA OutcomeIsJudgement ==
  ASSUME IInv, ReadsFaithful, NEW t \in Tasks, Write(t, Outcome(t))
  PROVE  /\ Outcome(t) = Atomic!Judgement(t, now[t])
         /\ Atomic!Timely(t, now[t])
         /\ now[t] \in 0..clock
<1>1. pc[t] = "cas" /\ expected[t] = version
  BY DEF Write
<1>2. now[t] \in Nat /\ version \in Nat /\ clock \in Nat
  BY DEF IInv, TypeOK, LoopTypeOK
<1>3. snap[t] = IF version = 0 THEN Fresh(now[t]) ELSE entry
  BY <1>1, <1>2 DEF ReadsFaithful
<1>4. now[t] <= clock /\ start[t].clock <= now[t] + Drift
  BY <1>1 DEF IInv, RoundsInOrder
<1> QED
  BY <1>2, <1>3, <1>4 DEF Outcome, Atomic!Judgement, Atomic!Timely

(* A step of the loop, seen from outside, is a step of the atomic limiter  *)
(* or no step at all: get, the sleeps and the lost rounds are invisible.   *)
LEMMA StepIsAtomic == IInv /\ ReadsFaithful /\ [Next]_vars => [Atomic!Next]_(Atomic!vars)
<1> SUFFICES ASSUME IInv, ReadsFaithful, [Next]_vars PROVE [Atomic!Next]_(Atomic!vars)
  OBVIOUS
<1> DEFINE open == [t \in Tasks |-> pc[t] # "idle"]
<1>0. pc \in [Tasks -> Labels]
  BY DEF IInv, TypeOK, LoopTypeOK
<1>1. ASSUME NEW t \in Tasks, NEW c \in Costs, Begin(t, c)
      PROVE  Atomic!Ask(t, c)
  <2>1. ~open[t] /\ open' = [open EXCEPT ![t] = TRUE]
    BY <1>0, <1>1 DEF Begin
  <2> QED
    BY <1>1, <2>1 DEF Begin, NoReply, Reply, Atomic!Ask, Atomic!NoReply, Atomic!Reply, store
<1>2. ASSUME NEW t \in Tasks, Get(t, Fresh(now[t]))
      PROVE  UNCHANGED Atomic!vars
  <2>1. open' = open
    BY <1>0, <1>2 DEF Get
  <2> QED
    BY <1>2, <2>1 DEF Get, Atomic!vars, store
<1>3. ASSUME NEW t \in Tasks, Commit(t, Outcome(t))
      PROVE  \E n \in 0..clock : Atomic!Decide(t, n)
  <2>1. open[t] /\ open' = [open EXCEPT ![t] = FALSE]
    BY <1>0, <1>3 DEF Commit, Write
  <2>2. PICK n \in 0..clock : n = now[t]
    BY <1>3, OutcomeIsJudgement DEF Commit
  <2>3. Outcome(t) = Atomic!Judgement(t, n) /\ Atomic!Timely(t, n)
    BY <1>3, <2>2, OutcomeIsJudgement DEF Commit
  <2>4. Atomic!Decide(t, n)
    BY <1>3, <2>1, <2>3 DEF Commit, Write, Answer, Reply, Atomic!Decide, Atomic!Charge,
                              Atomic!Answer, Atomic!Reply
  <2> QED
    BY <2>4
<1>4. ASSUME NEW t \in Tasks, CommitUnseen(t, Outcome(t))
      PROVE  \E n \in 0..clock : Atomic!DecideUnseen(t, n) \/ Atomic!DecideUnseenAndRefuse(t, n)
  <2>1. open[t]
    BY <1>4 DEF CommitUnseen, Write
  <2>2. PICK n \in 0..clock : n = now[t]
    BY <1>4, OutcomeIsJudgement DEF CommitUnseen
  <2>3. Outcome(t) = Atomic!Judgement(t, n) /\ Atomic!Timely(t, n)
    BY <1>4, <2>2, OutcomeIsJudgement DEF CommitUnseen
  <2>4. Atomic!Charge(t, n) /\ t \in Unreliable
    BY <1>4, <2>1, <2>3 DEF CommitUnseen, Write, LoseRound, Atomic!Charge
  <2>5. CASE attempt[t] + 1 < MaxAttempts
    <3>1. open' = open /\ UNCHANGED reply
      BY <1>0, <1>4, <2>5 DEF CommitUnseen, Write, LoseRound
    <3> QED
      BY <2>4, <3>1 DEF Atomic!DecideUnseen
  <2>6. CASE ~(attempt[t] + 1 < MaxAttempts)
    <3>1. /\ open' = [open EXCEPT ![t] = FALSE]
          /\ reply' = [reply EXCEPT ![t] = Contended(version + 1)]
      BY <1>0, <1>4, <2>6 DEF CommitUnseen, Write, LoseRound
    <3> QED
      BY <2>4, <3>1 DEF Atomic!DecideUnseenAndRefuse, Contended, Reply,
                        Atomic!Contended, Atomic!Reply
  <2> QED
    BY <2>5, <2>6
<1>5. ASSUME NEW t \in Tasks, Conflict(t)
      PROVE  Atomic!Refuse(t) \/ UNCHANGED Atomic!vars
  <2>1. CASE attempt[t] + 1 < MaxAttempts
    <3>1. open' = open
      BY <1>0, <1>5, <2>1 DEF Conflict, LoseRound
    <3> QED
      BY <1>5, <2>1, <3>1 DEF Conflict, LoseRound, Atomic!vars, store
  <2>2. CASE ~(attempt[t] + 1 < MaxAttempts)
    <3>1. open[t] /\ open' = [open EXCEPT ![t] = FALSE]
      BY <1>0, <1>5, <2>2 DEF Conflict, LoseRound
    <3>2. t \in Unreliable \/ start[t].version + MaxAttempts <= version
      BY <1>5, <2>2, LastRoundHasCause DEF IInv, TypeOK
    <3> QED
      BY <1>5, <2>2, <3>1, <3>2 DEF Conflict, LoseRound, Contended, Reply, Atomic!Refuse,
                                     Atomic!Contended, Atomic!Reply, store
  <2> QED
    BY <2>1, <2>2
<1>6. ASSUME NEW t \in Tasks, Wake(t)
      PROVE  UNCHANGED Atomic!vars
  <2>1. open' = open
    BY <1>0, <1>6 DEF Wake
  <2> QED
    BY <1>6, <2>1 DEF Wake, Atomic!vars, store
<1>7. ASSUME NEW t \in Tasks, Abandon(t)
      PROVE  Atomic!Drop(t)
  <2>1. open[t] /\ open' = [open EXCEPT ![t] = FALSE]
    BY <1>0, <1>7 DEF Abandon
  <2> QED
    BY <1>7, <2>1 DEF Abandon, Atomic!Drop, store
<1>8. ASSUME Tick
      PROVE  Atomic!Tick
  BY <1>8 DEF Tick, Atomic!Tick, store, local
<1>9. ASSUME UNCHANGED loopVars
      PROVE  UNCHANGED Atomic!vars
  BY <1>9 DEF loopVars, store, local, Atomic!vars
<1>10. CASE UNCHANGED vars
  BY <1>9, <1>10 DEF vars
<1>11. CASE Observe
  BY <1>9, <1>11 DEF Observe
<1>12. ASSUME NEW t \in Tasks
       PROVE  /\ Commit(t, Outcome(t)) => Atomic!Next
              /\ CommitUnseen(t, Outcome(t)) => Atomic!Next
              /\ Conflict(t) => Atomic!Next \/ UNCHANGED Atomic!vars
  BY <1>3, <1>4, <1>5 DEF Atomic!Next
<1> QED
  BY <1>1, <1>2, <1>6, <1>7, <1>8, <1>10, <1>11, <1>12 DEF Next, Atomic!Next

(* Every answer is the answer of a check that ran alone at one moment      *)
(* (leaky_bucket.rs l.52-101): the awaits between clock, get and cas       *)
(* cannot be told from outside.                                            *)
THEOREM Atomicity == Spec => ChecksAreAtomic
<1>1. Init => Atomic!Init
  BY DEF Init, LoopInit, NoReply, Reply, Atomic!Init, Atomic!NoReply, Atomic!Reply
<1> QED
  BY <1>1, Invariance, ReadsStayFaithful, StepIsAtomic, PTL
     DEF Spec, ChecksAreAtomic, Atomic!Spec

-----------------------------------------------------------------------------
\* What the key may hold at time n, and what that still lets in at once.
StoredAt(n) == {s \in States : s.last = n}
RoomOf(s) == (Cap - s.queue) \div Unit

(* What Service asks of a limiter (its AlgorithmAssumption): at any one    *)
(* time, decisions take what they let in from a room that is the capacity   *)
(* at first (leaky_bucket.rs l.64-80).                                    *)
THEOREM TakesFromRoom ==
  ASSUME NEW n \in Nat
  PROVE  /\ Fresh(n) \in StoredAt(n) /\ RoomOf(Fresh(n)) <= QueueCapacity
         /\ \A s \in StoredAt(n) : RoomOf(s) \in Nat
         /\ \A s \in StoredAt(n), k \in Nat : LET out == Evaluate(s, n, k) IN
              /\ out.state \in StoredAt(n) /\ out.allowed \in BOOLEAN
              /\ out.remaining \in Int /\ out.wait \in Int
              /\ RoomOf(out.state) + (IF out.allowed THEN k ELSE 0) <= RoomOf(s)
<1>1. Fresh(n) \in StoredAt(n) /\ RoomOf(Fresh(n)) = QueueCapacity
  <2>1. Fresh(n) \in StoredAt(n) /\ Fresh(n).queue = 0
    BY FreshIsState DEF StoredAt, Fresh
  <2>2. Cap \in Nat /\ Cap - 0 = Cap /\ Cap = QueueCapacity * Unit + 0 /\ 0 \in 0..(Unit - 1)
    BY CapIsNat, QueueAssumption DEF Cap
  <2>3. Cap \div Unit = QueueCapacity
    BY <2>2, QuotientOf, QueueAssumption
  <2> QED
    BY <2>1, <2>2, <2>3 DEF RoomOf
<1>2. ASSUME NEW s \in StoredAt(n)
      PROVE  /\ s \in States /\ s.queue \in 0..Cap /\ s.last = n
             /\ Cap - s.queue \in Nat /\ RoomOf(s) \in Nat
  <2>1. s \in States /\ s.queue \in 0..Cap /\ s.last = n
    BY DEF StoredAt, States
  <2>2. Cap - s.queue \in Nat
    BY <2>1, CapIsNat
  <2> QED
    BY <2>1, <2>2, QuotientSpan, QueueAssumption DEF RoomOf
<1>3. ASSUME NEW s \in StoredAt(n), NEW k \in Nat
      PROVE  LET out == Evaluate(s, n, k) IN
               /\ out.state \in StoredAt(n) /\ out.allowed \in BOOLEAN
               /\ out.remaining \in Int /\ out.wait \in Int
               /\ RoomOf(out.state) + (IF out.allowed THEN k ELSE 0) <= RoomOf(s)
  <2> DEFINE out == Evaluate(s, n, k)
  <2>1. /\ out.state \in States /\ out.allowed = Fits(s, n, k)
        /\ out.state = [queue |-> QueueAfter(s, n, k), last |-> n]
        /\ out.remaining \in Int /\ out.wait \in Int
        /\ QueueWith(s, n, k) = QueueAt(s, n) + k * Unit
    <3>1. s \in States
      BY <1>2
    <3> QED
      BY <3>1, EvaluateFacts
  <2> HIDE DEF out
  <2>2. QueueAt(s, n) = s.queue
    BY <1>2, QueueAssumption, LeakFacts DEF Elapsed
  <2>3. PICK free \in Nat : free = Cap - s.queue
    BY <1>2
  <2>4. PICK g \in Nat : g = IF out.allowed THEN k ELSE 0
    OBVIOUS
  <2>5. PICK price \in Nat : price = g * Unit
    BY QueueAssumption
  <2>6. QueueAfter(s, n, k) = s.queue + price
    <3>1. CASE Fits(s, n, k)
      <4>1. price = k * Unit
        BY <2>1, <2>4, <2>5, <3>1
      <4> QED
        BY <2>1, <2>2, <3>1, <4>1 DEF QueueAfter
    <3>2. CASE ~Fits(s, n, k)
      <4>1. price = 0
        BY <2>1, <2>4, <2>5, <3>2, QueueAssumption
      <4> QED
        BY <1>2, <2>2, <3>2, <4>1 DEF QueueAfter
    <3> QED
      BY <3>1, <3>2
  <2>7. PICK left \in Nat : left = Cap - out.state.queue
    BY <2>1, CapIsNat DEF States
  <2>8. left + price <= free
    BY <1>2, <2>1, <2>3, <2>6, <2>7, CapIsNat
  <2>9. (left \div Unit) + g <= free \div Unit
    BY <2>5, <2>8, TakenWhole, QueueAssumption
  <2>10. out.state \in StoredAt(n) /\ out.allowed \in BOOLEAN
    BY <2>1 DEF StoredAt, Fits
  <2> QED
    BY <2>1, <2>3, <2>4, <2>7, <2>9, <2>10 DEF RoomOf, out
<1> QED
  BY <1>1, <1>2, <1>3, QueueAssumption
=============================================================================
