--------------------------- MODULE CheckLoopProofs ---------------------------
(***************************************************************************)
(* What every action of the check loop preserves, whatever limiter runs    *)
(* it: the types of the loop's variables and the order of its rounds.      *)
(***************************************************************************)
EXTENDS CheckLoop, TLAPS

(* The loop's part of a type invariant survives each step of a task, given *)
(* that the states a limiter computes are states it stores: `fresh' for    *)
(* l.60-65 of fixed_window.rs, `out' for l.69-78.                          *)
LEMMA LoopInitTypes ==
  ASSUME NEW S, NEW nothing \in S, LoopInit(nothing)
  PROVE  LoopTypeOK(S)
BY AttemptsAssumption DEF LoopInit, LoopTypeOK, Labels, Replies, NoReply, Reply, Verdicts

(* Begin of CheckLoop: a request arrives (check() of any limiter, l.46).   *)
LEMMA BeginTypes ==
  ASSUME NEW S, NEW t \in Tasks, NEW c \in Costs, LoopTypeOK(S), Begin(t, c)
  PROVE  LoopTypeOK(S)'
BY CostsAssumption, AttemptsAssumption
   DEF LoopTypeOK, Begin, Readings, Labels, Replies, NoReply, Reply, Verdicts, store

(* Wake of CheckLoop: the sleep of fixed_window.rs l.51-53 ends.           *)
LEMMA WakeTypes ==
  ASSUME NEW S, NEW t \in Tasks, LoopTypeOK(S), Wake(t)
  PROVE  LoopTypeOK(S)'
BY DEF LoopTypeOK, Wake, Readings, Labels, store

(* Get of CheckLoop: the store answers (fixed_window.rs l.58-65).          *)
LEMMA GetTypes ==
  ASSUME NEW S, NEW t \in Tasks, NEW fresh \in S, LoopTypeOK(S), Get(t, fresh)
  PROVE  LoopTypeOK(S)'
<1>1. snap' \in [Tasks -> S] /\ expected' \in [Tasks -> Nat]
  <2>1. CASE snap' = [snap EXCEPT ![t] = entry] /\ expected' = [expected EXCEPT ![t] = version]
    BY <2>1 DEF LoopTypeOK
  <2>2. CASE snap' = [snap EXCEPT ![t] = fresh] /\ expected' = [expected EXCEPT ![t] = 0]
    BY <2>2 DEF LoopTypeOK
  <2> QED
    BY <2>1, <2>2 DEF Get
<1>2. pc' \in [Tasks -> Labels]
  BY DEF LoopTypeOK, Get, Labels
<1> QED
  BY <1>1, <1>2 DEF LoopTypeOK, Get, store

(* Commit of CheckLoop: the cas succeeds (fixed_window.rs l.80-95).        *)
LEMMA CommitTypes ==
  ASSUME NEW S, NEW t \in Tasks, NEW out, LoopTypeOK(S), Commit(t, out),
         out.state \in S, out.remaining \in Int, out.wait \in Int
  PROVE  LoopTypeOK(S)'
BY DEF LoopTypeOK, Commit, Write, Answer, Labels, Replies, Reply, Verdicts, store

(* LoseRound of CheckLoop: the round counter stays within the loop's bound *)
(* (fixed_window.rs l.50), given that a round is only lost in the loop.    *)
LEMMA LoseRoundTypes ==
  ASSUME NEW t \in Tasks, NEW v \in Nat, LoseRound(t, v),
         attempt \in [Tasks -> 0..MaxAttempts], attempt[t] < MaxAttempts,
         pc \in [Tasks -> Labels], reply \in [Tasks -> Replies]
  PROVE  /\ attempt' \in [Tasks -> 0..MaxAttempts]
         /\ pc' \in [Tasks -> Labels]
         /\ reply' \in [Tasks -> Replies]
<1>1. attempt[t] + 1 \in 0..MaxAttempts
  BY AttemptsAssumption
<1>2. Contended(v) \in Replies
  BY DEF Contended, Replies, Reply, Verdicts
<1> QED
  BY <1>1, <1>2 DEF LoseRound, Labels

(* Conflict of CheckLoop: the cas fails (fixed_window.rs l.80, local.rs l.58-61). *)
LEMMA ConflictTypes ==
  ASSUME NEW S, NEW t \in Tasks, LoopTypeOK(S), RoundsInOrder, Conflict(t)
  PROVE  LoopTypeOK(S)'
<1>1. version \in Nat /\ attempt[t] < MaxAttempts
  BY DEF LoopTypeOK, RoundsInOrder, Conflict
<1> QED
  BY <1>1, LoseRoundTypes DEF LoopTypeOK, Conflict, LoseRound, store

(* CommitUnseen of CheckLoop: the write is applied, its answer lost (etcd.rs l.70-79). *)
LEMMA CommitUnseenTypes ==
  ASSUME NEW S, NEW t \in Tasks, NEW out, LoopTypeOK(S), RoundsInOrder,
         CommitUnseen(t, out), out.state \in S
  PROVE  LoopTypeOK(S)'
<1>1. version + 1 \in Nat /\ attempt[t] < MaxAttempts
  BY DEF LoopTypeOK, RoundsInOrder, CommitUnseen, Write
<1> QED
  BY <1>1, LoseRoundTypes DEF LoopTypeOK, CommitUnseen, Write, LoseRound

(* Abandon and Tick of CheckLoop: a handler is dropped, time passes.       *)
LEMMA AbandonTypes ==
  ASSUME NEW S, NEW t \in Tasks, LoopTypeOK(S), Abandon(t)
  PROVE  LoopTypeOK(S)'
BY DEF LoopTypeOK, Abandon, Labels, store

LEMMA TickTypes ==
  ASSUME NEW S, LoopTypeOK(S), Tick
  PROVE  LoopTypeOK(S)'
BY DEF LoopTypeOK, Tick, store, local

-----------------------------------------------------------------------------
(* The order of the rounds survives each step: a reading is never older    *)
(* than the check by more than Drift, and a reliable store makes a task    *)
(* lose a round only to another writer (fixed_window.rs l.50-65, l.80).    *)
LEMMA LoopInitOrder ==
  ASSUME NEW nothing, LoopInit(nothing)
  PROVE  RoundsInOrder
BY AttemptsAssumption, DriftAssumption DEF LoopInit, RoundsInOrder

(* A check begins with its own reading and no lost round (l.50-55).        *)
LEMMA BeginOrder ==
  ASSUME NEW S, NEW t \in Tasks, NEW c \in Costs,
         LoopTypeOK(S), RoundsInOrder, Begin(t, c)
  PROVE  RoundsInOrder'
BY AttemptsAssumption, DriftAssumption
   DEF RoundsInOrder, LoopTypeOK, Begin, Readings, Labels, store

(* A later round reads the clock later (l.55).                             *)
LEMMA WakeOrder ==
  ASSUME NEW S, NEW t \in Tasks, LoopTypeOK(S), RoundsInOrder, Wake(t)
  PROVE  RoundsInOrder'
BY AttemptsAssumption, DriftAssumption
   DEF RoundsInOrder, LoopTypeOK, Wake, Readings, Labels, store

(* The version a round expects is the one it read (l.58-65).               *)
LEMMA GetOrder ==
  ASSUME NEW S, NEW t \in Tasks, NEW fresh, LoopTypeOK(S), RoundsInOrder, Get(t, fresh)
  PROVE  RoundsInOrder'
BY DEF RoundsInOrder, LoopTypeOK, Get, Labels, store

(* A successful cas moves the version and ends the check (l.80-95).        *)
LEMMA CommitOrder ==
  ASSUME NEW S, NEW t \in Tasks, NEW out, LoopTypeOK(S), RoundsInOrder, Commit(t, out)
  PROVE  RoundsInOrder'
BY DEF RoundsInOrder, LoopTypeOK, Commit, Write, Labels

(* A failed cas of a reliable store means that another task wrote since    *)
(* the version was read (local.rs l.48-52).                                *)
LEMMA ConflictOrder ==
  ASSUME NEW S, NEW t \in Tasks, LoopTypeOK(S), RoundsInOrder, Conflict(t)
  PROVE  RoundsInOrder'
<1>1. ASSUME NEW u \in Tasks, u # t
      PROVE  /\ attempt'[u] = attempt[u] /\ pc'[u] = pc[u]
  BY <1>1 DEF LoopTypeOK, Conflict, LoseRound
<1>2. attempt'[t] = attempt[t] + 1 /\ pc[t] = "cas" /\ pc'[t] \in {"backoff", "idle"}
      /\ (pc'[t] # "idle" => attempt'[t] < MaxAttempts)
  BY DEF LoopTypeOK, Conflict, LoseRound
<1>3. UNCHANGED <<clock, version, now, expected, start>>
  BY DEF Conflict, LoseRound, store
<1>4. t \notin Unreliable => attempt'[t] + start[t].version <= version
  <2> SUFFICES ASSUME t \notin Unreliable
      PROVE  attempt'[t] + start[t].version <= version
    OBVIOUS
  <2>1. expected[t] <= version /\ expected[t] # version
        /\ attempt[t] + start[t].version <= expected[t]
    BY <1>2 DEF RoundsInOrder, Conflict
  <2>2. /\ version \in Nat /\ expected[t] \in Nat /\ attempt[t] \in Nat
        /\ start[t].version \in Nat
    BY AttemptsAssumption DEF LoopTypeOK
  <2> QED
    BY <2>1, <2>2, <1>2
<1>5. pc \in [Tasks -> Labels] /\ attempt[t] \in Nat
  BY AttemptsAssumption DEF LoopTypeOK
<1>6. ASSUME NEW u \in Tasks
      PROVE  /\ pc'[u] # "idle" => pc[u] # "idle"
             /\ pc'[u] = "cas" => pc[u] = "cas" /\ attempt'[u] = attempt[u]
             /\ pc'[u] \in {"get", "cas", "backoff"} => attempt'[u] < MaxAttempts
             /\ u \notin Unreliable => attempt'[u] + start[u].version <= version
  <2>1. CASE u = t
    BY <2>1, <1>2, <1>4
  <2>2. CASE u # t
    BY <2>2, <1>1 DEF RoundsInOrder
  <2> QED
    BY <2>1, <2>2
<1> QED
  BY <1>3, <1>6 DEF RoundsInOrder

(* A write whose answer is lost moves the version too (etcd.rs l.65-80).   *)
LEMMA CommitUnseenOrder ==
  ASSUME NEW S, NEW t \in Tasks, NEW out, LoopTypeOK(S), RoundsInOrder, CommitUnseen(t, out)
  PROVE  RoundsInOrder'
BY AttemptsAssumption DEF RoundsInOrder, LoopTypeOK, CommitUnseen, Write, LoseRound, Labels

(* A dropped handler and the passing of time disturb no round.             *)
LEMMA AbandonOrder ==
  ASSUME NEW S, NEW t \in Tasks, LoopTypeOK(S), RoundsInOrder, Abandon(t)
  PROVE  RoundsInOrder'
BY DEF RoundsInOrder, LoopTypeOK, Abandon, Labels, store

LEMMA TickOrder ==
  ASSUME NEW S, LoopTypeOK(S), RoundsInOrder, Tick
  PROVE  RoundsInOrder'
BY DEF RoundsInOrder, LoopTypeOK, Tick, store, local

-----------------------------------------------------------------------------
(* A task that loses its last round has lost MaxAttempts to others (l.98). *)
LEMMA LastRoundHasCause ==
  ASSUME NEW S, NEW t \in Tasks, LoopTypeOK(S), RoundsInOrder, Conflict(t),
         t \notin Unreliable, ~(attempt[t] + 1 < MaxAttempts)
  PROVE  start[t].version + MaxAttempts <= version
<1>1. /\ version \in Nat /\ expected[t] \in Nat /\ attempt[t] \in Nat
      /\ start[t].version \in Nat /\ MaxAttempts \in Nat
  BY AttemptsAssumption DEF LoopTypeOK
<1>2. /\ expected[t] <= version /\ expected[t] # version
      /\ attempt[t] + start[t].version <= expected[t]
      /\ attempt[t] < MaxAttempts
  BY DEF Conflict, RoundsInOrder
<1> QED
  BY <1>1, <1>2

(* Contention keeps its cause when a check begins: it has no answer yet.   *)
LEMMA BeginContention ==
  ASSUME NEW S, NEW t \in Tasks, NEW c, LoopTypeOK(S), ContentionHasCause, Begin(t, c)
  PROVE  ContentionHasCause'
BY DEF LoopTypeOK, ContentionHasCause, Begin, NoReply, Reply

(* A decision that was written is no refusal for contention (l.80-95).     *)
LEMMA CommitContention ==
  ASSUME NEW S, NEW t \in Tasks, NEW out, LoopTypeOK(S), ContentionHasCause, Commit(t, out)
  PROVE  ContentionHasCause'
BY DEF LoopTypeOK, ContentionHasCause, Commit, Answer, Reply

(* A refusal of a task whose answers are lost needs none (etcd.rs l.70-79). *)
LEMMA CommitUnseenContention ==
  ASSUME NEW S, NEW t \in Tasks, NEW out, LoopTypeOK(S), ContentionHasCause,
         CommitUnseen(t, out)
  PROVE  ContentionHasCause'
<1>1. t \in Unreliable /\ UNCHANGED start
  BY DEF CommitUnseen, LoseRound
<1>2. \A u \in Tasks : u # t => reply'[u] = reply[u]
  BY DEF CommitUnseen, LoseRound, LoopTypeOK
<1> QED
  BY <1>1, <1>2 DEF ContentionHasCause

(* The refusal after the last round (l.98-104) has its cause.              *)
LEMMA ConflictContention ==
  ASSUME NEW S, NEW t \in Tasks, LoopTypeOK(S), RoundsInOrder, ContentionHasCause, Conflict(t)
  PROVE  ContentionHasCause'
<1> SUFFICES ASSUME NEW u \in Tasks, u \notin Unreliable, reply'[u].verdict = "contended"
    PROVE  start'[u].version + MaxAttempts <= reply'[u].stamp
  BY DEF ContentionHasCause
<1>1. UNCHANGED start
  BY DEF Conflict, LoseRound
<1>2. CASE attempt[t] + 1 < MaxAttempts
  <2>1. UNCHANGED reply
    BY <1>2 DEF Conflict, LoseRound
  <2> QED
    BY <1>1, <2>1 DEF ContentionHasCause
<1>3. CASE ~(attempt[t] + 1 < MaxAttempts)
  <2>1. reply' = [reply EXCEPT ![t] = Contended(version)]
    BY <1>3 DEF Conflict, LoseRound
  <2>2. CASE u = t
    <3>1. reply'[u].stamp = version
      BY <2>1, <2>2 DEF LoopTypeOK, Contended, Reply
    <3> QED
      BY <1>1, <1>3, <2>2, <3>1, LastRoundHasCause
  <2>3. CASE u # t
    BY <1>1, <2>1, <2>3 DEF LoopTypeOK, ContentionHasCause
  <2> QED
    BY <2>2, <2>3
<1> QED
  BY <1>2, <1>3
-----------------------------------------------------------------------------
(* Time cut into windows of d seconds, for the limiters that count per     *)
(* window: the seconds of a window are those from its first on             *)
(* (fixed_window.rs l.56).                                                 *)
LEMMA QuotientSpan ==
  ASSUME NEW d \in Nat \ {0}, NEW n \in Nat
  PROVE  /\ n \div d \in Nat
         /\ n % d \in 0..(d - 1)
         /\ n - (n \div d) * d = n % d
OBVIOUS

(* Multiples of the window length are in order as their factors are.       *)
LEMMA MultiplesInOrder ==
  ASSUME NEW d \in Nat \ {0}, NEW a \in Int, NEW b \in Int, a < b
  PROVE  a * d + d <= b * d
<1>1. b - (a + 1) \in Nat
  OBVIOUS
<1>2. (b - (a + 1)) * d >= 0
  BY <1>1
<1>3. b * d = (b - (a + 1)) * d + a * d + d
  BY <1>1
<1> QED
  BY <1>1, <1>2, <1>3

(* No second lies in two windows.                                          *)
LEMMA QuotientOf ==
  ASSUME NEW d \in Nat \ {0}, NEW n \in Nat, NEW w \in Nat, NEW r \in 0..(d - 1), n = w * d + r
  PROVE  n \div d = w
<1>1. PICK v \in Nat : v = n \div d
  BY QuotientSpan
<1>2. PICK q \in 0..(d - 1) : n - v * d = q
  BY <1>1, QuotientSpan
<1>3. v * d \in Int /\ w * d \in Int
  BY <1>1
<1>4. CASE v < w
  <2>1. v * d + d <= w * d
    BY <1>1, <1>4, MultiplesInOrder
  <2> QED
    BY <1>1, <1>2, <1>3, <2>1
<1>5. CASE w < v
  <2>1. w * d + d <= v * d
    BY <1>1, <1>5, MultiplesInOrder
  <2> QED
    BY <1>1, <1>2, <1>3, <2>1
<1> QED
  BY <1>1, <1>4, <1>5

(* Later seconds lie in later windows, or in the same.                     *)
LEMMA QuotientsInOrder ==
  ASSUME NEW d \in Nat \ {0}, NEW n \in Nat, NEW m \in Nat, n <= m
  PROVE  n \div d <= m \div d
<1>1. PICK v \in Nat, q \in 0..(d - 1) : v = n \div d /\ n - v * d = q
  BY QuotientSpan
<1>2. PICK w \in Nat, r \in 0..(d - 1) : w = m \div d /\ m - w * d = r
  BY QuotientSpan
<1>3. v * d \in Int /\ w * d \in Int
  BY <1>1, <1>2
<1>4. ~(w < v)
  <2> SUFFICES ASSUME w < v PROVE FALSE
    OBVIOUS
  <2>1. w * d + d <= v * d
    BY MultiplesInOrder
  <2> QED
    BY <1>1, <1>2, <1>3, <2>1
<1> QED
  BY <1>1, <1>2, <1>4

\* What the account of window u may show beyond the quotas that rewinds
\* opened, when the key holds version k, of a window v that has let s in.
Share(u, k, v, s, max) == IF k = 0 \/ u > v THEN 0 ELSE IF u = v THEN s ELSE max

(* A write for window w adds to its account the g it grants; one that      *)
(* moves the stored window back opens one more quota (fixed_window.rs      *)
(* l.67, l.77).                                                            *)
LEMMA ShareKept ==
  ASSUME NEW max \in Nat, NEW rewound \in Nat, NEW k \in Nat, NEW v \in Nat,
         NEW s \in Nat, s <= max, NEW w \in Nat, NEW g \in Nat, NEW u \in Nat, NEW a \in Nat,
         a <= max * rewound + Share(u, k, v, s, max)
  PROVE  (IF u = w THEN a + g ELSE a)
           <= max * (rewound + (IF k > 0 /\ w < v THEN 1 ELSE 0))
              + Share(u, k + 1, w, g + (IF k > 0 /\ v = w THEN s ELSE 0), max)
<1>1. PICK quota \in Nat : quota = max * rewound
  OBVIOUS
<1>2. max * (rewound + 1) = quota + max /\ max * (rewound + 0) = quota
  BY <1>1
<1>3. CASE k > 0 /\ w < v
  <2>1. a <= quota + max
    BY <1>1, <1>3 DEF Share
  <2>2. (IF u = w THEN a + g ELSE a) <= quota + max + Share(u, k + 1, w, g + 0, max)
    BY <1>1, <1>3, <2>1 DEF Share
  <2> QED
    BY <1>2, <1>3, <2>2
<1>4. CASE k > 0 /\ w = v
  <2>1. (IF u = w THEN a + g ELSE a) <= quota + Share(u, k + 1, w, g + s, max)
    BY <1>1, <1>4 DEF Share
  <2> QED
    BY <1>2, <1>4, <2>1
<1>5. CASE k = 0 \/ w > v
  <2>1. (IF u = w THEN a + g ELSE a) <= quota + Share(u, k + 1, w, g + 0, max)
    BY <1>1, <1>5 DEF Share
  <2> QED
    BY <1>2, <1>5, <2>1
<1> QED
  BY <1>3, <1>4, <1>5

(* Window by window the account stays within the quota (fixed_window.rs    *)
(* l.3-5), plus a quota for every write that moved the window back.        *)
LEMMA ShareWithinQuota ==
  ASSUME NEW max \in Nat, NEW rewound \in Nat, NEW k \in Nat, NEW v \in Nat,
         NEW s \in Nat, s <= max, NEW u \in Nat, NEW a \in Nat,
         a <= max * rewound + Share(u, k, v, s, max)
  PROVE  a <= max * (1 + rewound)
<1>1. PICK quota \in Nat : quota = max * rewound
  OBVIOUS
<1>2. max * (1 + rewound) = quota + max
  BY <1>1
<1>3. a <= quota + max
  BY <1>1 DEF Share
<1> QED
  BY <1>2, <1>3
(* Whole units are taken whole: what k units of u leave is k fewer of them *)
(* (token_bucket.rs l.71-72).                                              *)
LEMMA TakenWhole ==
  ASSUME NEW u \in Nat \ {0}, NEW a \in Nat, NEW b \in Nat, NEW k \in Nat, b + k * u <= a
  PROVE  (b \div u) + k <= a \div u
<1>1. PICK v \in Nat, r \in 0..(u - 1) : v = b \div u /\ b - v * u = r
  BY QuotientSpan
<1>2. PICK w \in Nat : w = v + k
  OBVIOUS
<1>3. PICK before \in Nat : before = b + k * u
  OBVIOUS
<1>4. before = w * u + r
  <2>1. v * u \in Nat /\ k * u \in Nat /\ (v + k) * u = v * u + k * u
    OBVIOUS
  <2> QED
    BY <1>1, <1>2, <1>3, <2>1
<1>5. before \div u = w
  BY <1>4, QuotientOf
<1>6. before \div u <= a \div u
  BY <1>3, QuotientsInOrder
<1> QED
  BY <1>1, <1>2, <1>5, <1>6
=============================================================================
