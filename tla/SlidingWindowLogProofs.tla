------------------------ MODULE SlidingWindowLogProofs -----------------------
(***************************************************************************)
(* Theorems about the sliding-window-log limiter: the bound on its state,  *)
(* the exactness of its log, the absence of bursts, and its waits.         *)
(***************************************************************************)
EXTENDS SlidingWindowLog, CheckLoopProofs, FiniteSetTheorems, SequenceTheorems

(* Naturals are well founded: where there are some there is a least one.   *)
LEMMA LeastExists ==
  ASSUME NEW S, S \subseteq Nat, S # {}
  PROVE  \E m \in S : \A y \in S : m <= y
<1> DEFINE Below == OpToRel(<, Nat)
<1>1. \A x, y \in Nat : <<y, x>> \in Below <=> y < x
  BY DEF OpToRel
<1>2. IsWellFoundedOn(Below, Nat)
  BY NatLessThanWellFounded
<1> HIDE DEF Below
<1>3. PICK m \in S : \A y \in S : ~(<<y, m>> \in Below)
  BY <1>2, WFMin
<1>4. \A y \in S : ~(y < m)
  BY <1>1, <1>3
<1> QED
  BY <1>3, <1>4

(* A set of naturals that holds 0 and the successor of each of its members *)
(* holds them all: induction, for facts about loops such as Vec::retain.   *)
LEMMA NaturalsReached ==
  ASSUME NEW S, 0 \in S, \A n \in Nat : n \in S => n + 1 \in S
  PROVE  Nat \subseteq S
<1> SUFFICES ASSUME Nat \ S # {} PROVE FALSE
  OBVIOUS
<1>1. PICK m \in Nat \ S : \A y \in Nat \ S : m <= y
  BY LeastExists
<1>2. m # 0 /\ m - 1 \in Nat /\ ~(m <= m - 1) /\ (m - 1) + 1 = m
  BY <1>1
<1> QED
  BY <1>1, <1>2

-----------------------------------------------------------------------------
(* Vec::retain, one entry after the other (l.71).                          *)
Retained(s, n, f) ==
  f = [i \in 0..Len(s) |->
         IF i = 0 THEN <<>>
         ELSE IF Covers(s[i], n) THEN Append(f[i - 1], s[i]) ELSE f[i - 1]]

(* The loop has a result.                                                  *)
LEMMA RetainedExists ==
  ASSUME NEW n, NEW s, Len(s) \in Nat
  PROVE  \E f : Retained(s, n, f)
<1> DEFINE upTo(m, f) ==
             f = [i \in 0..m |->
                    IF i = 0 THEN <<>>
                    ELSE IF Covers(s[i], n) THEN Append(f[i - 1], s[i]) ELSE f[i - 1]]
           S == {m \in Nat : \E f : upTo(m, f)}
<1>1. 0 \in S
  <2>1. upTo(0, [i \in 0..0 |-> <<>>])
    OBVIOUS
  <2> QED
    BY <2>1
<1>2. ASSUME NEW m \in Nat, m \in S
      PROVE  m + 1 \in S
  <2>1. PICK f : upTo(m, f)
    BY <1>2
  <2> DEFINE g == [i \in 0..(m + 1) |->
                     IF i \in 0..m THEN f[i]
                     ELSE IF Covers(s[m + 1], n) THEN Append(f[m], s[m + 1]) ELSE f[m]]
  <2>2. \A i \in 0..(m + 1) : i = 0 \/ i \in 1..m \/ i = m + 1
    OBVIOUS
  <2>3. \A i \in 1..m : i - 1 \in 0..m /\ i \in 0..m /\ i \in 0..(m+1) /\ i - 1 \in 0..(m+1) /\ i # 0
    OBVIOUS
  <2>4. /\ m + 1 # 0 /\ (m + 1) - 1 = m /\ m \in 0..m /\ m + 1 \notin 0..m /\ m + 1 \in 0..(m+1)
        /\ 0 \in 0..m /\ 0 \in 0..(m+1)
    OBVIOUS
  <2>5. /\ g[0] = <<>>
        /\ \A i \in 0..m : g[i] = f[i]
        /\ g[m + 1] = IF Covers(s[m + 1], n) THEN Append(f[m], s[m + 1]) ELSE f[m]
        /\ f[0] = <<>>
        /\ \A i \in 1..m : f[i] = IF Covers(s[i], n) THEN Append(f[i - 1], s[i]) ELSE f[i - 1]
    <3>1. g[0] = f[0] /\ \A i \in 0..m : g[i] = f[i]
      BY <2>4, \A i \in 0..m : i \in 0..(m + 1)
    <3>2. g[m + 1] = IF Covers(s[m + 1], n) THEN Append(f[m], s[m + 1]) ELSE f[m]
      BY <2>4
    <3>3. f[0] = <<>>
      BY <2>1, <2>4
    <3>4. \A i \in 1..m : f[i] = IF Covers(s[i], n) THEN Append(f[i - 1], s[i]) ELSE f[i - 1]
      BY <2>1, <2>3
    <3> QED
      BY <3>1, <3>2, <3>3, <3>4
  <2>6. DOMAIN g = 0..(m + 1) /\ g = [i \in 0..(m+1) |-> g[i]]
    OBVIOUS
  <2> HIDE DEF g
  <2>7. ASSUME NEW i \in 0..(m + 1)
        PROVE  g[i] = IF i = 0 THEN <<>>
                      ELSE IF Covers(s[i], n) THEN Append(g[i - 1], s[i]) ELSE g[i - 1]
    BY <2>2, <2>3, <2>4, <2>5
  <2>8. [i \in 0..(m + 1) |-> g[i]]
          = [i \in 0..(m + 1) |->
               IF i = 0 THEN <<>>
               ELSE IF Covers(s[i], n) THEN Append(g[i - 1], s[i]) ELSE g[i - 1]]
    BY <2>7
  <2>9. upTo(m + 1, g)
    BY <2>6, <2>8
  <2> QED
    BY <2>9
<1> HIDE DEF S
<1>3. Nat \subseteq S
  BY <1>1, <1>2, NaturalsReached
<1> QED
  BY <1>3 DEF S, Retained

LEMMA KeptIsRetained ==
  ASSUME NEW n, NEW s, Len(s) \in Nat
  PROVE  \E f : Retained(s, n, f) /\ Kept(s, n) = f[Len(s)]
<1> DEFINE kept == CHOOSE f : Retained(s, n, f)
<1>1. Retained(s, n, kept)
  BY RetainedExists
<1>2. Kept(s, n) = kept[Len(s)]
  BY DEF Retained, Kept
<1> HIDE DEF kept
<1> QED
  BY <1>1, <1>2

LEMMA RetainedSteps ==
  ASSUME NEW n, NEW s, Len(s) \in Nat, NEW f, Retained(s, n, f)
  PROVE  /\ f[0] = <<>>
         /\ \A i \in 1..Len(s) :
              f[i] = IF Covers(s[i], n) THEN Append(f[i - 1], s[i]) ELSE f[i - 1]
<1>1. 0 \in 0..Len(s) /\ \A i \in 1..Len(s) : i \in 0..Len(s) /\ i # 0
  OBVIOUS
<1>2. f[0] = <<>>
  BY <1>1 DEF Retained
<1>3. \A i \in 1..Len(s) : f[i] = IF Covers(s[i], n) THEN Append(f[i - 1], s[i]) ELSE f[i - 1]
  BY <1>1 DEF Retained
<1> QED
  BY <1>2, <1>3

(* A log after the first m entries were looked at, `gone' if the first went. *)
Shrunk(log, m, gone) ==
  /\ log \in Seq(Nat)
  /\ m = 0 => Len(log) = 0
  /\ m > 0 => Len(log) + gone <= m

(* What stays is a log no longer than before, and shorter if the first     *)
(* entry goes (l.71).                                                      *)
LEMMA KeptBound ==
  ASSUME NEW n \in Int, NEW s \in Seq(Nat)
  PROVE  /\ Kept(s, n) \in Seq(Nat)
         /\ Len(Kept(s, n)) <= Len(s)
         /\ s # <<>> /\ ~Covers(s[1], n) => Len(Kept(s, n)) + 1 <= Len(s)
<1>1. PICK l \in Nat : l = Len(s) /\ DOMAIN s = 1..l
  BY LenProperties
<1>2. \A i \in 1..l : s[i] \in Nat
  BY <1>1, ElementOfSeq
<1>3. PICK f : Retained(s, n, f) /\ Kept(s, n) = f[l]
  BY <1>1, KeptIsRetained
<1>4. /\ f[0] = <<>>
      /\ \A i \in 1..l : f[i] = IF Covers(s[i], n) THEN Append(f[i - 1], s[i]) ELSE f[i - 1]
  <2>1. Len(s) \in Nat /\ Retained(s, n, f)
    BY <1>1, <1>3
  <2>2. /\ f[0] = <<>>
        /\ \A i \in 1..Len(s) :
             f[i] = IF Covers(s[i], n) THEN Append(f[i - 1], s[i]) ELSE f[i - 1]
    BY <2>1, RetainedSteps
  <2> QED
    BY <1>1, <2>2
<1>5. PICK gone \in {0, 1} : Covers(s[1], n) <=> gone = 0
  OBVIOUS
<1> DEFINE S == {m \in Nat : m <= l => Shrunk(f[m], m, gone)}
<1>6. 0 \in S
  <2>1. <<>> \in Seq(Nat) /\ Len(<<>>) = 0
    BY EmptySeq
  <2>2. Shrunk(f[0], 0, gone)
    BY <1>4, <2>1 DEF Shrunk
  <2> QED
    BY <2>2
<1>7. ASSUME NEW m \in Nat, m \in S
      PROVE  m + 1 \in S
  <2>1. ASSUME m + 1 <= l
        PROVE  Shrunk(f[m + 1], m + 1, gone)
    <3>1. m <= l /\ m + 1 \in 1..l /\ (m + 1) - 1 = m
      BY <2>1
    <3>2. Shrunk(f[m], m, gone)
      BY <1>7, <3>1
    <3>3. f[m] \in Seq(Nat) /\ s[m + 1] \in Nat
      BY <1>2, <3>1, <3>2 DEF Shrunk
    <3>4. f[m + 1] = IF Covers(s[m + 1], n) THEN Append(f[m], s[m + 1]) ELSE f[m]
      BY <1>4, <3>1
    <3>5. PICK j \in Nat : j = Len(f[m])
      BY <3>3, LenProperties
    <3>6. (m = 0 => j = 0) /\ (m > 0 => j + gone <= m)
      BY <3>2, <3>5 DEF Shrunk
    <3>7. CASE Covers(s[m + 1], n)
      <4>1. Append(f[m], s[m + 1]) \in Seq(Nat) /\ Len(Append(f[m], s[m + 1])) = Len(f[m]) + 1
        BY <3>3, AppendProperties
      <4>2. f[m + 1] \in Seq(Nat) /\ Len(f[m + 1]) = j + 1
        BY <3>4, <3>5, <3>7, <4>1
      <4>3. m = 0 => gone = 0
        BY <1>5, <3>7
      <4>4. j + 1 + gone <= m + 1
        BY <3>6, <4>3
      <4> QED
        BY <4>2, <4>4 DEF Shrunk
    <3>8. CASE ~Covers(s[m + 1], n)
      <4>1. f[m + 1] = f[m]
        BY <3>4, <3>8
      <4>2. j + gone <= m + 1
        BY <3>6
      <4> QED
        BY <3>3, <3>5, <4>1, <4>2 DEF Shrunk
    <3> QED
      BY <3>7, <3>8
  <2> QED
    BY <2>1
<1>8. Nat \subseteq S
  <2> HIDE DEF S
  <2> QED
    BY <1>6, <1>7, NaturalsReached
<1>9. Shrunk(f[l], l, gone)
  BY <1>8
<1>10. PICK j \in Nat : j = Len(f[l])
  BY <1>9, LenProperties DEF Shrunk
<1>11. f[l] \in Seq(Nat) /\ (l = 0 => j = 0) /\ (l > 0 => j + gone <= l)
  BY <1>9, <1>10 DEF Shrunk
<1>12. s # <<>> => l > 0
  BY <1>1, EmptySeq
<1>13. j <= l
  BY <1>11
<1>14. ASSUME s # <<>>, ~Covers(s[1], n)
       PROVE  j + 1 <= l
  <2>1. gone = 1 /\ l > 0
    BY <1>5, <1>12, <1>14
  <2> QED
    BY <1>11, <2>1
<1>15. Kept(s, n) \in Seq(Nat) /\ Len(Kept(s, n)) = j
  BY <1>3, <1>10, <1>11
<1> QED
  BY <1>1, <1>13, <1>14, <1>15

(* Of the first m entries of log s those after the k-th stay.              *)
Splits(s, n, log, m, k) ==
  /\ \A i \in 1..m : i > k <=> Covers(s[i], n)
  /\ log \in Seq(Nat)
  /\ Len(log) = m - k
  /\ \A i \in 1..(m - k) : log[i] = s[k + i]

(* Of a log in order a last part stays: what the window covers (l.71).     *)
LEMMA KeptOfSorted ==
  ASSUME NEW n \in Int, NEW s \in Seq(Nat), Sorted(s)
  PROVE  \E k \in 0..Len(s) : Splits(s, n, Kept(s, n), Len(s), k)
<1>1. PICK l \in Nat : l = Len(s) /\ DOMAIN s = 1..l
  BY LenProperties
<1>2. \A i \in 1..l : s[i] \in Nat
  BY <1>1, ElementOfSeq
<1>3. PICK f : Retained(s, n, f) /\ Kept(s, n) = f[l]
  BY <1>1, KeptIsRetained
<1>4. /\ f[0] = <<>>
      /\ \A i \in 1..l : f[i] = IF Covers(s[i], n) THEN Append(f[i - 1], s[i]) ELSE f[i - 1]
  <2>1. Len(s) \in Nat /\ Retained(s, n, f)
    BY <1>1, <1>3
  <2>2. /\ f[0] = <<>>
        /\ \A i \in 1..Len(s) :
             f[i] = IF Covers(s[i], n) THEN Append(f[i - 1], s[i]) ELSE f[i - 1]
    BY <2>1, RetainedSteps
  <2> QED
    BY <1>1, <2>2
<1> DEFINE S == {m \in Nat : m <= l => \E k \in 0..m : Splits(s, n, f[m], m, k)}
<1>5. 0 \in S
  <2>1. <<>> \in Seq(Nat) /\ Len(<<>>) = 0
    BY EmptySeq
  <2>2. Splits(s, n, f[0], 0, 0)
    BY <1>4, <2>1 DEF Splits
  <2> QED
    BY <2>2
<1>6. ASSUME NEW m \in Nat, m \in S
      PROVE  m + 1 \in S
  <2>1. ASSUME m + 1 <= l
        PROVE  \E k \in 0..(m + 1) : Splits(s, n, f[m + 1], m + 1, k)
    <3>1. m <= l /\ m + 1 \in 1..l /\ (m + 1) - 1 = m
      BY <2>1
    <3>2. PICK k \in 0..m : Splits(s, n, f[m], m, k)
      BY <1>6, <3>1
    <3>3. /\ \A i \in 1..m : i > k <=> Covers(s[i], n)
          /\ f[m] \in Seq(Nat) /\ Len(f[m]) = m - k
          /\ \A i \in 1..(m - k) : f[m][i] = s[k + i]
      BY <3>2 DEF Splits
    <3>4. s[m + 1] \in Nat /\ f[m + 1] = IF Covers(s[m + 1], n) THEN Append(f[m], s[m + 1]) ELSE f[m]
      BY <1>2, <1>4, <3>1
    <3>5. \A i \in 1..(m + 1) : i \in 1..m \/ i = m + 1
      OBVIOUS
    <3>6. CASE Covers(s[m + 1], n)
      <4>1. /\ f[m + 1] \in Seq(Nat) /\ Len(f[m + 1]) = Len(f[m]) + 1
            /\ f[m + 1][Len(f[m]) + 1] = s[m + 1]
            /\ \A i \in 1..Len(f[m]) : f[m + 1][i] = f[m][i]
        BY <3>3, <3>4, <3>6, AppendProperties
      <4>2. /\ k \in 0..(m + 1) /\ (m - k) + 1 = (m + 1) - k /\ k + ((m - k) + 1) = m + 1
            /\ m + 1 > k /\ \A i \in 1..((m + 1) - k) : i \in 1..(m - k) \/ i = (m - k) + 1
        OBVIOUS
      <4>3. \A i \in 1..((m + 1) - k) : f[m + 1][i] = s[k + i]
        BY <3>3, <4>1, <4>2
      <4>4. \A i \in 1..(m + 1) : i > k <=> Covers(s[i], n)
        BY <3>3, <3>5, <3>6, <4>2
      <4>5. f[m + 1] \in Seq(Nat) /\ Len(f[m + 1]) = (m + 1) - k
        BY <3>3, <4>1, <4>2
      <4>6. Splits(s, n, f[m + 1], m + 1, k)
        BY <4>3, <4>4, <4>5 DEF Splits
      <4> QED
        BY <4>2, <4>6
    <3>7. CASE ~Covers(s[m + 1], n)
      <4>1. \A i \in 1..m : ~Covers(s[i], n)
        <5>1. ASSUME NEW i \in 1..m PROVE ~Covers(s[i], n)
          <6>1. i \in 1..l /\ i < m + 1
            BY <3>1
          <6>2. s[i] <= s[m + 1] /\ s[i] \in Nat
            BY <1>1, <1>2, <3>1, <6>1 DEF Sorted
          <6> QED
            BY <3>4, <3>7, <6>2, LogAssumption DEF Covers
        <5> QED
          BY <5>1
      <4>2. m = k
        <5>1. m # 0 => m \in 1..m
          OBVIOUS
        <5>2. m # 0 => ~ (m > k)
          BY <3>3, <4>1, <5>1
        <5> QED
          BY <5>2
      <4>3. f[m + 1] = f[m] /\ Len(f[m]) = 0 /\ f[m] \in Seq(Nat)
        BY <3>3, <3>4, <3>7, <4>2
      <4>4. \A i \in 1..(m + 1) : (i > m + 1) <=> Covers(s[i], n)
        BY <3>5, <3>7, <4>1
      <4>5. (m + 1) - (m + 1) = 0 /\ 1..0 = {} /\ m + 1 \in 0..(m + 1)
        OBVIOUS
      <4>6. Splits(s, n, f[m + 1], m + 1, m + 1)
        BY <4>3, <4>4, <4>5 DEF Splits
      <4> QED
        BY <4>5, <4>6
    <3> QED
      BY <3>6, <3>7
  <2> QED
    BY <2>1
<1>7. Nat \subseteq S
  <2> HIDE DEF S
  <2> QED
    BY <1>5, <1>6, NaturalsReached
<1>8. \E k \in 0..l : Splits(s, n, f[l], l, k)
  BY <1>7
<1> QED
  BY <1>1, <1>3, <1>8

-----------------------------------------------------------------------------
(* The entries one decision adds to the log, all alike (l.75-77).          *)
LEMMA Repeated ==
  ASSUME NEW n \in Nat, NEW g \in Nat
  PROVE  /\ [i \in 1..g |-> n] \in Seq(Nat)
         /\ Len([i \in 1..g |-> n]) = g
         /\ \A i \in 1..g : [j \in 1..g |-> n][i] = n
<1> DEFINE r == [i \in 1..g |-> n]
<1>1. r \in [1..g -> Nat] /\ DOMAIN r = 1..g
  OBVIOUS
<1>2. \A i \in 1..g : r[i] = n
  OBVIOUS
<1> HIDE DEF r
<1>3. r \in Seq(Nat)
  BY <1>1, SeqDef
<1>4. Len(r) = g
  <2>1. Len(r) \in Nat /\ 1..Len(r) = 1..g
    BY <1>1, <1>3, LenProperties
  <2> QED
    BY <2>1
<1> QED
  BY <1>2, <1>3, <1>4 DEF r

\* Log s with g entries of time n at its end.
Lengthened(s, n, g, log) ==
  /\ log \in Seq(Nat)
  /\ Len(log) = Len(s) + g
  /\ \A i \in 1..Len(s) : log[i] = s[i]
  /\ \A i \in 1..g : log[Len(s) + i] = n

LEMMA Lengthen ==
  ASSUME NEW s \in Seq(Nat), NEW n \in Nat, NEW g \in Nat
  PROVE  Lengthened(s, n, g, s \o [i \in 1..g |-> n])
<1> DEFINE r == [i \in 1..g |-> n]
<1>1. r \in Seq(Nat) /\ Len(r) = g /\ \A i \in 1..g : r[i] = n
  BY Repeated
<1> HIDE DEF r
<1>2. /\ s \o r \in Seq(Nat) /\ Len(s \o r) = Len(s) + Len(r)
      /\ \A i \in 1..Len(s) + Len(r) : (s \o r)[i] = IF i <= Len(s) THEN s[i] ELSE r[i - Len(s)]
  BY <1>1, ConcatProperties
<1>3. PICK l \in Nat : l = Len(s)
  BY LenProperties
<1>4. /\ \A i \in 1..l : i \in 1..l + g /\ i <= l
      /\ \A i \in 1..g : l + i \in 1..l + g /\ ~ (l + i <= l) /\ (l + i) - l = i
  OBVIOUS
<1>5. /\ \A i \in 1..l : (s \o r)[i] = s[i]
      /\ \A i \in 1..g : (s \o r)[l + i] = n
  BY <1>1, <1>2, <1>3, <1>4
<1> QED
  BY <1>1, <1>2, <1>3, <1>5 DEF Lengthened, r

(* What an evaluation returns (l.71-83): what stays of the log, with the   *)
(* cost added as far as it is let in, and never more than the limit.       *)
LEMMA EvaluateFacts ==
  ASSUME NEW s \in States, NEW n \in Nat, NEW c \in Nat
  PROVE  LET out == Evaluate(s, n, c)
             g == IF out.allowed THEN c ELSE 0
         IN  /\ out.state \in States
             /\ out.allowed \in BOOLEAN
             /\ out.remaining \in Int
             /\ out.wait \in Int
             /\ Lengthened(Kept(s, n), n, g, out.state)
             /\ ~out.allowed => /\ Len(out.state) + c > MaxRequests
                                /\ out.state # <<>> => out.state[1] + WindowMs <= n + out.wait
<1> DEFINE log == Kept(s, n)
           out == Evaluate(s, n, c)
           g == IF out.allowed THEN c ELSE 0
<1>1. s \in Seq(Nat) /\ Len(s) <= MaxRequests /\ Len(s) \in Nat
  BY LenProperties DEF States
<1>2. log \in Seq(Nat) /\ Len(log) \in Nat /\ Len(log) <= MaxRequests
  <2>1. log \in Seq(Nat) /\ Len(log) <= Len(s)
    BY <1>1, KeptBound
  <2>2. Len(log) \in Nat
    BY <2>1, LenProperties
  <2> QED
    BY <1>1, <2>1, <2>2, LogAssumption
<1>3. /\ out.state = LogAfter(s, n, c)
      /\ out.allowed = Fits(s, n, c)
      /\ out.remaining = LeftOf(Len(log) + (IF Fits(s, n, c) THEN c ELSE 0))
      /\ out.wait = IF Fits(s, n, c) THEN 0 ELSE UntilOldestLeaves(s, n)
  BY DEF Evaluate
<1>4. Fits(s, n, c) <=> Len(log) + c <= MaxRequests
  BY DEF Fits
<1>5. LogAfter(s, n, c) = IF Fits(s, n, c) THEN log \o [i \in 1..c |-> n] ELSE log
  BY DEF LogAfter
<1>6. log # <<>> => log[1] \in Nat
  <2>1. log # <<>> => Len(log) > 0
    BY <1>2, EmptySeq
  <2>2. Len(log) > 0 => 1 \in 1..Len(log)
    BY <1>2
  <2> QED
    BY <1>2, <2>1, <2>2, ElementOfSeq
<1>7. /\ UntilOldestLeaves(s, n) \in Int
      /\ log # <<>> => log[1] + WindowMs <= n + UntilOldestLeaves(s, n)
  BY <1>6, LogAssumption DEF UntilOldestLeaves
<1>8. /\ \A l \in Nat : LeftOf(l) \in Int
  BY LogAssumption DEF LeftOf
<1> HIDE DEF log
<1>9. Fits(s, n, c) \in BOOLEAN
  BY DEF Fits
<1> HIDE DEF out
<1>10. CASE Fits(s, n, c)
  <2>1. Lengthened(log, n, c, out.state) /\ g = c
    BY <1>2, <1>3, <1>5, <1>10, Lengthen
  <2>2. out.state \in Seq(Nat) /\ Len(out.state) = Len(log) + c
    BY <2>1 DEF Lengthened
  <2>3. out.state \in States
    BY <1>4, <1>10, <2>2 DEF States
  <2> QED
    BY <1>2, <1>3, <1>8, <1>10, <2>1, <2>3 DEF log, out
<1>11. CASE ~Fits(s, n, c)
  <2>1. out.state = log /\ g = 0
    BY <1>3, <1>5, <1>11
  <2>2. Lengthened(log, n, 0, log)
    BY <1>2 DEF Lengthened
  <2>3. out.state \in States
    BY <1>2, <2>1 DEF States
  <2>4. Len(log) + c > MaxRequests
    BY <1>2, <1>4, <1>11, LogAssumption
  <2>5. out.remaining \in Int
    BY <1>2, <1>3, <1>8, <1>11
  <2>6. out.allowed = FALSE /\ out.wait = UntilOldestLeaves(s, n)
    BY <1>3, <1>9, <1>11
  <2>7. out.wait \in Int /\ out.allowed \in BOOLEAN
    BY <1>7, <2>6
  <2>8. out.state # <<>> => out.state[1] + WindowMs <= n + out.wait
    BY <1>7, <2>1, <2>6
  <2>9. Len(out.state) + c > MaxRequests
    BY <2>1, <2>4
  <2>10. Lengthened(log, n, g, out.state)
    BY <2>1, <2>2
  <2> QED
    BY <2>3, <2>5, <2>7, <2>8, <2>9, <2>10 DEF log, out
<1> QED
  BY <1>10, <1>11
-----------------------------------------------------------------------------
(* Log e holds the last part of history a: what the window that ends with  *)
(* n covers, of a history in order that reaches no further than n.         *)
InStep(a, e, n) ==
  /\ Len(e) <= Len(a)
  /\ \A i \in 1..Len(e) : e[i] = a[(Len(a) - Len(e)) + i]
  /\ \A i \in 1..Len(a) : i > Len(a) - Len(e) <=> a[i] > n - WindowMs
  /\ \A i \in 1..Len(a) : a[i] <= n
  /\ \A i, j \in 1..Len(a) : i < j => a[i] <= a[j]

\* Units of history a that are MaxRequests apart are a window apart.
Apart(a) ==
  \A i \in 1..Len(a) : i + MaxRequests \in 1..Len(a) => a[i] + WindowMs <= a[i + MaxRequests]

(* A write that uses a reading no older than the last one keeps the log in *)
(* step with the history (l.71-78): what it drops no window will cover, and *)
(* what it adds stands at the end of both.                                 *)
LEMMA StaysInStep ==
  ASSUME NEW a \in Seq(Nat), NEW e \in Seq(Nat), NEW m \in Nat, NEW n \in Nat, m <= n,
         InStep(a, e, m), NEW k \in 0..Len(e), NEW log, Splits(e, n, log, Len(e), k),
         NEW g \in Nat, NEW b, Lengthened(a, n, g, b), NEW d, Lengthened(log, n, g, d)
  PROVE  InStep(b, d, n)
<1>1. PICK la \in Nat : la = Len(a)
  BY LenProperties
<1>2. PICK le \in Nat : le = Len(e)
  BY LenProperties
<1>3. PICK gone \in Nat : la - le = gone /\ la = gone + le
  <2>1. le <= la
    BY <1>1, <1>2 DEF InStep
  <2>2. la - le \in Nat /\ la = (la - le) + le
    BY <2>1
  <2> QED
    BY <2>2
<1>4. k \in 0..le /\ Len(log) = le - k /\ le - k \in Nat /\ log \in Seq(Nat)
  BY <1>2 DEF Splits
<1>5. /\ Len(b) = la + g /\ Len(d) = (le - k) + g
      /\ b \in Seq(Nat) /\ d \in Seq(Nat)
  BY <1>1, <1>4 DEF Lengthened
<1>6. Len(b) - Len(d) = gone + k /\ Len(d) <= Len(b)
  BY <1>3, <1>4, <1>5
<1>7. /\ \A i \in 1..la : b[i] = a[i] /\ a[i] \in Nat
      /\ \A i \in Nat : i - la \in 1..g => b[i] = n
  <2>1. /\ \A i \in 1..la : b[i] = a[i] /\ a[i] \in Nat
        /\ \A j \in 1..g : b[la + j] = n
    BY <1>1, ElementOfSeq DEF Lengthened
  <2>2. ASSUME NEW i \in Nat, i - la \in 1..g
        PROVE  b[i] = n
    <3>1. PICK j \in 1..g : j = i - la
      BY <2>2
    <3>2. i = la + j
      BY <3>1
    <3> QED
      BY <2>1, <3>2
  <2> QED
    BY <2>1, <2>2
<1>8. /\ \A i \in 1..(le - k) : d[i] = e[k + i]
      /\ \A i \in 1..g : d[(le - k) + i] = n
  BY <1>2, <1>4 DEF Lengthened, Splits
<1>9. \A i \in 1..(la + g) : i \in Nat /\ (i \in 1..la \/ i - la \in 1..g)
  OBVIOUS
<1>10. \A i \in 1..Len(b) : b[i] \in Nat /\ b[i] <= n
  <2> SUFFICES ASSUME NEW i \in 1..(la + g) PROVE b[i] \in Nat /\ b[i] <= n
    BY <1>5
  <2>1. CASE i \in 1..la
    <3>1. b[i] = a[i] /\ a[i] \in Nat /\ a[i] <= m
      BY <1>1, <1>7, <2>1 DEF InStep
    <3> QED
      BY <3>1
  <2>2. CASE i - la \in 1..g
    <3>1. b[i] = n
      BY <1>7, <1>9, <2>2
    <3> QED
      BY <3>1
  <2> QED
    BY <1>9, <2>1, <2>2
<1>11. \A i \in 1..Len(d) : d[i] = b[(gone + k) + i]
  <2> SUFFICES ASSUME NEW i \in 1..((le - k) + g) PROVE d[i] = b[(gone + k) + i]
    BY <1>5
  <2>1. CASE i \in 1..(le - k)
    <3>1. k + i \in 1..le /\ gone + (k + i) \in 1..la /\ gone + (k + i) = (gone + k) + i
      BY <1>3, <1>4, <2>1
    <3>2. e[k + i] = a[gone + (k + i)]
      BY <1>1, <1>2, <1>3, <3>1 DEF InStep
    <3> QED
      BY <1>7, <1>8, <2>1, <3>1, <3>2
  <2>2. CASE i - (le - k) \in 1..g
    <3>1. PICK j \in 1..g : j = i - (le - k)
      BY <2>2
    <3>2. i = (le - k) + j /\ (gone + k) + i \in Nat /\ ((gone + k) + i) - la = j
      BY <1>3, <1>4, <3>1
    <3>3. d[i] = n
      BY <1>8, <3>1, <3>2
    <3>4. b[(gone + k) + i] = n
      BY <1>7, <3>2
    <3> QED
      BY <3>3, <3>4
  <2>3. i \in 1..(le - k) \/ i - (le - k) \in 1..g
    BY <1>4
  <2> QED
    BY <2>1, <2>2, <2>3
<1>12. \A i \in 1..Len(b) : i > gone + k <=> b[i] > n - WindowMs
  <2> SUFFICES ASSUME NEW i \in 1..(la + g) PROVE i > gone + k <=> b[i] > n - WindowMs
    BY <1>5
  <2>1. CASE i \in 1..la /\ i <= gone
    <3>1. b[i] = a[i] /\ a[i] \in Nat /\ ~(a[i] > m - WindowMs)
      BY <1>1, <1>2, <1>3, <1>7, <2>1 DEF InStep
    <3> QED
      BY <1>4, <2>1, <3>1, LogAssumption
  <2>2. CASE i \in 1..la /\ i > gone
    <3>1. i - gone \in 1..le /\ gone + (i - gone) = i /\ (i - gone > k <=> i > gone + k)
      BY <1>3, <1>4, <2>2
    <3>2. e[i - gone] = a[i]
      BY <1>1, <1>2, <1>3, <3>1 DEF InStep
    <3>3. i - gone > k <=> a[i] > n - WindowMs
      BY <1>2, <3>1, <3>2 DEF Splits, Covers
    <3> QED
      BY <1>7, <2>2, <3>1, <3>3
  <2>3. CASE i - la \in 1..g
    <3>1. b[i] = n
      BY <1>7, <1>9, <2>3
    <3>2. i > gone + k
      BY <1>3, <1>4, <2>3
    <3> QED
      BY <3>1, <3>2, LogAssumption
  <2> QED
    BY <1>9, <2>1, <2>2, <2>3
<1>13. \A i, j \in 1..Len(b) : i < j => b[i] <= b[j]
  <2> SUFFICES ASSUME NEW i \in 1..(la + g), NEW j \in 1..(la + g), i < j
      PROVE  b[i] <= b[j]
    BY <1>5
  <2>1. CASE j \in 1..la
    <3>1. i \in 1..la
      BY <2>1
    <3> QED
      BY <1>1, <1>7, <2>1, <3>1 DEF InStep
  <2>2. CASE j - la \in 1..g
    <3>1. b[j] = n
      BY <1>7, <1>9, <2>2
    <3> QED
      BY <1>5, <1>10, <3>1
  <2> QED
    BY <1>9, <2>1, <2>2
<1> QED
  BY <1>6, <1>10, <1>11, <1>12, <1>13 DEF InStep

(* A unit that finds room finds the one MaxRequests before it gone (l.74). *)
LEMMA StaysApart ==
  ASSUME NEW a \in Seq(Nat), Apart(a), NEW n \in Nat, NEW g \in Nat,
         NEW b, Lengthened(a, n, g, b), NEW d \in Seq(Nat), Len(d) <= MaxRequests,
         InStep(b, d, n)
  PROVE  Apart(b)
<1>1. PICK la \in Nat : la = Len(a)
  BY LenProperties
<1>2. PICK ld \in Nat : ld = Len(d)
  BY LenProperties
<1>3. /\ Len(b) = la + g
      /\ \A i \in 1..la : b[i] = a[i]
      /\ \A i \in 1..g : b[la + i] = n
  BY <1>1 DEF Lengthened
<1>4. ASSUME NEW i \in 1..(la + g), i + MaxRequests \in 1..(la + g)
      PROVE  b[i] + WindowMs <= b[i + MaxRequests]
  <2>1. CASE i + MaxRequests \in 1..la
    <3>1. i \in 1..la
      BY <2>1, LogAssumption
    <3> QED
      BY <1>1, <1>3, <2>1, <3>1 DEF Apart
  <2>2. CASE ~(i + MaxRequests \in 1..la)
    <3>1. (i + MaxRequests) - la \in 1..g /\ i + MaxRequests = la + ((i + MaxRequests) - la)
      BY <1>4, <2>2, LogAssumption
    <3>2. b[i + MaxRequests] = n
      BY <1>3, <3>1
    <3>3. ~(i > (la + g) - ld)
      BY <1>2, <1>4, LogAssumption
    <3>4. ~(b[i] > n - WindowMs) /\ b[i] \in Nat
      <4>1. b \in Seq(Nat)
        BY DEF Lengthened
      <4>2. b[i] \in Nat
        BY <1>3, <4>1, ElementOfSeq
      <4> QED
        BY <1>2, <1>3, <3>3, <4>2 DEF InStep
    <3> QED
      BY <3>2, <3>4, LogAssumption
  <2> QED
    BY <2>1, <2>2
<1> QED
  BY <1>3, <1>4 DEF Apart
-----------------------------------------------------------------------------
(* What a task computes from its snapshot is a state and a decision (l.71-83). *)
LEMMA OutcomeTypes ==
  ASSUME TypeOK, NEW t \in Tasks
  PROVE  /\ now[t] \in Nat /\ cost[t] \in Nat /\ snap[t] \in States
         /\ Outcome(t).state \in States
         /\ Outcome(t).remaining \in Int
         /\ Outcome(t).wait \in Int
         /\ Granted(t) \in Nat
         /\ Lengthened(Kept(snap[t], now[t]), now[t], Granted(t), Outcome(t).state)
         /\ Lengthened(admitted, now[t], Granted(t), admitted \o [i \in 1..Granted(t) |-> now[t]])
<1>1. now[t] \in Nat /\ cost[t] \in Nat /\ snap[t] \in States /\ admitted \in Seq(Nat)
  BY DEF TypeOK, LoopTypeOK
<1>2. /\ Outcome(t).state \in States
      /\ Outcome(t).remaining \in Int
      /\ Outcome(t).wait \in Int
      /\ Lengthened(Kept(snap[t], now[t]), now[t],
                    IF Outcome(t).allowed THEN cost[t] ELSE 0, Outcome(t).state)
  BY <1>1, EvaluateFacts DEF Outcome
<1>3. Granted(t) = IF Outcome(t).allowed THEN cost[t] ELSE 0
  BY DEF Granted
<1>4. Granted(t) \in Nat
  BY <1>1, <1>3
<1>5. Lengthened(admitted, now[t], Granted(t), admitted \o [i \in 1..Granted(t) |-> now[t]])
  BY <1>1, <1>4, Lengthen
<1> QED
  BY <1>1, <1>2, <1>3, <1>4, <1>5

(* The invariants on log and history, in terms of InStep and Apart.        *)
InTerms ==
  /\ Spaced <=> (newest.ordered => Apart(admitted))
  /\ HistoryInOrder /\ LogIsExact <=> (newest.ordered => InStep(admitted, entry, newest.time))

LEMMA InStepMeans == TypeOK => InTerms
<1> SUFFICES ASSUME TypeOK PROVE InTerms
  OBVIOUS
<1>1. PICK la \in Nat : la = Len(admitted) /\ DOMAIN admitted = 1..la
  BY LenProperties DEF TypeOK
<1>2. PICK le \in Nat : le = Len(entry) /\ DOMAIN entry = 1..le
  BY LenProperties DEF TypeOK, LoopTypeOK, States
<1>3. \A i \in 1..la : admitted[i] \in Nat
  BY <1>1, ElementOfSeq DEF TypeOK
<1>4. newest.time \in Nat
  BY DEF TypeOK
<1>5. Spaced <=> (newest.ordered => Apart(admitted))
  BY <1>1 DEF Spaced, Apart
<1>6. HistoryInOrder <=> (newest.ordered =>
          /\ \A i, j \in 1..la : i < j => admitted[i] <= admitted[j]
          /\ \A i \in 1..la : admitted[i] <= newest.time)
  BY <1>1 DEF HistoryInOrder, Sorted
<1>7. LogIsExact <=> (newest.ordered =>
          /\ la - le >= 0
          /\ \A i \in 1..le : entry[i] = admitted[(la - le) + i]
          /\ \A i \in 1..la : i > la - le <=> admitted[i] > newest.time - WindowMs
          /\ \A i, j \in 1..le : i < j => entry[i] <= entry[j])
  BY <1>1, <1>2 DEF LogIsExact, Sorted
<1>8. InStep(admitted, entry, newest.time) <=>
          /\ le <= la
          /\ \A i \in 1..le : entry[i] = admitted[(la - le) + i]
          /\ \A i \in 1..la : i > la - le <=> admitted[i] > newest.time - WindowMs
          /\ \A i \in 1..la : admitted[i] <= newest.time
          /\ \A i, j \in 1..la : i < j => admitted[i] <= admitted[j]
  BY <1>1, <1>2 DEF InStep
<1>9. le <= la <=> la - le >= 0
  OBVIOUS
<1>10. ASSUME le <= la,
              \A i \in 1..le : entry[i] = admitted[(la - le) + i],
              \A i, j \in 1..la : i < j => admitted[i] <= admitted[j]
       PROVE  \A i, j \in 1..le : i < j => entry[i] <= entry[j]
  <2> SUFFICES ASSUME NEW i \in 1..le, NEW j \in 1..le, i < j PROVE entry[i] <= entry[j]
    OBVIOUS
  <2>1. (la - le) + i \in 1..la /\ (la - le) + j \in 1..la /\ (la - le) + i < (la - le) + j
    BY <1>10
  <2> QED
    BY <1>10, <2>1
<1> QED
  BY <1>5, <1>6, <1>7, <1>8, <1>9, <1>10 DEF InTerms

LEMMA InStepMeansNext == TypeOK' => InTerms'
BY InStepMeans, PTL

(* The write keeps the log exact (l.71-78): the cas made sure that the log *)
(* it lengthens is the current one.                                        *)
LEMMA WriteKeepsLog ==
  ASSUME TypeOK, SnapshotsFaithful, HistoryInOrder, Spaced, LogIsExact,
         NEW t \in Tasks, Write(t, Outcome(t)), Book(t, Granted(t)), TypeOK'
  PROVE  HistoryInOrder' /\ Spaced' /\ LogIsExact'
<1> DEFINE n == now[t]
           g == Granted(t)
           b == admitted \o [i \in 1..g |-> n]
           d == Outcome(t).state
<1>1. /\ n \in Nat /\ g \in Nat /\ d \in States /\ snap[t] \in States
      /\ Lengthened(Kept(snap[t], n), n, g, d)
      /\ Lengthened(admitted, n, g, b)
  BY OutcomeTypes
<1>2. /\ admitted' = b /\ entry' = d
      /\ newest'.time = n /\ (newest'.ordered <=> newest.ordered /\ newest.time <= n)
  BY DEF Book, Write
<1>3. /\ admitted \in Seq(Nat) /\ entry \in States /\ newest.time \in Nat
      /\ snap[t] = entry
  BY DEF TypeOK, LoopTypeOK, Write, SnapshotsFaithful
<1> HIDE DEF n, g, b, d
<1>4. ASSUME newest'.ordered
      PROVE  InStep(b, d, n) /\ Apart(b)
  <2>1. newest.ordered /\ newest.time <= n
    BY <1>2, <1>4
  <2>2. InStep(admitted, entry, newest.time) /\ Apart(admitted)
    BY <2>1, InStepMeans DEF InTerms
  <2>3. entry \in Seq(Nat) /\ d \in Seq(Nat) /\ Len(d) <= MaxRequests
    BY <1>1, <1>3 DEF States
  <2>4. Sorted(entry)
    BY <2>1 DEF LogIsExact
  <2>5. PICK k \in 0..Len(entry) : Splits(entry, n, Kept(entry, n), Len(entry), k)
    BY <1>1, <2>3, <2>4, KeptOfSorted
  <2>6. Lengthened(Kept(entry, n), n, g, d)
    BY <1>1, <1>3
  <2>7. InStep(b, d, n)
    BY <1>1, <1>3, <2>1, <2>2, <2>3, <2>5, <2>6, StaysInStep
  <2>8. Apart(b)
    BY <1>1, <1>3, <2>2, <2>3, <2>7, StaysApart
  <2> QED
    BY <2>7, <2>8
<1>5. newest'.ordered => InStep(admitted, entry, newest.time)' /\ Apart(admitted)'
  BY <1>2, <1>4 DEF InStep, Apart
<1>6. InTerms'
  BY InStepMeansNext
<1> QED
  BY <1>5, <1>6 DEF InTerms
-----------------------------------------------------------------------------
(* A read snapshot stays faithful until the version moves (l.61-68).       *)
LEMMA SnapshotsUndisturbed ==
  ASSUME TypeOK, RoundsInOrder, SnapshotsFaithful,
         UNCHANGED <<snap, expected>>,
         \A u \in Tasks : pc'[u] = "cas" => pc[u] = "cas",
         \/ UNCHANGED store
         \/ version' = version + 1
  PROVE  SnapshotsFaithful'
<1>1. version \in Nat
  BY DEF TypeOK, LoopTypeOK
<1>2. version' = 0 => entry' = <<>>
  BY <1>1 DEF SnapshotsFaithful, store
<1>3. ASSUME NEW u \in Tasks, pc'[u] = "cas", expected'[u] = version'
      PROVE  snap'[u] = entry'
  <2>1. pc[u] = "cas" /\ expected[u] \in Nat /\ expected[u] <= version
    BY <1>3 DEF TypeOK, LoopTypeOK, RoundsInOrder
  <2>2. CASE UNCHANGED store
    BY <1>3, <2>1, <2>2 DEF SnapshotsFaithful, store
  <2>3. CASE version' = version + 1
    BY <1>1, <1>3, <2>1, <2>3
  <2> QED
    BY <2>2, <2>3
<1> QED
  BY <1>2, <1>3 DEF SnapshotsFaithful

(* The get of a task reads what is stored, or an absent key (l.61-68).     *)
LEMMA GetFaithful ==
  ASSUME TypeOK, SnapshotsFaithful, NEW t \in Tasks, Get(t, Fresh(now[t]))
  PROVE  SnapshotsFaithful'
<1>1. ASSUME NEW u \in Tasks, pc'[u] = "cas", expected'[u] = version
      PROVE  snap'[u] = entry
  <2>1. CASE u = t
    <3>1. \/ version > 0 /\ snap'[t] = entry /\ expected'[t] = version
          \/ snap'[t] = <<>> /\ expected'[t] = 0
      BY DEF Get, TypeOK, LoopTypeOK, Fresh
    <3> QED
      BY <1>1, <2>1, <3>1 DEF SnapshotsFaithful
  <2>2. CASE u # t
    <3>1. pc[u] = "cas" /\ snap'[u] = snap[u] /\ expected'[u] = expected[u]
      BY <1>1, <2>2 DEF Get, TypeOK, LoopTypeOK
    <3> QED
      BY <1>1, <3>1 DEF SnapshotsFaithful
  <2> QED
    BY <2>1, <2>2
<1>2. UNCHANGED <<version, entry>>
  BY DEF Get, store
<1> QED
  BY <1>1, <1>2 DEF SnapshotsFaithful

(* The wait a commit tells ends when the first entry leaves (l.80-82).     *)
LEMMA CommitWaits ==
  ASSUME TypeOK, WaitsInOrder, NEW t \in Tasks, Commit(t, Outcome(t))
  PROVE  WaitsInOrder'
<1>1. /\ reply \in [Tasks -> Replies] /\ version \in Nat /\ pc \in [Tasks -> Labels]
      /\ UNCHANGED <<now, cost>> /\ version' = version + 1
      /\ entry' = Outcome(t).state
      /\ pc' = [pc EXCEPT ![t] = "idle"]
      /\ reply' = [reply EXCEPT ![t] = Answer(Outcome(t), version + 1)]
  BY DEF TypeOK, LoopTypeOK, Commit, Write
<1>2. /\ reply'[t].stamp = version + 1 /\ reply'[t].wait = Outcome(t).wait
      /\ reply'[t].verdict = IF Outcome(t).allowed THEN "allowed" ELSE "denied"
  BY <1>1 DEF Answer, Reply
<1>3. ~Outcome(t).allowed =>
        /\ Len(entry') + cost[t] > MaxRequests
        /\ entry' # <<>> => entry'[1] + WindowMs <= now[t] + Outcome(t).wait
  <2>1. now[t] \in Nat /\ cost[t] \in Nat /\ snap[t] \in States
    BY OutcomeTypes
  <2>2. LET out == Evaluate(snap[t], now[t], cost[t])
        IN  ~out.allowed =>
              /\ Len(out.state) + cost[t] > MaxRequests
              /\ out.state # <<>> => out.state[1] + WindowMs <= now[t] + out.wait
    BY <2>1, EvaluateFacts
  <2> QED
    BY <1>1, <2>2 DEF Outcome
<1>4. ASSUME NEW u \in Tasks
      PROVE  /\ pc'[u] # "idle" => reply'[u].verdict = "none"
             /\ reply'[u].verdict = "denied" =>
                  /\ reply'[u].stamp <= version'
                  /\ reply'[u].stamp = version' =>
                       /\ Len(entry') + cost[u] > MaxRequests
                       /\ entry' # <<>> => entry'[1] + WindowMs <= now[u] + reply'[u].wait
  <2>1. CASE u = t
    <3>1. pc'[t] = "idle" /\ reply'[t].stamp <= version'
      BY <1>1, <1>2
    <3> QED
      BY <2>1, <3>1, <1>2, <1>3
  <2>2. CASE u # t
    <3>1. pc'[u] = pc[u] /\ reply'[u] = reply[u] /\ reply[u].stamp \in Nat
      BY <1>1, <2>2 DEF Replies
    <3>2. reply[u].verdict = "denied" => reply[u].stamp <= version
      BY DEF WaitsInOrder
    <3>3. reply[u].stamp <= version => reply'[u].stamp <= version' /\ reply'[u].stamp # version'
      BY <1>1, <3>1
    <3> QED
      BY <3>1, <3>2, <3>3 DEF WaitsInOrder
  <2> QED
    BY <2>1, <2>2
<1> QED
  BY <1>1, <1>4 DEF WaitsInOrder

(* No round lost makes a denial, and a write outdates those there are.     *)
LEMMA LostRoundWaits ==
  ASSUME TypeOK, WaitsInOrder, NEW t \in Tasks, NEW v, LoseRound(t, v), pc[t] = "cas",
         UNCHANGED store \/ version' = version + 1
  PROVE  WaitsInOrder'
<1>1. /\ reply \in [Tasks -> Replies] /\ version \in Nat /\ pc \in [Tasks -> Labels]
      /\ UNCHANGED <<now, cost>>
      /\ \/ pc' = [pc EXCEPT ![t] = "backoff"] /\ UNCHANGED reply
         \/ pc' = [pc EXCEPT ![t] = "idle"] /\ reply' = [reply EXCEPT ![t] = Contended(v)]
  BY DEF TypeOK, LoopTypeOK, LoseRound
<1>2. Contended(v).verdict = "contended"
  BY DEF Contended, Reply
<1>3. ASSUME NEW u \in Tasks
      PROVE  pc'[u] # "idle" => reply'[u].verdict = "none"
  BY <1>1 DEF WaitsInOrder
<1>4. ASSUME NEW u \in Tasks, reply'[u].verdict = "denied"
      PROVE  /\ reply'[u].stamp <= version'
             /\ reply'[u].stamp = version' =>
                  /\ Len(entry') + cost[u] > MaxRequests
                  /\ entry' # <<>> => entry'[1] + WindowMs <= now[u] + reply'[u].wait
  <2>1. reply'[u] = reply[u] /\ reply[u].stamp \in Nat
    BY <1>1, <1>2, <1>4 DEF Replies
  <2>2. reply[u].stamp <= version
    BY <1>4, <2>1 DEF WaitsInOrder
  <2>3. CASE UNCHANGED store
    BY <2>1, <2>3, <1>4 DEF WaitsInOrder, store
  <2>4. CASE version' = version + 1
    <3>1. reply'[u].stamp <= version' /\ reply'[u].stamp # version'
      BY <1>1, <2>1, <2>2, <2>4
    <3> QED
      BY <3>1
  <2> QED
    BY <2>3, <2>4
<1> QED
  BY <1>1, <1>3, <1>4 DEF WaitsInOrder

-----------------------------------------------------------------------------
(* The first state satisfies the inductive invariant.                      *)
LEMMA InitInvariant == Init => IInv
<1> SUFFICES ASSUME Init PROVE IInv
  OBVIOUS
<1>1. <<>> \in Seq(Nat) /\ Len(<<>>) = 0 /\ DOMAIN <<>> = {}
  BY EmptySeq
<1>2. Fresh(0) = <<>> /\ <<>> \in States
  BY <1>1, LogAssumption DEF Fresh, States
<1>3. LoopTypeOK(States) /\ RoundsInOrder
  BY <1>2, LoopInitTypes, LoopInitOrder DEF Init
<1>4. ContentionHasCause /\ WaitsInOrder
  BY DEF ContentionHasCause, WaitsInOrder, Init, LoopInit, NoReply, Reply
<1>5. TypeOK
  BY <1>1, <1>3 DEF Init, TypeOK
<1>6. SnapshotsFaithful
  BY <1>2 DEF SnapshotsFaithful, Init, LoopInit
<1>7. entry = <<>> /\ admitted = <<>>
  BY <1>2 DEF Init, LoopInit
<1>8. HistoryInOrder /\ Spaced
  BY <1>1, <1>7 DEF HistoryInOrder, Spaced, Sorted
<1>9. LogIsExact
  BY <1>1, <1>7 DEF LogIsExact, Sorted
<1> QED
  BY <1>3, <1>4, <1>5, <1>6, <1>8, <1>9 DEF IInv

(* A write of the entry, whether its task learns of it or not.             *)
LEMMA WriteInvariant ==
  ASSUME IInv, NEW t \in Tasks, Write(t, Outcome(t)), Book(t, Granted(t)),
         UNCHANGED <<snap, expected>>, LoopTypeOK(States)',
         \A u \in Tasks : pc'[u] = "cas" => pc[u] = "cas"
  PROVE  TypeOK' /\ SnapshotsFaithful' /\ HistoryInOrder' /\ Spaced' /\ LogIsExact'
<1>1. /\ admitted' \in Seq(Nat) /\ newest' \in [ordered : BOOLEAN, time : Nat]
      /\ rewinds' \in [count : Nat, units : Nat]
  <2>1. /\ now[t] \in Nat
        /\ Lengthened(admitted, now[t], Granted(t), admitted \o [i \in 1..Granted(t) |-> now[t]])
    BY OutcomeTypes DEF IInv
  <2>2. rewinds \in [count : Nat, units : Nat] /\ Len(admitted) \in Nat
    BY LenProperties DEF IInv, TypeOK
  <2> QED
    BY <2>1, <2>2 DEF Book, Lengthened
<1>2. TypeOK'
  BY <1>1 DEF TypeOK
<1>3. SnapshotsFaithful'
  BY SnapshotsUndisturbed DEF IInv, Write
<1>4. HistoryInOrder' /\ Spaced' /\ LogIsExact'
  BY <1>2, WriteKeepsLog DEF IInv
<1> QED
  BY <1>2, <1>3, <1>4

(* A step that leaves the store and the ledger alone keeps what relates them. *)
LEMMA QuietInvariant ==
  ASSUME IInv, UNCHANGED <<store, ledger>>, LoopTypeOK(States)'
  PROVE  TypeOK' /\ HistoryInOrder' /\ Spaced' /\ LogIsExact'
BY DEF IInv, TypeOK, HistoryInOrder, Spaced, LogIsExact, Sorted, store, ledger
(* Every step keeps the inductive invariant.                               *)
LEMMA NextInvariant == IInv /\ [Next]_vars => IInv'
<1> SUFFICES ASSUME IInv, [Next]_vars PROVE IInv'
  OBVIOUS
<1>0. TypeOK /\ LoopTypeOK(States) /\ RoundsInOrder /\ ContentionHasCause
      /\ SnapshotsFaithful /\ WaitsInOrder
  BY DEF IInv, TypeOK
<1>1. ASSUME NEW t \in Tasks, NEW c \in Costs, Begin(t, c), UNCHANGED ledger
      PROVE  IInv'
  <2>1. LoopTypeOK(States)' /\ RoundsInOrder' /\ ContentionHasCause'
    BY <1>0, <1>1, BeginTypes, BeginOrder, BeginContention
  <2>2. /\ reply' = [reply EXCEPT ![t] = NoReply] /\ NoReply.verdict = "none"
        /\ pc' = [pc EXCEPT ![t] = "get"]
        /\ UNCHANGED <<version, entry, snap, expected>>
        /\ \A u \in Tasks : u # t => now'[u] = now[u] /\ cost'[u] = cost[u]
    BY <1>0, <1>1 DEF Begin, NoReply, Reply, store, LoopTypeOK
  <2>3. \A u \in Tasks : pc'[u] = "cas" => pc[u] = "cas"
    BY <1>0, <2>2 DEF LoopTypeOK
  <2>4. SnapshotsFaithful'
    BY <1>0, <2>2, <2>3, SnapshotsUndisturbed DEF store
  <2>5. WaitsInOrder'
    BY <1>0, <2>2 DEF WaitsInOrder, LoopTypeOK
  <2> QED
    BY <1>1, <2>1, <2>2, <2>4, <2>5, QuietInvariant DEF store, IInv
<1>2. ASSUME NEW t \in Tasks, Get(t, Fresh(now[t])), UNCHANGED ledger
      PROVE  IInv'
  <2>1. Fresh(now[t]) \in States
    BY EmptySeq, LogAssumption DEF Fresh, States
  <2>2. LoopTypeOK(States)' /\ RoundsInOrder'
    BY <1>0, <1>2, <2>1, GetTypes, GetOrder
  <2>3. ContentionHasCause'
    BY <1>0, <1>2 DEF Get, ContentionHasCause
  <2>4. /\ pc[t] = "get" /\ pc' = [pc EXCEPT ![t] = "cas"]
        /\ UNCHANGED <<version, entry, reply, now, cost>>
    BY <1>2 DEF Get, store
  <2>5. WaitsInOrder'
    BY <1>0, <2>4 DEF WaitsInOrder, LoopTypeOK
  <2>6. SnapshotsFaithful'
    BY <1>0, <1>2, GetFaithful
  <2> QED
    BY <1>2, <2>2, <2>3, <2>4, <2>5, <2>6, QuietInvariant DEF store, IInv
<1>3. ASSUME NEW t \in Tasks, Commit(t, Outcome(t)), Book(t, Granted(t))
      PROVE  IInv'
  <2>1. LoopTypeOK(States)' /\ RoundsInOrder'
    BY <1>0, <1>3, OutcomeTypes, CommitTypes, CommitOrder
  <2>2. /\ Write(t, Outcome(t)) /\ UNCHANGED <<snap, expected>>
        /\ \A u \in Tasks : pc'[u] = "cas" => pc[u] = "cas"
    BY <1>0, <1>3 DEF Commit, LoopTypeOK
  <2>3. ContentionHasCause' /\ WaitsInOrder'
    BY <1>0, <1>3, CommitContention, CommitWaits
  <2>4. TypeOK' /\ SnapshotsFaithful' /\ HistoryInOrder' /\ Spaced' /\ LogIsExact'
    BY <1>3, <2>1, <2>2, WriteInvariant
  <2> QED
    BY <2>1, <2>3, <2>4 DEF IInv
<1>4. ASSUME NEW t \in Tasks, CommitUnseen(t, Outcome(t)), Book(t, Granted(t))
      PROVE  IInv'
  <2>1. LoopTypeOK(States)' /\ RoundsInOrder'
    BY <1>0, <1>4, OutcomeTypes, CommitUnseenTypes, CommitUnseenOrder
  <2>2. /\ Write(t, Outcome(t)) /\ UNCHANGED <<snap, expected>>
        /\ \A u \in Tasks : pc'[u] = "cas" => pc[u] = "cas"
    BY <1>0, <1>4 DEF CommitUnseen, LoseRound, LoopTypeOK
  <2>3. /\ pc[t] = "cas" /\ LoseRound(t, version + 1) /\ version' = version + 1
    BY <1>4 DEF CommitUnseen, Write
  <2>4. ContentionHasCause' /\ WaitsInOrder'
    BY <1>0, <1>4, <2>3, CommitUnseenContention, LostRoundWaits
  <2>5. TypeOK' /\ SnapshotsFaithful' /\ HistoryInOrder' /\ Spaced' /\ LogIsExact'
    BY <1>4, <2>1, <2>2, WriteInvariant
  <2> QED
    BY <2>1, <2>4, <2>5 DEF IInv
<1>5. ASSUME NEW t \in Tasks, Conflict(t), UNCHANGED ledger
      PROVE  IInv'
  <2>1. LoopTypeOK(States)' /\ RoundsInOrder'
    BY <1>0, <1>5, ConflictTypes, ConflictOrder
  <2>2. /\ UNCHANGED <<store, snap, expected>>
        /\ \A u \in Tasks : pc'[u] = "cas" => pc[u] = "cas"
    BY <1>0, <1>5 DEF Conflict, LoseRound, LoopTypeOK
  <2>3. SnapshotsFaithful'
    BY <1>0, <2>2, SnapshotsUndisturbed
  <2>4. pc[t] = "cas" /\ LoseRound(t, version) /\ UNCHANGED store
    BY <1>5 DEF Conflict
  <2>5. ContentionHasCause' /\ WaitsInOrder'
    BY <1>0, <1>5, <2>4, ConflictContention, LostRoundWaits
  <2> QED
    BY <1>5, <2>1, <2>3, <2>4, <2>5, QuietInvariant DEF IInv
<1>6. ASSUME NEW t \in Tasks, Wake(t), UNCHANGED ledger
      PROVE  IInv'
  <2>1. LoopTypeOK(States)' /\ RoundsInOrder'
    BY <1>0, <1>6, WakeTypes, WakeOrder
  <2>2. ContentionHasCause'
    BY <1>0, <1>6 DEF Wake, ContentionHasCause
  <2>3. /\ pc[t] = "backoff" /\ pc' = [pc EXCEPT ![t] = "get"]
        /\ UNCHANGED <<version, entry, reply, cost, snap, expected>>
    BY <1>6 DEF Wake, store
  <2>4. \A u \in Tasks : u # t => now'[u] = now[u]
    BY <1>0, <1>6 DEF Wake, LoopTypeOK
  <2>5. reply[t].verdict = "none"
    BY <1>0, <2>3 DEF WaitsInOrder
  <2>6. \A u \in Tasks : (pc'[u] # "idle" => pc[u] # "idle") /\ (pc'[u] = "cas" => pc[u] = "cas")
    BY <1>0, <2>3 DEF LoopTypeOK
  <2>7. WaitsInOrder'
    BY <1>0, <2>3, <2>4, <2>5, <2>6 DEF WaitsInOrder
  <2>8. SnapshotsFaithful'
    BY <1>0, <2>3, <2>6, SnapshotsUndisturbed DEF store
  <2> QED
    BY <1>6, <2>1, <2>2, <2>3, <2>7, <2>8, QuietInvariant DEF store, IInv
<1>7. ASSUME NEW t \in Tasks, Abandon(t), UNCHANGED ledger
      PROVE  IInv'
  <2>1. LoopTypeOK(States)' /\ RoundsInOrder'
    BY <1>0, <1>7, AbandonTypes, AbandonOrder
  <2>2. ContentionHasCause'
    BY <1>0, <1>7 DEF Abandon, ContentionHasCause
  <2>3. /\ pc[t] # "idle" /\ pc' = [pc EXCEPT ![t] = "idle"]
        /\ UNCHANGED <<version, entry, now, cost, reply, snap, expected>>
    BY <1>7 DEF Abandon, store
  <2>4. \A u \in Tasks : (pc'[u] # "idle" => pc[u] # "idle") /\ (pc'[u] = "cas" => pc[u] = "cas")
    BY <1>0, <2>3 DEF LoopTypeOK
  <2>5. SnapshotsFaithful'
    BY <1>0, <2>3, <2>4, SnapshotsUndisturbed DEF store
  <2>6. WaitsInOrder'
    BY <1>0, <2>3, <2>4 DEF WaitsInOrder
  <2> QED
    BY <1>7, <2>1, <2>2, <2>3, <2>5, <2>6, QuietInvariant DEF store, IInv
<1>8. ASSUME Tick, UNCHANGED ledger
      PROVE  IInv'
  <2>1. LoopTypeOK(States)' /\ RoundsInOrder'
    BY <1>0, <1>8, TickTypes, TickOrder
  <2>2. UNCHANGED <<store, pc, now, cost, snap, expected, reply, start>>
    BY <1>8 DEF Tick, local
  <2>3. SnapshotsFaithful' /\ ContentionHasCause' /\ WaitsInOrder'
    BY <1>0, <2>2 DEF SnapshotsFaithful, ContentionHasCause, WaitsInOrder, store
  <2> QED
    BY <1>8, <2>1, <2>2, <2>3, QuietInvariant DEF IInv
<1>9. CASE UNCHANGED vars
  BY <1>9 DEF vars, loopVars, store, local, ledger, IInv, TypeOK, LoopTypeOK, RoundsInOrder,
              ContentionHasCause, SnapshotsFaithful, HistoryInOrder, Spaced, LogIsExact, WaitsInOrder
<1> QED
  BY <1>1, <1>2, <1>3, <1>4, <1>5, <1>6, <1>7, <1>8, <1>9 DEF Next

(* Every state of the limiter satisfies the inductive invariant.           *)
THEOREM Invariance == Spec => []IInv
<1> QED
  BY InitInvariant, NextInvariant, PTL DEF Spec

(* "O(max_requests) state per client" (l.7): the log never outgrows the    *)
(* limit, whatever the order of writes, and every variable has its type.   *)
THEOREM TypeCorrect == Spec => []TypeOK
<1>1. IInv => TypeOK
  BY DEF IInv
<1> QED
  BY <1>1, Invariance, PTL

(* The log is exactly what was let in during the last window (l.70-78), as *)
(* long as the readings reach the store in order.                          *)
THEOREM LogExact == Spec => []LogIsExact
<1>1. IInv => LogIsExact
  BY DEF IInv
<1> QED
  BY <1>1, Invariance, PTL

(* Denials for contention are earned (l.105-111): for a task whose calls are *)
(* answered, MaxAttempts others were decided meanwhile.                    *)
THEOREM ContentionEarned == Spec => []ContentionHasCause
<1>1. IInv => ContentionHasCause
  BY DEF IInv
<1> QED
  BY <1>1, Invariance, PTL

(* A window sees consecutive units, and fewer than MaxRequests apart.      *)
LEMMA WindowSeesFew ==
  ASSUME TypeOK, HistoryInOrder, Spaced, newest.ordered, NEW n \in Int
  PROVE  Cardinality({i \in DOMAIN admitted : n - WindowMs < admitted[i] /\ admitted[i] <= n})
           <= MaxRequests
<1> DEFINE Seen == {i \in DOMAIN admitted : n - WindowMs < admitted[i] /\ admitted[i] <= n}
<1>1. PICK la \in Nat : DOMAIN admitted = 1..la
  BY LenProperties DEF TypeOK
<1>2. \A i \in 1..la : admitted[i] \in Nat
  BY <1>1, ElementOfSeq, LenProperties DEF TypeOK
<1>3. CASE Seen = {}
  <2>1. Cardinality(Seen) = 0
    BY <1>3, FS_EmptySet
  <2> QED
    BY <2>1, LogAssumption
<1>4. CASE Seen # {}
  <2>1. PICK first \in Seen : \A i \in Seen : first <= i
    <3>1. Seen \subseteq Nat
      BY <1>1
    <3> QED
      BY <1>4, <3>1, LeastExists
  <2>2. Seen \subseteq first..(first + MaxRequests - 1) /\ first \in Nat
    <3>1. first \in 1..la /\ n - WindowMs < admitted[first]
      BY <1>1, <2>1
    <3> SUFFICES ASSUME NEW i \in Seen PROVE i \in first..(first + MaxRequests - 1)
      BY <3>1
    <3>2. i \in 1..la /\ admitted[i] <= n /\ first <= i
      BY <1>1, <2>1
    <3>3. ASSUME i >= first + MaxRequests
          PROVE  FALSE
      <4>1. first + MaxRequests \in 1..la
        BY <3>1, <3>2, <3>3, LogAssumption
      <4>2. admitted[first] + WindowMs <= admitted[first + MaxRequests]
        BY <1>1, <3>1, <4>1 DEF Spaced
      <4>3. admitted[first + MaxRequests] <= admitted[i]
        <5>1. CASE first + MaxRequests = i
          BY <1>2, <3>2, <5>1
        <5>2. CASE first + MaxRequests < i
          BY <1>1, <3>2, <4>1, <5>2 DEF HistoryInOrder, Sorted
        <5> QED
          BY <3>1, <3>2, <3>3, <5>1, <5>2, LogAssumption
      <4>4. /\ admitted[first] \in Nat /\ admitted[first + MaxRequests] \in Nat
            /\ admitted[i] \in Nat
        BY <1>2, <3>1, <3>2, <4>1
      <4> QED
        BY <3>1, <3>2, <4>2, <4>3, <4>4, LogAssumption
    <3> QED
      BY <3>1, <3>2, <3>3, LogAssumption
  <2>3. /\ IsFiniteSet(first..(first + MaxRequests - 1))
        /\ Cardinality(first..(first + MaxRequests - 1)) = MaxRequests
    <3>1. /\ first \in Int /\ first + MaxRequests - 1 \in Int
          /\ ~(first > first + MaxRequests - 1) => (first + MaxRequests - 1) - first + 1 = MaxRequests
          /\ first > first + MaxRequests - 1 => MaxRequests = 0
      BY <2>2, LogAssumption
    <3> QED
      BY <3>1, FS_Interval
  <2>4. Cardinality(Seen) <= Cardinality(first..(first + MaxRequests - 1))
    BY <2>2, <2>3, FS_Subset
  <2> QED
    BY <2>3, <2>4
<1> QED
  BY <1>3, <1>4

(* "No boundary burst" (l.6): as long as the readings reach the store in   *)
(* order no stretch of time as long as the window sees more than           *)
(* MaxRequests units let in, however tasks interleave and calls are lost.  *)
THEOREM NoBurst == Spec => []NoBurstInOrder
<1>1. IInv => NoBurstInOrder
  <2> SUFFICES ASSUME IInv, newest.ordered, NEW n \in Times
      PROVE  Cardinality({i \in DOMAIN admitted : n - WindowMs < admitted[i] /\ admitted[i] <= n})
               <= MaxRequests
    BY DEF NoBurstInOrder, SeenBy
  <2>1. n \in Int
    BY DEF Times
  <2> QED
    BY <2>1, WindowSeesFew DEF IInv
<1> QED
  BY <1>1, Invariance, PTL

-----------------------------------------------------------------------------
(* Bursts when the readings reach the store out of order.                  *)

(* A set of numbers up to l, and g more.                                   *)
LEMMA Joined ==
  ASSUME NEW l \in Nat, NEW g \in Nat, NEW A, A \subseteq 1..l
  PROVE  /\ IsFiniteSet(A) /\ Cardinality(A) \in Nat /\ Cardinality(A) <= l
         /\ IsFiniteSet(A \cup (l + 1)..(l + g))
         /\ Cardinality(A \cup (l + 1)..(l + g)) = Cardinality(A) + g
<1> DEFINE T == (l + 1)..(l + g)
<1>1. IsFiniteSet(1..l) /\ Cardinality(1..l) = l
  BY FS_Interval
<1>2. IsFiniteSet(A) /\ Cardinality(A) <= l /\ Cardinality(A) \in Nat
  BY <1>1, FS_Subset, FS_CardinalityType
<1>3. IsFiniteSet(T) /\ Cardinality(T) = g
  <2>1. l + 1 \in Int /\ l + g \in Int /\ (l + 1 > l + g => g = 0) /\ (l + g) - (l + 1) + 1 = g
    OBVIOUS
  <2> QED
    BY <2>1, FS_Interval
<1>4. A \cap T = {}
  OBVIOUS
<1> HIDE DEF T
<1>5. /\ IsFiniteSet(A \cup T)
      /\ Cardinality(A \cup T) = Cardinality(A) + Cardinality(T) - Cardinality(A \cap T)
  BY <1>2, <1>3, FS_Union
<1>6. Cardinality(A \cap T) = 0
  BY <1>4, FS_EmptySet
<1> QED
  BY <1>2, <1>3, <1>5, <1>6 DEF T

\* The entries of log s later than x.
Later(s, x) == {i \in DOMAIN s : s[i] > x}

LEMMA LaterFew ==
  ASSUME NEW s \in Seq(Nat), NEW x
  PROVE  Later(s, x) \subseteq 1..Len(s) /\ Len(s) \in Nat
         /\ Cardinality(Later(s, x)) \in Nat /\ Cardinality(Later(s, x)) <= Len(s)
<1>1. PICK l \in Nat : l = Len(s) /\ DOMAIN s = 1..l
  BY LenProperties
<1>2. Later(s, x) \subseteq 1..l
  BY <1>1 DEF Later
<1> QED
  BY <1>1, <1>2, Joined

(* Entries of time n at the end are later than x if n is.                  *)
LEMMA LaterOfLengthened ==
  ASSUME NEW s \in Seq(Nat), NEW n \in Nat, NEW g \in Nat, NEW log, Lengthened(s, n, g, log),
         NEW x \in Int
  PROVE  Cardinality(Later(log, x)) = Cardinality(Later(s, x)) + (IF n > x THEN g ELSE 0)
<1>1. PICK l \in Nat : l = Len(s) /\ DOMAIN s = 1..l
  BY LenProperties
<1>2. /\ DOMAIN log = 1..(l + g)
      /\ \A i \in 1..l : log[i] = s[i]
      /\ \A i \in 1..g : log[l + i] = n
  BY <1>1, LenProperties DEF Lengthened
<1>3. \A i \in 1..(l + g) : i \in 1..l \/ i \in (l + 1)..(l + g)
  OBVIOUS
<1>4. \A i \in (l + 1)..(l + g) : i \in 1..(l + g) /\ i \notin 1..l /\ log[i] = n
  <2> SUFFICES ASSUME NEW i \in (l + 1)..(l + g)
               PROVE  i \in 1..(l + g) /\ i \notin 1..l /\ log[i] = n
    OBVIOUS
  <2>1. PICK j \in 1..g : i = l + j
    <3>1. i - l \in 1..g /\ i = l + (i - l)
      OBVIOUS
    <3> QED
      BY <3>1
  <2> QED
    BY <1>2, <2>1
<1>5. \A i \in 1..l : i \in 1..(l + g)
  OBVIOUS
<1>6. CASE n > x
  <2>1. Later(log, x) = Later(s, x) \cup (l + 1)..(l + g)
    BY <1>1, <1>2, <1>3, <1>4, <1>5, <1>6 DEF Later
  <2>2. Later(s, x) \subseteq 1..l
    BY <1>1 DEF Later
  <2>3. Cardinality(Later(s, x) \cup (l + 1)..(l + g)) = Cardinality(Later(s, x)) + g
    BY <2>2, Joined
  <2> QED
    BY <1>6, <2>1, <2>3
<1>7. CASE ~(n > x)
  <2>1. Later(log, x) = Later(s, x)
    BY <1>1, <1>2, <1>3, <1>4, <1>5, <1>7 DEF Later
  <2> QED
    BY <1>7, <2>1, LaterFew
<1> QED
  BY <1>6, <1>7

(* Vec::retain drops nothing later than the start of the window (l.71), in *)
(* whatever order the log is.                                              *)
LEMMA KeptLater ==
  ASSUME NEW s \in Seq(Nat), NEW n \in Int, NEW x \in Int, n - WindowMs <= x
  PROVE  Cardinality(Later(Kept(s, n), x)) = Cardinality(Later(s, x))
<1>1. PICK l \in Nat : l = Len(s) /\ DOMAIN s = 1..l
  BY LenProperties
<1>2. \A i \in 1..l : s[i] \in Nat
  BY <1>1, ElementOfSeq
<1>3. PICK f : Retained(s, n, f) /\ Kept(s, n) = f[l]
  BY <1>1, KeptIsRetained
<1>4. /\ f[0] = <<>>
      /\ \A i \in 1..l : f[i] = IF Covers(s[i], n) THEN Append(f[i - 1], s[i]) ELSE f[i - 1]
  <2>1. Len(s) \in Nat /\ Retained(s, n, f)
    BY <1>1, <1>3
  <2>2. /\ f[0] = <<>>
        /\ \A i \in 1..Len(s) :
             f[i] = IF Covers(s[i], n) THEN Append(f[i - 1], s[i]) ELSE f[i - 1]
    BY <2>1, RetainedSteps
  <2> QED
    BY <1>1, <2>2
<1> DEFINE first(m) == {i \in 1..m : s[i] > x}
           S == {m \in Nat : m <= l => /\ f[m] \in Seq(Nat)
                                       /\ Cardinality(Later(f[m], x)) = Cardinality(first(m))}
<1>5. 0 \in S
  <2>1. <<>> \in Seq(Nat) /\ DOMAIN <<>> = {}
    BY EmptySeq
  <2>2. Later(f[0], x) = {} /\ first(0) = {}
    BY <1>4, <2>1 DEF Later
  <2> QED
    BY <1>4, <2>1, <2>2
<1>6. ASSUME NEW m \in Nat, m \in S
      PROVE  m + 1 \in S
  <2>1. ASSUME m + 1 <= l
        PROVE  /\ f[m + 1] \in Seq(Nat)
               /\ Cardinality(Later(f[m + 1], x)) = Cardinality(first(m + 1))
    <3>1. /\ m <= l /\ m + 1 \in 1..l /\ (m + 1) - 1 = m
          /\ m + 1 \notin 1..m /\ 1..(m + 1) = 1..m \cup {m + 1}
      BY <2>1
    <3>2. f[m] \in Seq(Nat) /\ Cardinality(Later(f[m], x)) = Cardinality(first(m))
      BY <1>6, <3>1
    <3>3. s[m + 1] \in Nat /\ f[m + 1] = IF Covers(s[m + 1], n) THEN Append(f[m], s[m + 1]) ELSE f[m]
      BY <1>2, <1>4, <3>1
    <3>4. /\ IsFiniteSet(first(m)) /\ Cardinality(first(m)) \in Nat
          /\ s[m + 1] > x => /\ first(m + 1) = first(m) \cup {m + 1}
                             /\ m + 1 \notin first(m)
          /\ ~(s[m + 1] > x) => first(m + 1) = first(m)
      <4>1. first(m) \subseteq 1..m
        OBVIOUS
      <4>2. IsFiniteSet(first(m)) /\ Cardinality(first(m)) \in Nat
        BY <4>1, Joined
      <4> QED
        BY <3>1, <4>2
    <3>5. Cardinality(first(m + 1)) = Cardinality(first(m)) + (IF s[m + 1] > x THEN 1 ELSE 0)
      <4> HIDE DEF first
      <4> QED
        BY <3>4, FS_AddElement
    <3>6. CASE Covers(s[m + 1], n)
      <4>1. /\ Lengthened(f[m], s[m + 1], 1, Append(f[m], s[m + 1]))
            /\ Append(f[m], s[m + 1]) \in Seq(Nat)
        <5>1. /\ Append(f[m], s[m + 1]) \in Seq(Nat)
              /\ Len(Append(f[m], s[m + 1])) = Len(f[m]) + 1
              /\ Append(f[m], s[m + 1])[Len(f[m]) + 1] = s[m + 1]
              /\ \A i \in 1..Len(f[m]) : Append(f[m], s[m + 1])[i] = f[m][i]
          BY <3>2, <3>3, AppendProperties
        <5>2. \A i \in 1..1 : i = 1
          OBVIOUS
        <5> QED
          BY <5>1, <5>2 DEF Lengthened
      <4>2. Cardinality(Later(Append(f[m], s[m + 1]), x))
              = Cardinality(Later(f[m], x)) + (IF s[m + 1] > x THEN 1 ELSE 0)
        BY <3>2, <3>3, <4>1, LaterOfLengthened
      <4> HIDE DEF first
      <4> QED
        BY <3>2, <3>3, <3>5, <3>6, <4>1, <4>2
    <3>7. CASE ~Covers(s[m + 1], n)
      <4>1. ~(s[m + 1] > x)
        BY <3>3, <3>7, LogAssumption DEF Covers
      <4> HIDE DEF first
      <4> QED
        BY <3>2, <3>3, <3>4, <3>7, <4>1
    <3> QED
      BY <3>6, <3>7
  <2> QED
    BY <2>1
<1>7. Nat \subseteq S
  <2> HIDE DEF S
  <2> QED
    BY <1>5, <1>6, NaturalsReached
<1>8. Cardinality(Later(f[l], x)) = Cardinality(first(l))
  BY <1>7
<1> QED
  BY <1>1, <1>3, <1>8 DEF Later

(* Of history a, whose first u units were let in before the last rewind,   *)
(* the units after them that x covers stand in log e, by reading m.        *)
StretchLogged(a, u, e, m) ==
  \A x \in Int : m - WindowMs <= x =>
    Cardinality({i \in 1..Len(a) : i > u /\ a[i] > x}) <= Cardinality(Later(e, x))

\* The units of history a during the window that ends with n.
During(a, n) == {i \in 1..Len(a) : n - WindowMs < a[i] /\ a[i] <= n}

(* No window saw more than MaxRequests of the units since the last rewind, *)
(* or more than that for each of the k rewinds of the units before.        *)
WithinQuotas(a, u, k) ==
  \A n \in Int :
    /\ Cardinality({i \in During(a, n) : i > u}) <= MaxRequests
    /\ Cardinality({i \in During(a, n) : i <= u}) <= MaxRequests * k

(* A write with a reading no older than the last (l.71-78): what it drops  *)
(* from the log no later window covers, and a window that covers what it   *)
(* adds sees no more than the log has.                                     *)
LEMMA OnwardInQuota ==
  ASSUME NEW a \in Seq(Nat), NEW e \in Seq(Nat), NEW u \in Nat, u <= Len(a),
         NEW m \in Nat, NEW n \in Nat, m <= n, NEW k \in Nat,
         StretchLogged(a, u, e, m), WithinQuotas(a, u, k),
         NEW g \in Nat, NEW b, Lengthened(a, n, g, b),
         NEW log \in Seq(Nat), \A x \in Int : n - WindowMs <= x =>
                                Cardinality(Later(log, x)) = Cardinality(Later(e, x)),
         NEW d, Lengthened(log, n, g, d), Len(d) <= MaxRequests
  PROVE  StretchLogged(b, u, d, n) /\ WithinQuotas(b, u, k)
<1>1. PICK la \in Nat : la = Len(a) /\ u <= la
  BY LenProperties
<1>2. /\ Len(b) = la + g /\ d \in Seq(Nat)
      /\ \A i \in 1..la : b[i] = a[i] /\ a[i] \in Nat
      /\ \A i \in (la + 1)..(la + g) : b[i] = n
  <2>1. /\ \A i \in 1..la : b[i] = a[i] /\ a[i] \in Nat
        /\ \A i \in 1..g : b[la + i] = n
    BY <1>1, ElementOfSeq DEF Lengthened
  <2>2. ASSUME NEW i \in (la + 1)..(la + g) PROVE b[i] = n
    <3>1. PICK j \in 1..g : i = la + j
      <4>1. i - la \in 1..g /\ i = la + (i - la)
        OBVIOUS
      <4> QED
        BY <4>1
    <3> QED
      BY <2>1, <3>1
  <2> QED
    BY <1>1, <2>1, <2>2 DEF Lengthened
<1>3. \A i \in 1..(la + g) : i \in 1..la \/ i \in (la + 1)..(la + g)
  OBVIOUS
<1>4. ASSUME NEW x \in Int, n - WindowMs <= x
      PROVE  Cardinality({i \in 1..Len(b) : i > u /\ b[i] > x}) <= Cardinality(Later(d, x))
  <2> DEFINE A == {i \in 1..la : i > u /\ a[i] > x}
             B == {i \in 1..(la + g) : i > u /\ b[i] > x}
  <2>1. Cardinality(A) <= Cardinality(Later(e, x))
    <3>1. m - WindowMs <= x
      BY <1>4, LogAssumption
    <3> QED
      BY <1>1, <3>1 DEF StretchLogged
  <2>2. Cardinality(Later(d, x)) = Cardinality(Later(e, x)) + (IF n > x THEN g ELSE 0)
    BY <1>4, LaterOfLengthened
  <2>3. Cardinality(Later(e, x)) \in Nat
    BY LaterFew
  <2>4. A \subseteq 1..la
    OBVIOUS
  <2>5. Cardinality(A) \in Nat /\ Cardinality(A \cup (la + 1)..(la + g)) = Cardinality(A) + g
    BY <2>4, Joined
  <2>6. n > x => B = A \cup (la + 1)..(la + g)
    BY <1>1, <1>2, <1>3
  <2>7. ~(n > x) => B = A
    <3>1. \A i \in 1..la : i \in 1..(la + g)
      OBVIOUS
    <3> QED
      BY <1>2, <1>3, <3>1
  <2> HIDE DEF A, B
  <2>8. Cardinality(B) = Cardinality(A) + (IF n > x THEN g ELSE 0)
    <3>1. CASE n > x
      BY <2>5, <2>6, <3>1
    <3>2. CASE ~(n > x)
      BY <2>5, <2>7, <3>2
    <3> QED
      BY <3>1, <3>2
  <2>9. Cardinality(B) <= Cardinality(Later(d, x))
    BY <2>1, <2>2, <2>3, <2>5, <2>8
  <2> QED
    BY <1>2, <2>9 DEF B
<1>5. StretchLogged(b, u, d, n)
  BY <1>4 DEF StretchLogged
<1>6. ASSUME NEW w \in Int
      PROVE  /\ Cardinality({i \in During(b, w) : i > u}) <= MaxRequests
             /\ Cardinality({i \in During(b, w) : i <= u}) <= MaxRequests * k
  <2>1. {i \in During(b, w) : i <= u} = {i \in During(a, w) : i <= u}
    BY <1>1, <1>2 DEF During
  <2>2. CASE w < n
    <3>1. {i \in During(b, w) : i > u} = {i \in During(a, w) : i > u}
      BY <1>1, <1>2, <1>3, <2>2 DEF During
    <3> QED
      BY <2>1, <3>1 DEF WithinQuotas
  <2>3. CASE w >= n
    <3> DEFINE x == w - WindowMs
               B == {i \in During(b, w) : i > u}
               C == {i \in 1..Len(b) : i > u /\ b[i] > x}
    <3>1. x \in Int /\ n - WindowMs <= x
      BY <2>3, LogAssumption
    <3>2. Cardinality(C) <= Cardinality(Later(d, x))
      BY <1>4, <3>1
    <3>3. B \subseteq C /\ C \subseteq 1..(la + g)
      BY <1>2 DEF During
    <3>4. Cardinality(B) \in Nat /\ Cardinality(C) \in Nat /\ Cardinality(B) <= Cardinality(C)
      <4>1. la + g \in Nat
        OBVIOUS
      <4> HIDE DEF B, C
      <4>2. IsFiniteSet(C)
        BY <3>3, <4>1, Joined
      <4> QED
        BY <3>3, <4>2, FS_Subset, FS_CardinalityType
    <3>5. Cardinality(Later(d, x)) \in Nat /\ Cardinality(Later(d, x)) <= Len(d) /\ Len(d) \in Nat
      BY <1>2, LaterFew
    <3>6. Cardinality(B) <= MaxRequests
      <4> HIDE DEF B, C
      <4> QED
        BY <3>2, <3>4, <3>5, LogAssumption
    <3> QED
      BY <2>1, <3>6 DEF WithinQuotas
  <2> QED
    BY <2>2, <2>3
<1> QED
  BY <1>5, <1>6 DEF WithinQuotas

(* A write with an older reading (l.71-78): the log may have lost what the *)
(* window of that reading still covers, so it begins a stretch of its own. *)
LEMMA BackwardInQuota ==
  ASSUME NEW a \in Seq(Nat), NEW u \in Nat, u <= Len(a), NEW n \in Nat, NEW k \in Nat,
         WithinQuotas(a, u, k), NEW g \in Nat, NEW b, Lengthened(a, n, g, b),
         NEW log \in Seq(Nat), NEW d, Lengthened(log, n, g, d), Len(d) <= MaxRequests
  PROVE  StretchLogged(b, Len(a), d, n) /\ WithinQuotas(b, Len(a), k + 1)
<1>1. PICK la \in Nat : la = Len(a) /\ u <= la
  BY LenProperties
<1>2. /\ Len(b) = la + g /\ d \in Seq(Nat)
      /\ \A i \in 1..la : b[i] = a[i]
      /\ \A i \in 1..g : b[la + i] = n
  BY <1>1 DEF Lengthened
<1>3. g <= MaxRequests
  <2>1. Len(d) = Len(log) + g /\ Len(log) \in Nat
    BY LenProperties DEF Lengthened
  <2> QED
    BY <2>1, LogAssumption
<1>4. /\ IsFiniteSet((la + 1)..(la + g))
      /\ Cardinality((la + 1)..(la + g)) = g
  <2>1. /\ IsFiniteSet({} \cup (la + 1)..(la + g)) /\ Cardinality({}) = 0
        /\ Cardinality({} \cup (la + 1)..(la + g)) = Cardinality({}) + g
    <3>1. {} \subseteq 1..la
      OBVIOUS
    <3> QED
      BY <3>1, Joined, FS_EmptySet
  <2> QED
    BY <2>1
<1>5. ASSUME NEW S, S \subseteq (la + 1)..(la + g)
      PROVE  Cardinality(S) \in Nat /\ Cardinality(S) <= g
  BY <1>4, <1>5, FS_Subset, FS_CardinalityType
<1>6. ASSUME NEW x \in Int
      PROVE  Cardinality({i \in 1..Len(b) : i > la /\ b[i] > x}) <= Cardinality(Later(d, x))
  <2> DEFINE B == {i \in 1..(la + g) : i > la /\ b[i] > x}
  <2>1. Cardinality(Later(d, x)) = Cardinality(Later(log, x)) + (IF n > x THEN g ELSE 0)
    BY LaterOfLengthened
  <2>2. Cardinality(Later(log, x)) \in Nat
    BY LaterFew
  <2>3. B \subseteq (la + 1)..(la + g)
    OBVIOUS
  <2>4. ~(n > x) => B = {}
    <3>1. ASSUME NEW i \in (la + 1)..(la + g) PROVE b[i] = n
      <4>1. PICK j \in 1..g : i = la + j
        <5>1. i - la \in 1..g /\ i = la + (i - la)
          OBVIOUS
        <5> QED
          BY <5>1
      <4> QED
        BY <1>2, <4>1
    <3> QED
      BY <2>3, <3>1
  <2> HIDE DEF B
  <2>5. Cardinality(B) \in Nat /\ Cardinality(B) <= g /\ (B = {} => Cardinality(B) = 0)
    BY <1>5, <2>3, FS_EmptySet
  <2>6. Cardinality(B) <= Cardinality(Later(d, x))
    BY <2>1, <2>2, <2>4, <2>5
  <2> QED
    BY <1>2, <2>6 DEF B
<1>7. ASSUME NEW w \in Int
      PROVE  /\ Cardinality({i \in During(b, w) : i > la}) <= MaxRequests
             /\ Cardinality({i \in During(b, w) : i <= la}) <= MaxRequests * (k + 1)
  <2> DEFINE A1 == {i \in During(a, w) : i <= u}
             A2 == {i \in During(a, w) : i > u}
             B1 == {i \in During(b, w) : i <= la}
             B2 == {i \in During(b, w) : i > la}
  <2>1. B1 = A1 \cup A2
    BY <1>1, <1>2 DEF During
  <2>2. A1 \subseteq 1..la /\ A2 \subseteq 1..la /\ A1 \cap A2 = {}
    BY <1>1 DEF During
  <2>3. B2 \subseteq (la + 1)..(la + g)
    BY <1>2 DEF During
  <2>4. Cardinality(A1) <= MaxRequests * k /\ Cardinality(A2) <= MaxRequests
    BY DEF WithinQuotas
  <2> HIDE DEF A1, A2, B1, B2
  <2>5. /\ IsFiniteSet(A1) /\ Cardinality(A1) \in Nat
        /\ IsFiniteSet(A2) /\ Cardinality(A2) \in Nat
    BY <2>2, Joined
  <2>6. Cardinality(B1) = Cardinality(A1) + Cardinality(A2)
    <3>1. Cardinality(A1 \cup A2) = Cardinality(A1) + Cardinality(A2) - Cardinality(A1 \cap A2)
      BY <2>5, FS_Union
    <3>2. Cardinality(A1 \cap A2) = 0
      BY <2>2, FS_EmptySet
    <3> QED
      BY <2>1, <2>5, <3>1, <3>2
  <2>7. MaxRequests * (k + 1) = MaxRequests * k + MaxRequests /\ MaxRequests * k \in Nat
    BY LogAssumption
  <2>8. Cardinality(B1) <= MaxRequests * (k + 1)
    BY <2>4, <2>5, <2>6, <2>7, LogAssumption
  <2>9. Cardinality(B2) <= MaxRequests
    <3>1. Cardinality(B2) \in Nat /\ Cardinality(B2) <= g
      BY <1>5, <2>3
    <3> QED
      BY <1>3, <3>1, LogAssumption
  <2> QED
    BY <2>8, <2>9 DEF B1, B2
<1>8. StretchLogged(b, la, d, n)
  BY <1>6 DEF StretchLogged
<1>9. WithinQuotas(b, la, k + 1)
  BY <1>7 DEF WithinQuotas
<1> QED
  BY <1>1, <1>8, <1>9

(* Units let in since the last rewind, and what the log says of them.      *)
StretchesInOrder ==
  /\ rewinds.units <= Len(admitted)
  /\ StretchLogged(admitted, rewinds.units, entry, newest.time)
  /\ WithinQuotas(admitted, rewinds.units, rewinds.count)

LEMMA WriteInQuota ==
  ASSUME IInv, StretchesInOrder, NEW t \in Tasks, Write(t, Outcome(t)), Book(t, Granted(t))
  PROVE  StretchesInOrder'
<1>1. PICK n \in Nat, g \in Nat : n = now[t] /\ g = Granted(t)
  BY OutcomeTypes DEF IInv
<1>2. PICK b, d : b = admitted' /\ d = entry'
  OBVIOUS
<1>3. /\ d \in States /\ Lengthened(Kept(snap[t], n), n, g, d) /\ Lengthened(admitted, n, g, b)
  <2>1. b = admitted \o [i \in 1..Granted(t) |-> now[t]] /\ d = Outcome(t).state
    BY <1>2 DEF Book, Write
  <2>2. /\ Outcome(t).state \in States
        /\ Lengthened(Kept(snap[t], now[t]), now[t], Granted(t), Outcome(t).state)
        /\ Lengthened(admitted, now[t], Granted(t), admitted \o [i \in 1..Granted(t) |-> now[t]])
    BY OutcomeTypes DEF IInv
  <2> QED
    BY <1>1, <2>1, <2>2
<1>4. PICK a \in Seq(Nat), e \in Seq(Nat), m \in Nat, u \in Nat, k \in Nat :
        /\ a = admitted /\ e = entry /\ m = newest.time
        /\ u = rewinds.units /\ k = rewinds.count
  BY DEF IInv, TypeOK, LoopTypeOK, States
<1>5. snap[t] = e
  BY <1>4 DEF IInv, SnapshotsFaithful, Write
<1>6. /\ u <= Len(a) /\ StretchLogged(a, u, e, m) /\ WithinQuotas(a, u, k)
      /\ Lengthened(a, n, g, b) /\ Lengthened(Kept(e, n), n, g, d)
      /\ d \in Seq(Nat) /\ Len(d) <= MaxRequests
  BY <1>2, <1>3, <1>4, <1>5 DEF StretchesInOrder, States
<1>7. Kept(e, n) \in Seq(Nat)
  BY KeptBound
<1>8. \A x \in Int : n - WindowMs <= x => Cardinality(Later(Kept(e, n), x)) = Cardinality(Later(e, x))
  BY KeptLater
<1>9. /\ Len(a) \in Nat /\ Len(b) \in Nat /\ Len(a) <= Len(b)
      /\ newest'.time = n
      /\ rewinds' = IF m <= n THEN rewinds ELSE [count |-> k + 1, units |-> Len(a)]
  <2>1. Len(a) \in Nat /\ Len(b) = Len(a) + g
    BY <1>6, LenProperties DEF Lengthened
  <2> QED
    BY <1>1, <1>2, <1>4, <2>1 DEF Book
<1>10. CASE m <= n
  <2>1. rewinds'.units = u /\ rewinds'.count = k
    BY <1>4, <1>9, <1>10
  <2>2. StretchLogged(b, u, d, n) /\ WithinQuotas(b, u, k)
    BY <1>6, <1>7, <1>8, <1>10, OnwardInQuota
  <2>3. u <= Len(b)
    BY <1>6, <1>9
  <2> QED
    BY <1>2, <1>9, <2>1, <2>2, <2>3 DEF StretchesInOrder
<1>11. CASE ~(m <= n)
  <2>1. rewinds'.units = Len(a) /\ rewinds'.count = k + 1
    BY <1>9, <1>11
  <2>2. StretchLogged(b, Len(a), d, n) /\ WithinQuotas(b, Len(a), k + 1)
    BY <1>6, <1>7, BackwardInQuota
  <2> QED
    BY <1>2, <1>9, <2>1, <2>2 DEF StretchesInOrder
<1> QED
  BY <1>10, <1>11

LEMMA NextInQuota == IInv /\ StretchesInOrder /\ [Next]_vars => StretchesInOrder'
<1> SUFFICES ASSUME IInv, StretchesInOrder, [Next]_vars PROVE StretchesInOrder'
  OBVIOUS
<1>1. ASSUME UNCHANGED <<entry, ledger>> PROVE StretchesInOrder'
  BY <1>1 DEF StretchesInOrder, ledger
<1>2. ASSUME NEW t \in Tasks, Commit(t, Outcome(t)) \/ CommitUnseen(t, Outcome(t)),
             Book(t, Granted(t))
      PROVE  StretchesInOrder'
  BY <1>2, WriteInQuota DEF Commit, CommitUnseen
<1>3. ASSUME NEW t \in Tasks, UNCHANGED ledger,
             \/ \E c \in Costs : Begin(t, c)
             \/ Get(t, Fresh(now[t]))
             \/ Conflict(t)
             \/ Wake(t)
             \/ Abandon(t)
      PROVE  StretchesInOrder'
  BY <1>1, <1>3 DEF Begin, Get, Conflict, Wake, Abandon, store
<1>4. CASE (Tick /\ UNCHANGED ledger) \/ UNCHANGED vars
  BY <1>1, <1>4 DEF Tick, vars, loopVars, store
<1> QED
  BY <1>2, <1>3, <1>4 DEF Next

(* Bursts (l.6, l.71): in whatever order the readings reach the store, a   *)
(* stretch of time as long as the window sees MaxRequests units let in, and *)
(* as many again for every write whose reading was older than the last.    *)
THEOREM BurstsCounted == Spec => []BurstPerRewind
<1>1. Init => StretchesInOrder
  <2> SUFFICES ASSUME Init PROVE StretchesInOrder
    OBVIOUS
  <2>1. <<>> \in Seq(Nat) /\ Len(<<>>) = 0
    BY EmptySeq
  <2>2. admitted = <<>> /\ entry = <<>> /\ rewinds.units = 0 /\ rewinds.count = 0
    BY DEF Init, LoopInit, Fresh
  <2>3. \A x : {i \in 1..Len(<<>>) : i > 0 /\ <<>>[i] > x} = {}
    BY <2>1
  <2>4. \A n : During(<<>>, n) = {}
    BY <2>1 DEF During
  <2>5. Cardinality({}) = 0 /\ \A x : Cardinality(Later(<<>>, x)) \in Nat
    BY <2>1, LaterFew, FS_EmptySet
  <2>6. StretchLogged(<<>>, 0, <<>>, newest.time)
    BY <2>3, <2>5 DEF StretchLogged
  <2>7. WithinQuotas(<<>>, 0, 0)
    <3>1. \A n : {i \in During(<<>>, n) : i > 0} = {} /\ {i \in During(<<>>, n) : i <= 0} = {}
      BY <2>4
    <3>2. 0 <= MaxRequests * 0 /\ 0 <= MaxRequests
      BY LogAssumption
    <3> QED
      BY <2>5, <3>1, <3>2 DEF WithinQuotas
  <2> QED
    BY <2>1, <2>2, <2>6, <2>7 DEF StretchesInOrder
<1>2. IInv /\ StretchesInOrder => BurstPerRewind
  <2> SUFFICES ASSUME IInv, StretchesInOrder, NEW n \in Times
               PROVE  Cardinality(SeenBy(n)) <= MaxRequests * (1 + rewinds.count)
    BY DEF BurstPerRewind
  <2> DEFINE A1 == {i \in During(admitted, n) : i <= rewinds.units}
             A2 == {i \in During(admitted, n) : i > rewinds.units}
  <2>1. PICK la \in Nat : la = Len(admitted) /\ DOMAIN admitted = 1..la
    BY LenProperties DEF IInv, TypeOK
  <2>2. rewinds.units \in Nat /\ rewinds.count \in Nat /\ n \in Int
    BY DEF IInv, TypeOK, Times
  <2>3. SeenBy(n) = A1 \cup A2 /\ A1 \subseteq 1..la /\ A2 \subseteq 1..la /\ A1 \cap A2 = {}
    BY <2>1, <2>2 DEF SeenBy, During
  <2>4. Cardinality(A1) <= MaxRequests * rewinds.count /\ Cardinality(A2) <= MaxRequests
    BY <2>2 DEF StretchesInOrder, WithinQuotas
  <2> HIDE DEF A1, A2
  <2>5. /\ IsFiniteSet(A1) /\ Cardinality(A1) \in Nat
        /\ IsFiniteSet(A2) /\ Cardinality(A2) \in Nat
    BY <2>3, Joined
  <2>6. Cardinality(SeenBy(n)) = Cardinality(A1) + Cardinality(A2)
    <3>1. Cardinality(A1 \cup A2) = Cardinality(A1) + Cardinality(A2) - Cardinality(A1 \cap A2)
      BY <2>5, FS_Union
    <3>2. Cardinality(A1 \cap A2) = 0
      BY <2>3, FS_EmptySet
    <3> QED
      BY <2>3, <2>5, <3>1, <3>2
  <2>7. /\ MaxRequests * (1 + rewinds.count) = MaxRequests * rewinds.count + MaxRequests
        /\ MaxRequests * rewinds.count \in Nat
    BY <2>2, LogAssumption
  <2> QED
    BY <2>4, <2>5, <2>6, <2>7, LogAssumption
<1> QED
  BY <1>1, <1>2, NextInQuota, Invariance, PTL DEF Spec

(* A denied caller of cost 1 that comes back after retry_after_ms          *)
(* (l.80-82) is let in if nobody else was decided meanwhile.               *)
THEOREM WaitsEnough == Spec => []RetryForOneSucceeds
<1>1. IInv => RetryForOneSucceeds
  <2> SUFFICES ASSUME IInv, NEW t \in Tasks, reply[t].verdict = "denied",
                      reply[t].stamp = version, cost[t] = 1, MaxRequests > 0
      PROVE  Evaluate(entry, now[t] + reply[t].wait, 1).allowed
    BY DEF RetryForOneSucceeds
  <2>1. /\ now[t] \in Nat /\ reply[t].wait \in Int /\ entry \in Seq(Nat) /\ Len(entry) <= MaxRequests
    BY DEF IInv, TypeOK, LoopTypeOK, States, Replies
  <2>2. PICK n \in Int : n = now[t] + reply[t].wait
    BY <2>1
  <2>3. entry # <<>> => entry[1] + WindowMs <= n
    BY <2>2 DEF IInv, WaitsInOrder
  <2>4. /\ Kept(entry, n) \in Seq(Nat) /\ Len(Kept(entry, n)) <= Len(entry)
        /\ entry # <<>> /\ ~Covers(entry[1], n) => Len(Kept(entry, n)) + 1 <= Len(entry)
    BY <2>1, <2>2, KeptBound
  <2>5. PICK l \in Nat : l = Len(entry) /\ l <= MaxRequests /\ DOMAIN entry = 1..l
    BY <2>1, LenProperties
  <2>6. PICK k \in Nat : k = Len(Kept(entry, n))
    BY <2>4, LenProperties
  <2>7. CASE entry = <<>>
    <3>1. l = 0
      BY <2>5, <2>7, EmptySeq
    <3>2. k + 1 <= MaxRequests
      BY <2>4, <2>5, <2>6, <3>1, LogAssumption
    <3> QED
      BY <2>2, <2>6, <3>2 DEF Evaluate, Fits
  <2>8. CASE entry # <<>>
    <3>1. entry[1] \in Nat
      <4>1. l > 0
        BY <2>1, <2>5, <2>8, EmptySeq
      <4> QED
        BY <2>1, <2>5, <4>1, ElementOfSeq
    <3>2. ~Covers(entry[1], n)
      BY <2>3, <2>8, <3>1, LogAssumption DEF Covers
    <3>3. k + 1 <= MaxRequests
      BY <2>4, <2>5, <2>6, <2>8, <3>2, LogAssumption
    <3> QED
      BY <2>2, <2>6, <3>3 DEF Evaluate, Fits
  <2> QED
    BY <2>7, <2>8
<1> QED
  BY <1>1, Invariance, PTL
-----------------------------------------------------------------------------
(* The loop implements the one-step limiter.                               *)

(* Whoever writes judges what is stored, as of a reading that is timely    *)
(* (sliding_window_log.rs l.53-111): an absent key reads as an empty log.   *)
LEMMA OutcomeIsJudgement ==
  ASSUME IInv, NEW t \in Tasks, Write(t, Outcome(t))
  PROVE  /\ Outcome(t) = Atomic!Judgement(t, now[t])
         /\ Atomic!Timely(t, now[t])
         /\ now[t] \in 0..clock
<1>1. pc[t] = "cas" /\ expected[t] = version
  BY DEF Write
<1>2. now[t] \in Nat /\ version \in Nat /\ clock \in Nat
  BY DEF IInv, TypeOK, LoopTypeOK
<1>3. snap[t] = IF version = 0 THEN Fresh(now[t]) ELSE entry
  BY <1>1, <1>2 DEF IInv, SnapshotsFaithful, Fresh
<1>4. now[t] <= clock /\ start[t].clock <= now[t] + Drift
  BY <1>1 DEF IInv, RoundsInOrder
<1> QED
  BY <1>2, <1>3, <1>4 DEF Outcome, Atomic!Judgement, Atomic!Timely

(* A step of the loop, seen from outside, is a step of the atomic limiter  *)
(* or no step at all: get, the sleeps and the lost rounds are invisible.   *)
LEMMA StepRefines == IInv /\ [Next]_vars => [Atomic!Next]_(Atomic!vars)
<1> SUFFICES ASSUME IInv, [Next]_vars PROVE [Atomic!Next]_(Atomic!vars)
  OBVIOUS
<1> DEFINE open == [t \in Tasks |-> pc[t] # "idle"]
<1>0. pc \in [Tasks -> Labels]
  BY DEF IInv, TypeOK, LoopTypeOK
<1>1. ASSUME NEW t \in Tasks, NEW c \in Costs, Begin(t, c)
      PROVE  Atomic!Ask(t, c)
  <2>1. ~open[t] /\ open' = [open EXCEPT ![t] = TRUE]
    BY <1>0, <1>1 DEF Begin
  <2> QED
    BY <1>1, <2>1 DEF Begin, NoReply, Reply, Atomic!Ask, Atomic!NoReply, Atomic!Reply, store
<1>2. ASSUME NEW t \in Tasks, Get(t, Fresh(now[t]))
      PROVE  UNCHANGED Atomic!vars
  <2>1. open' = open
    BY <1>0, <1>2 DEF Get
  <2> QED
    BY <1>2, <2>1 DEF Get, Atomic!vars, store
<1>3. ASSUME NEW t \in Tasks, Commit(t, Outcome(t))
      PROVE  \E n \in 0..clock : Atomic!Decide(t, n)
  <2>1. open[t] /\ open' = [open EXCEPT ![t] = FALSE]
    BY <1>0, <1>3 DEF Commit, Write
  <2>2. PICK n \in 0..clock : n = now[t]
    BY <1>3, OutcomeIsJudgement DEF Commit
  <2>3. Outcome(t) = Atomic!Judgement(t, n) /\ Atomic!Timely(t, n)
    BY <1>3, <2>2, OutcomeIsJudgement DEF Commit
  <2>4. Atomic!Decide(t, n)
    BY <1>3, <2>1, <2>3 DEF Commit, Write, Answer, Reply, Atomic!Decide, Atomic!Charge,
                              Atomic!Answer, Atomic!Reply
  <2> QED
    BY <2>4
<1>4. ASSUME NEW t \in Tasks, CommitUnseen(t, Outcome(t))
      PROVE  \E n \in 0..clock : Atomic!DecideUnseen(t, n) \/ Atomic!DecideUnseenAndRefuse(t, n)
  <2>1. open[t]
    BY <1>4 DEF CommitUnseen, Write
  <2>2. PICK n \in 0..clock : n = now[t]
    BY <1>4, OutcomeIsJudgement DEF CommitUnseen
  <2>3. Outcome(t) = Atomic!Judgement(t, n) /\ Atomic!Timely(t, n)
    BY <1>4, <2>2, OutcomeIsJudgement DEF CommitUnseen
  <2>4. Atomic!Charge(t, n) /\ t \in Unreliable
    BY <1>4, <2>1, <2>3 DEF CommitUnseen, Write, LoseRound, Atomic!Charge
  <2>5. CASE attempt[t] + 1 < MaxAttempts
    <3>1. open' = open /\ UNCHANGED reply
      BY <1>0, <1>4, <2>5 DEF CommitUnseen, Write, LoseRound
    <3> QED
      BY <2>4, <3>1 DEF Atomic!DecideUnseen
  <2>6. CASE ~(attempt[t] + 1 < MaxAttempts)
    <3>1. /\ open' = [open EXCEPT ![t] = FALSE]
          /\ reply' = [reply EXCEPT ![t] = Contended(version + 1)]
      BY <1>0, <1>4, <2>6 DEF CommitUnseen, Write, LoseRound
    <3> QED
      BY <2>4, <3>1 DEF Atomic!DecideUnseenAndRefuse, Contended, Reply,
                        Atomic!Contended, Atomic!Reply
  <2> QED
    BY <2>5, <2>6
<1>5. ASSUME NEW t \in Tasks, Conflict(t)
      PROVE  Atomic!Refuse(t) \/ UNCHANGED Atomic!vars
  <2>1. CASE attempt[t] + 1 < MaxAttempts
    <3>1. open' = open
      BY <1>0, <1>5, <2>1 DEF Conflict, LoseRound
    <3> QED
      BY <1>5, <2>1, <3>1 DEF Conflict, LoseRound, Atomic!vars, store
  <2>2. CASE ~(attempt[t] + 1 < MaxAttempts)
    <3>1. open[t] /\ open' = [open EXCEPT ![t] = FALSE]
      BY <1>0, <1>5, <2>2 DEF Conflict, LoseRound
    <3>2. t \in Unreliable \/ start[t].version + MaxAttempts <= version
      BY <1>5, <2>2, LastRoundHasCause DEF IInv, TypeOK
    <3> QED
      BY <1>5, <2>2, <3>1, <3>2 DEF Conflict, LoseRound, Contended, Reply, Atomic!Refuse,
                                     Atomic!Contended, Atomic!Reply, store
  <2> QED
    BY <2>1, <2>2
<1>6. ASSUME NEW t \in Tasks, Wake(t)
      PROVE  UNCHANGED Atomic!vars
  <2>1. open' = open
    BY <1>0, <1>6 DEF Wake
  <2> QED
    BY <1>6, <2>1 DEF Wake, Atomic!vars, store
<1>7. ASSUME NEW t \in Tasks, Abandon(t)
      PROVE  Atomic!Drop(t)
  <2>1. open[t] /\ open' = [open EXCEPT ![t] = FALSE]
    BY <1>0, <1>7 DEF Abandon
  <2> QED
    BY <1>7, <2>1 DEF Abandon, Atomic!Drop, store
<1>8. ASSUME Tick
      PROVE  Atomic!Tick
  BY <1>8 DEF Tick, Atomic!Tick, store, local
<1>9. ASSUME UNCHANGED loopVars
      PROVE  UNCHANGED Atomic!vars
  BY <1>9 DEF loopVars, store, local, Atomic!vars
<1>10. CASE UNCHANGED vars
  BY <1>9, <1>10 DEF vars
<1>11. ASSUME NEW t \in Tasks
       PROVE  /\ Commit(t, Outcome(t)) => Atomic!Next
              /\ CommitUnseen(t, Outcome(t)) => Atomic!Next
              /\ Conflict(t) => Atomic!Next \/ UNCHANGED Atomic!vars
  BY <1>3, <1>4, <1>5 DEF Atomic!Next
<1> QED
  BY <1>1, <1>2, <1>6, <1>7, <1>8, <1>10, <1>11 DEF Next, Atomic!Next

(* Every answer is the answer of a check that ran alone at one moment      *)
(* (sliding_window_log.rs l.53-111): the awaits between clock, get and cas  *)
(* cannot be told from outside.                                            *)
THEOREM Atomicity == Spec => ChecksAreAtomic
<1>1. Init => Atomic!Init
  BY DEF Init, LoopInit, NoReply, Reply, Atomic!Init, Atomic!NoReply, Atomic!Reply
<1> QED
  BY <1>1, Invariance, StepRefines, PTL DEF Spec, ChecksAreAtomic, Atomic!Spec
-----------------------------------------------------------------------------
\* What the key may hold at time n, and what that still lets in at once.
StoredAt(n) == {s \in States : \A i \in 1..Len(s) : s[i] = n}
RoomOf(s) == MaxRequests - Len(s)

(* What Service asks of a limiter (its AlgorithmAssumption): at any one    *)
(* time, decisions take what they let in from a room that is the limit      *)
(* at first (sliding_window_log.rs l.67-83).                               *)
THEOREM TakesFromRoom ==
  ASSUME NEW n \in Nat
  PROVE  /\ Fresh(n) \in StoredAt(n) /\ RoomOf(Fresh(n)) <= MaxRequests
         /\ \A s \in StoredAt(n) : RoomOf(s) \in Nat
         /\ \A s \in StoredAt(n), k \in Nat : LET out == Evaluate(s, n, k) IN
              /\ out.state \in StoredAt(n) /\ out.allowed \in BOOLEAN
              /\ out.remaining \in Int /\ out.wait \in Int
              /\ RoomOf(out.state) + (IF out.allowed THEN k ELSE 0) <= RoomOf(s)
<1>1. Fresh(n) \in StoredAt(n) /\ RoomOf(Fresh(n)) = MaxRequests
  <2>1. Fresh(n) \in Seq(Nat) /\ Len(Fresh(n)) = 0 /\ 1..0 = {}
    BY EmptySeq DEF Fresh
  <2> QED
    BY <2>1, LogAssumption DEF StoredAt, States, RoomOf
<1>2. ASSUME NEW s \in StoredAt(n)
      PROVE  /\ s \in States /\ s \in Seq(Nat) /\ Len(s) \in 0..MaxRequests
             /\ DOMAIN s = 1..Len(s) /\ \A i \in 1..Len(s) : s[i] = n
             /\ RoomOf(s) \in Nat
  <2>1. s \in States /\ s \in Seq(Nat) /\ Len(s) <= MaxRequests /\ \A i \in 1..Len(s) : s[i] = n
    BY DEF StoredAt, States
  <2>2. Len(s) \in Nat /\ DOMAIN s = 1..Len(s)
    BY <2>1, LenProperties
  <2> QED
    BY <2>1, <2>2, LogAssumption DEF RoomOf
<1>3. ASSUME NEW s \in StoredAt(n)
      PROVE  /\ Kept(s, n) \in Seq(Nat) /\ Len(Kept(s, n)) = Len(s)
             /\ \A i \in 1..Len(s) : Kept(s, n)[i] = n
  <2>1. PICK l \in Nat : l = Len(s) /\ DOMAIN s = 1..l
    BY <1>2
  <2>2. \A i \in 1..l : s[i] = n
    BY <1>2, <2>1
  <2>3. Sorted(s)
    BY <2>1, <2>2 DEF Sorted
  <2>4. PICK k \in 0..l : Splits(s, n, Kept(s, n), l, k)
    BY <1>2, <2>1, <2>3, KeptOfSorted
  <2>5. \A i \in 1..l : Covers(s[i], n)
    BY <2>2, LogAssumption DEF Covers
  <2>6. \A i \in 1..l : i > k
    BY <2>4, <2>5 DEF Splits
  <2>7. k = 0
    <3> SUFFICES ASSUME k # 0 PROVE FALSE
      OBVIOUS
    <3>1. k \in 1..l
      OBVIOUS
    <3> QED
      BY <2>6, <3>1
  <2>8. /\ Kept(s, n) \in Seq(Nat) /\ Len(Kept(s, n)) = l
        /\ \A i \in 1..l : Kept(s, n)[i] = s[i]
    BY <2>4, <2>7 DEF Splits
  <2> QED
    BY <2>1, <2>2, <2>8
<1>4. ASSUME NEW s \in StoredAt(n), NEW k \in Nat
      PROVE  LET out == Evaluate(s, n, k) IN
               /\ out.state \in StoredAt(n) /\ out.allowed \in BOOLEAN
               /\ out.remaining \in Int /\ out.wait \in Int
               /\ RoomOf(out.state) + (IF out.allowed THEN k ELSE 0) <= RoomOf(s)
  <2> DEFINE out == Evaluate(s, n, k)
  <2>1. PICK g \in Nat : g = IF out.allowed THEN k ELSE 0
    OBVIOUS
  <2>2. /\ out.state \in States /\ out.allowed \in BOOLEAN
        /\ out.remaining \in Int /\ out.wait \in Int
        /\ Lengthened(Kept(s, n), n, g, out.state)
    BY <1>2, <2>1, EvaluateFacts
  <2> HIDE DEF out
  <2>3. PICK l \in 0..MaxRequests : l = Len(s)
    BY <1>2
  <2>4. /\ Len(out.state) = l + g
        /\ \A i \in 1..l : out.state[i] = n
        /\ \A i \in 1..g : out.state[l + i] = n
    BY <1>3, <2>2, <2>3 DEF Lengthened
  <2>5. ASSUME NEW i \in 1..(l + g)
        PROVE  out.state[i] = n
    <3>1. CASE i <= l
      BY <2>4, <3>1
    <3>2. CASE ~(i <= l)
      <4>1. i - l \in 1..g /\ l + (i - l) = i
        BY <3>2
      <4> QED
        BY <2>4, <4>1
    <3> QED
      BY <3>1, <3>2
  <2>6. out.state \in StoredAt(n)
    BY <2>2, <2>4, <2>5 DEF StoredAt
  <2>7. RoomOf(out.state) + g <= RoomOf(s)
    BY <2>3, <2>4, LogAssumption DEF RoomOf
  <2> QED
    BY <2>1, <2>2, <2>6, <2>7 DEF out
<1> QED
  BY <1>1, <1>2, <1>4, LogAssumption
=============================================================================
