----------------------------- MODULE StoreProofs -----------------------------
(***************************************************************************)
(* Proofs about the two stores: versions are handed out once, and each     *)
(* store implements StateStore.                                            *)
(***************************************************************************)
EXTENDS EtcdStore, FiniteSetTheorems, SequenceTheorems, TLAPS

\* Sizes of a set and of another that has one element more or less.
LEMMA NoMore ==
  ASSUME NEW S, IsFiniteSet(S), NEW T, T \subseteq S
  PROVE  Cardinality(S) \in Nat /\ Cardinality(T) \in Nat /\ Cardinality(T) <= Cardinality(S)
  BY FS_Subset, FS_CardinalityType

LEMMA AtMostOneMore ==
  ASSUME NEW S, IsFiniteSet(S), NEW c, NEW T, T \subseteq S \cup {c}
  PROVE  /\ Cardinality(S) \in Nat /\ Cardinality(T) \in Nat
         /\ Cardinality(T) <= Cardinality(S) + 1
  <1>1. /\ IsFiniteSet(S \cup {c})
        /\ Cardinality(S \cup {c}) = IF c \in S THEN Cardinality(S) ELSE Cardinality(S) + 1
    BY FS_AddElement
  <1>2. Cardinality(T) \in Nat /\ Cardinality(T) <= Cardinality(S \cup {c})
    BY <1>1, NoMore
  <1>3. Cardinality(S) \in Nat
    BY FS_CardinalityType
  <1>4. QED
    BY <1>1, <1>2, <1>3

LEMMA AtLeastOneLess ==
  ASSUME NEW S, IsFiniteSet(S), NEW c \in S, NEW T, T \subseteq S \ {c}
  PROVE  /\ Cardinality(S) \in Nat /\ Cardinality(T) \in Nat
         /\ Cardinality(T) + 1 <= Cardinality(S)
  <1>1. IsFiniteSet(S \ {c}) /\ Cardinality(S \ {c}) = Cardinality(S) - 1
    BY FS_RemoveElement
  <1>2. Cardinality(T) \in Nat /\ Cardinality(T) <= Cardinality(S \ {c})
    BY <1>1, NoMore
  <1>3. Cardinality(S) \in Nat
    BY FS_CardinalityType
  <1>4. QED
    BY <1>1, <1>2, <1>3

VARIABLES counter, stamp

Local == INSTANCE LocalStore

(***************************************************************************)
(* The in-process store.                                                   *)
(***************************************************************************)

LEMMA SameCardinality ==
  ASSUME NEW S
  PROVE  Local!Cardinality(S) = Cardinality(S)
  BY DEF Local!Cardinality, Cardinality

LEMMA LocalInit == Local!Init => Local!IInv
  <1> SUFFICES ASSUME Local!Init PROVE Local!IInv
    OBVIOUS
  <1>1. Local!Owing = {}
    BY DEF Local!Init, Local!CallsInit, Local!Owing, Local!Waits, Local!Idle
  <1>2. Local!TypeOK
    BY StoreAssumption DEF Local!Init, Local!CallsInit, Local!TypeOK, Local!CallsTypeOK, Local!Entries, Local!Absent,
      Local!Pending, Local!Reply, Local!Replies, Local!Requests, Local!Idle
  <1>3. QED
    BY <1>1, <1>2, FS_EmptySet, SameCardinality DEF Local!IInv, Local!Init, Local!CallsInit

LEMMA LocalInitRefines == Local!Init => Local!Promise!Init
  BY DEF Local!Init, Local!Promise!Init, Local!CallsInit, Local!Promise!CallsInit,
    Local!Absent, Local!Promise!Absent, Local!Idle, Local!Promise!Idle,
    Local!Pending, Local!Promise!Pending, Local!Reply, Local!Promise!Reply

\* The bound, with the types that arithmetic needs.
LEMMA LocalOwing ==
  ASSUME Local!IInv
  PROVE  /\ IsFiniteSet(Local!Owing) /\ Cardinality(Local!Owing) \in Nat
         /\ counter + Cardinality(Local!Owing) <= calls + 1
         /\ counter \in Nat /\ calls \in 0..MaxCalls
  <1>1. Local!Owing \subseteq Callers
    BY DEF Local!Owing
  <1>2. IsFiniteSet(Local!Owing) /\ Cardinality(Local!Owing) \in Nat
    BY <1>1, StoreAssumption, FS_Subset, FS_CardinalityType
  <1>3. QED
    BY <1>2, SameCardinality DEF Local!IInv, Local!TypeOK, Local!CallsTypeOK

\* A step of a caller that takes a version, of any call, moves the bound on;
\* the others leave it alone.
LEMMA LocalBound ==
  ASSUME Local!IInv, [Local!Next]_Local!vars
  PROVE  (counter + Cardinality(Local!Owing) <= calls + 1)'
  <1> USE DEF Local!Waits, Local!Answer, Local!Owing, Local!Idle, Local!Pending, Local!Reply
  <1>1. /\ IsFiniteSet(Local!Owing) /\ Cardinality(Local!Owing) \in Nat
        /\ counter + Cardinality(Local!Owing) <= calls + 1
        /\ counter \in Nat /\ calls \in Nat /\ reply \in [Callers -> Local!Replies]
        /\ request \in [Callers -> {Local!Idle} \cup Local!Requests(written)]
        /\ stamp \in [Callers -> Nat]
    BY LocalOwing, StoreAssumption DEF Local!IInv, Local!TypeOK, Local!CallsTypeOK
  <1>2. ASSUME NEW c \in Callers, Local!Call(c), UNCHANGED <<counter, stamp>>
        PROVE  (counter + Cardinality(Local!Owing) <= calls + 1)'
    <2>1. (Local!Owing)' \subseteq Local!Owing \cup {c}
      BY <1>1, <1>2 DEF Local!Call
    <2>2. Cardinality((Local!Owing)') \in Nat /\ Cardinality((Local!Owing)') <= Cardinality(Local!Owing) + 1
      BY <1>1, <2>1, AtMostOneMore
    <2>3. counter' = counter /\ calls' = calls + 1
      BY <1>2 DEF Local!Call
    <2>4. QED
      BY <1>1, <2>2, <2>3
  <1>3. ASSUME NEW c \in Callers, Local!PutStamp(c) \/ Local!CasStore(c)
        PROVE  (counter + Cardinality(Local!Owing) <= calls + 1)'
    <2>1. c \in Local!Owing /\ (Local!Owing)' \subseteq Local!Owing \ {c}
      BY <1>1, <1>3 DEF Local!PutStamp, Local!CasStore, Local!Writing, Local!callVars, Local!IInv, Local!TypeOK
    <2>2. Cardinality((Local!Owing)') \in Nat /\ Cardinality((Local!Owing)') + 1 <= Cardinality(Local!Owing)
      BY <1>1, <2>1, AtLeastOneLess
    <2>3. counter' = counter + 1 /\ calls' = calls
      BY <1>3 DEF Local!PutStamp, Local!CasStore, Local!CountUp, Local!callVars
    <2>4. QED
      BY <1>1, <2>2, <2>3
  <1>4. ASSUME (Local!Owing)' \subseteq Local!Owing, counter' = counter, calls' = calls
        PROVE  (counter + Cardinality(Local!Owing) <= calls + 1)'
    <2>1. Cardinality((Local!Owing)') \in Nat /\ Cardinality((Local!Owing)') <= Cardinality(Local!Owing)
      BY <1>1, <1>4, NoMore
    <2>2. QED
      BY <1>1, <1>4, <2>1
  <1>5. ASSUME NEW c \in Callers, Local!Return(c), UNCHANGED <<counter, stamp>>
        PROVE  (counter + Cardinality(Local!Owing) <= calls + 1)'
    BY <1>1, <1>4, <1>5 DEF Local!Return, Local!Leave, Local!Writing
  <1>6. ASSUME NEW c \in Callers,
               Local!Get(c) \/ Local!PingHere(c) \/ Local!CasRefuse(c) \/ Local!PutInsert(c)
        PROVE  (counter + Cardinality(Local!Owing) <= calls + 1)'
    <2>1. \A d \in Callers : reply[d] # Local!Pending => reply'[d] # Local!Pending
      BY <1>1, <1>6 DEF Local!Get, Local!PingHere, Local!CasRefuse, Local!PutInsert, Local!Found
    <2>2. counter' = counter /\ calls' = calls /\ request' = request
      BY <1>6 DEF Local!Get, Local!PingHere, Local!CasRefuse, Local!PutInsert
    <2>3. \A d \in Callers : stamp'[d] = stamp[d] \/ (stamp'[d] = 0 /\ reply'[d] # Local!Pending)
      BY <1>1, <1>6 DEF Local!Get, Local!PingHere, Local!CasRefuse, Local!PutInsert
    <2>4. QED
      BY <1>4, <2>1, <2>2, <2>3
  <1>7. CASE UNCHANGED Local!vars
    BY <1>4, <1>7 DEF Local!vars, Local!callVars
  <1>8. QED
    BY <1>2, <1>3, <1>5, <1>6, <1>7 DEF Local!Next
\* Types, and the order of versions, under every step.
LEMMA LocalTypes ==
  ASSUME Local!IInv, [Local!Next]_Local!vars
  PROVE  Local!TypeOK'
  <1> USE DEF Local!Waits, Local!Answer, Local!Idle, Local!Pending, Local!Reply, Local!CallsTypeOK,
              Local!TypeOK, Local!Absent
  <1>1. Local!TypeOK
    BY DEF Local!IInv
  <1>2. \A K, L : K \subseteq L => Local!Requests(K) \subseteq Local!Requests(L)
    BY DEF Local!Requests, Local!Swaps
  <1>3. ASSUME NEW c \in Callers, Local!Call(c), UNCHANGED <<counter, stamp>>
        PROVE  Local!TypeOK'
    <2>1. request' \in [Callers -> {Local!Idle} \cup Local!Requests(written)] /\ calls' \in 0..MaxCalls
      BY <1>1, <1>3, StoreAssumption DEF Local!Call
    <2>2. stamp[c] = 0 /\ \A d \in Callers : d # c => request'[d] = request[d]
      BY <1>1, <1>3 DEF Local!Call
    <2>3. QED
      BY <1>1, <1>3, <2>1, <2>2 DEF Local!Call
  <1>4. ASSUME NEW c \in Callers, Local!Return(c), UNCHANGED <<counter, stamp>>
        PROVE  Local!TypeOK'
    <2>1. stamp[c] = 0
      BY <1>1, <1>4 DEF Local!Return
    <2>2. /\ request' \in [Callers -> {Local!Idle} \cup Local!Requests(written)]
          /\ reply' \in [Callers -> Local!Replies]
          /\ UNCHANGED <<data, written, calls>>
      BY <1>1, <1>4 DEF Local!Return, Local!Leave, Local!Replies
    <2>3. \A d \in Callers : d # c => request'[d] = request[d] /\ reply'[d] = reply[d]
      BY <1>1, <1>4 DEF Local!Return, Local!Leave
    <2>4. QED
      BY <1>1, <1>4, <2>1, <2>2, <2>3
  <1>5. ASSUME NEW c \in Callers, Local!Get(c) \/ Local!PingHere(c) \/ Local!CasRefuse(c)
        PROVE  Local!TypeOK'
    <2>1. Local!Waits(c) /\ UNCHANGED <<data, written, request, calls, counter, stamp>>
      BY <1>5 DEF Local!Get, Local!PingHere, Local!CasRefuse
    <2>2. Local!EntryOf(request[c]).version \in Nat /\ Local!EntryOf(request[c]).value \in Values \cup {Nothing}
      BY <1>1, <2>1 DEF Local!EntryOf, Local!Entries, Local!Requests, Local!Gets, Local!Puts, Local!Swaps, Local!Ping
    <2>3. reply' \in [Callers -> Local!Replies] /\ \A d \in Callers : d # c => reply'[d] = reply[d]
      <3>1. Local!Found(request[c], Local!EntryOf(request[c])) \in Local!Replies
        BY <1>1, <2>2 DEF Local!Found, Local!Replies
      <3>2. \E a \in Local!Replies : reply' = [reply EXCEPT ![c] = a]
        BY <1>5, <3>1 DEF Local!Get, Local!PingHere, Local!CasRefuse, Local!Replies
      <3>3. QED
        BY <1>1, <3>2
    <2>4. stamp[c] = 0
      BY <1>1, <1>5 DEF Local!Get, Local!PingHere, Local!CasRefuse
    <2>5. QED
      BY <1>1, <2>1, <2>3, <2>4
  <1>6. ASSUME NEW c \in Callers, Local!PutStamp(c)
        PROVE  Local!TypeOK'
    <2>1. stamp' \in [Callers -> Nat] /\ counter' = counter + 1 /\ counter' \in Nat \ {0}
      BY <1>1, <1>6 DEF Local!PutStamp, Local!CountUp
    <2>2. stamp'[c] = counter /\ \A d \in Callers : d # c => stamp'[d] = stamp[d]
      BY <1>1, <1>6 DEF Local!PutStamp
    <2>3. UNCHANGED <<data, written, request, reply, calls>>
      BY <1>6 DEF Local!PutStamp, Local!callVars
    <2>4. \A v \in written : v < counter + 1 /\ v # counter
      BY <1>1
    <2>5. \A d \in Callers : stamp'[d] # 0 =>
            /\ stamp'[d] < counter + 1 /\ stamp'[d] \notin written
            /\ request[d].op = "put" /\ reply[d] = Local!Pending
      BY <1>1, <1>6, <2>2, <2>4 DEF Local!PutStamp
    <2>6. \A d, e \in Callers : stamp'[d] # 0 /\ stamp'[d] = stamp'[e] => d = e
      BY <1>1, <2>2
    <2>7. QED
      BY <1>1, <2>1, <2>3, <2>4, <2>5, <2>6
  <1>7. ASSUME NEW r \in Local!Puts \cup Local!Swaps(written), NEW v \in Nat \ {0}, Local!Install(r, v)
        PROVE  /\ data' \in [Keys -> Local!Entries] /\ written' = written \cup {v}
               /\ written' \subseteq Nat \ {0}
               /\ \A k \in Keys : data'[k] # Local!Absent => data'[k].version \in written'
    <2>1. data' \in [Keys -> Local!Entries]
      BY <1>1, <1>7 DEF Local!Install, Local!Puts, Local!Swaps, Local!Entries
    <2>2. QED
      BY <1>1, <1>7, <2>1 DEF Local!Install, Local!Puts, Local!Swaps
  <1>8. ASSUME NEW c \in Callers, Local!PutInsert(c)
        PROVE  Local!TypeOK'
    <2>1. request[c] \in Local!Puts /\ stamp[c] \in Nat \ {0} /\ stamp[c] < counter /\ reply[c] = Local!Pending
      BY <1>1, <1>8 DEF Local!PutInsert, Local!Requests, Local!Ping, Local!Gets, Local!Puts, Local!Swaps
    <2>2. /\ data' \in [Keys -> Local!Entries] /\ written' = written \cup {stamp[c]}
          /\ written' \subseteq Nat \ {0}
          /\ \A k \in Keys : data'[k] # Local!Absent => data'[k].version \in written'
      BY <1>7, <1>8, <2>1 DEF Local!PutInsert
    <2>3. /\ request' \in [Callers -> {Local!Idle} \cup Local!Requests(written')]
          /\ reply' \in [Callers -> Local!Replies] /\ stamp' \in [Callers -> Nat]
          /\ request' = request /\ counter' = counter /\ calls' = calls
      BY <1>1, <1>2, <1>8, <2>1, <2>2 DEF Local!PutInsert, Local!Replies
    <2>4. /\ stamp'[c] = 0
          /\ \A d \in Callers : d # c => stamp'[d] = stamp[d] /\ reply'[d] = reply[d]
      BY <1>1, <1>8 DEF Local!PutInsert
    <2>5. \A v \in written' : v < counter'
      BY <1>1, <2>1, <2>2, <2>3
    <2>6. \A d \in Callers : stamp'[d] # 0 =>
            /\ stamp'[d] < counter' /\ stamp'[d] \notin written'
            /\ request'[d].op = "put" /\ reply'[d] = Local!Pending
      BY <1>1, <2>1, <2>2, <2>3, <2>4
    <2>7. \A d, e \in Callers : stamp'[d] # 0 /\ stamp'[d] = stamp'[e] => d = e
      BY <1>1, <2>4
    <2>8. counter' \in Nat \ {0} /\ calls' \in 0..MaxCalls
      BY <1>1, <2>3
    <2>9. QED
      BY <2>2, <2>3, <2>5, <2>6, <2>7, <2>8
  <1>9. ASSUME NEW c \in Callers, Local!CasStore(c)
        PROVE  Local!TypeOK'
    <2>1. request[c] \in Local!Swaps(written) /\ stamp[c] = 0
      BY <1>1, <1>9 DEF Local!CasStore, Local!Requests, Local!Ping, Local!Gets, Local!Puts, Local!Swaps
    <2>2. /\ data' \in [Keys -> Local!Entries] /\ written' = written \cup {counter}
          /\ written' \subseteq Nat \ {0}
          /\ \A k \in Keys : data'[k] # Local!Absent => data'[k].version \in written'
      BY <1>1, <1>7, <1>9, <2>1 DEF Local!CasStore
    <2>3. /\ request' \in [Callers -> {Local!Idle} \cup Local!Requests(written')]
          /\ reply' \in [Callers -> Local!Replies] /\ stamp' = stamp
          /\ request' = request /\ counter' = counter + 1 /\ calls' = calls
      BY <1>1, <1>2, <1>9, <2>1, <2>2 DEF Local!CasStore, Local!CountUp, Local!Replies
    <2>4. \A d \in Callers : d # c => reply'[d] = reply[d]
      BY <1>1, <1>9 DEF Local!CasStore
    <2>5. \A v \in written' : v < counter'
      BY <1>1, <2>2, <2>3
    <2>6. \A d \in Callers : stamp'[d] # 0 =>
            /\ stamp'[d] < counter' /\ stamp'[d] \notin written'
            /\ request'[d].op = "put" /\ reply'[d] = Local!Pending
      <3>1. \A d \in Callers : stamp[d] # 0 => d # c /\ stamp[d] < counter /\ stamp[d] \in Nat
        BY <1>1, <2>1
      <3>2. QED
        BY <1>1, <2>2, <2>3, <2>4, <3>1
    <2>7. counter' \in Nat \ {0} /\ calls' \in 0..MaxCalls
      BY <1>1, <2>3
    <2>8. QED
      BY <1>1, <2>2, <2>3, <2>5, <2>6, <2>7
  <1>10. CASE UNCHANGED Local!vars
    BY <1>1, <1>10 DEF Local!vars, Local!callVars
  <1>11. QED
    BY <1>3, <1>4, <1>5, <1>6, <1>8, <1>9, <1>10 DEF Local!Next

\* Whatever the order threads take the mutex in, versions are given once and
\* no call takes two (local.rs l.27-62).
THEOREM LocalInvariance == Local!Spec => []Local!IInv
  <1>1. Local!IInv /\ [Local!Next]_Local!vars => Local!IInv'
    BY LocalBound, LocalTypes, SameCardinality DEF Local!IInv
  <1>2. QED
    BY LocalInit, <1>1, PTL DEF Local!Spec

\* In particular no two puts have the same version under way, and none a
\* version that is in the map.
THEOREM LocalTypeCorrect == Local!Spec => []Local!TypeOK
  BY LocalInvariance, PTL DEF Local!IInv
\* A step of the store is one step of StateStore, or none: a read or a failed
\* cas reads, a cas that agrees and an insertion write, and the version that a
\* put takes beforehand is not yet to be seen.
LEMMA LocalStep ==
  ASSUME Local!IInv, [Local!Next]_Local!vars
  PROVE  [Local!Promise!Next]_(Local!Promise!vars)
  <1> USE DEF Local!Waits, Local!Promise!Waits, Local!Answer, Local!Promise!Answer, Local!Idle,
              Local!Promise!Idle, Local!Pending, Local!Promise!Pending, Local!Reply, Local!Promise!Reply,
              Local!Writing, Local!Promise!Writing
  <1>1. Local!TypeOK
    BY DEF Local!IInv
  <1>2. /\ \A r : Local!EntryOf(r) = Local!Promise!EntryOf(r)
        /\ \A r, e : Local!Found(r, e) = Local!Promise!Found(r, e)
        /\ \A r, e : Local!Matches(r, e) = Local!Promise!Matches(r, e)
        /\ \A r, v : Local!Install(r, v) = Local!Promise!Install(r, v)
        /\ \A K : Local!Requests(K) = Local!Promise!Requests(K)
    BY DEF Local!EntryOf, Local!Promise!EntryOf, Local!Found, Local!Promise!Found, Local!Matches,
      Local!Promise!Matches, Local!Install, Local!Promise!Install, Local!Requests, Local!Promise!Requests,
      Local!Ping, Local!Promise!Ping, Local!Absent, Local!Promise!Absent, Local!Gets, Local!Promise!Gets,
      Local!Puts, Local!Promise!Puts, Local!Swaps, Local!Promise!Swaps
  <1>3. ASSUME NEW c \in Callers, Local!Call(c)
        PROVE  Local!Promise!Next
    BY <1>2, <1>3 DEF Local!Call, Local!Promise!Call, Local!Promise!Next
  <1>4. ASSUME NEW c \in Callers, Local!Return(c)
        PROVE  Local!Promise!Next
    BY <1>4 DEF Local!Return, Local!Leave, Local!Promise!Return, Local!Promise!Leave, Local!Promise!Next
  <1>5. ASSUME NEW c \in Callers, Local!Get(c) \/ Local!PingHere(c) \/ Local!CasRefuse(c)
        PROVE  Local!Promise!Read(c)
    BY <1>2, <1>5 DEF Local!Get, Local!PingHere, Local!CasRefuse, Local!Agrees, Local!Promise!Read, Local!Found
  <1>6. ASSUME NEW c \in Callers, Local!PutStamp(c)
        PROVE  UNCHANGED Local!Promise!vars
    BY <1>6 DEF Local!PutStamp, Local!callVars, Local!Promise!callVars, Local!Promise!vars
  <1>7. ASSUME NEW c \in Callers, Local!PutInsert(c)
        PROVE  Local!Promise!Write(c)
    <2>1. request[c].op = "put" /\ reply[c] = Local!Pending /\ request[c] # Local!Idle
      BY <1>1, <1>7 DEF Local!PutInsert, Local!TypeOK
    <2>2. stamp[c] \in (1..MaxCalls) \ written
      <3>1. stamp[c] \in Nat /\ stamp[c] < counter /\ stamp[c] # 0 /\ stamp[c] \notin written
        BY <1>1, <1>7 DEF Local!PutInsert, Local!TypeOK
      <3>2. QED
        BY <3>1, LocalOwing, StoreAssumption
    <2>3. QED
      BY <1>2, <1>7, <2>1, <2>2 DEF Local!PutInsert, Local!Promise!Write, Local!Matches
  <1>8. ASSUME NEW c \in Callers, Local!CasStore(c)
        PROVE  Local!Promise!Write(c)
    <2>1. counter \in (1..MaxCalls) \ written
      <3>1. c \in Local!Owing
        BY <1>1, <1>8 DEF Local!CasStore, Local!Owing, Local!TypeOK
      <3>2. Cardinality({}) \in Nat /\ Cardinality({}) + 1 <= Cardinality(Local!Owing)
        BY <3>1, LocalOwing, AtLeastOneLess
      <3>3. counter \in Nat \ {0} /\ counter \notin written
        BY <1>1 DEF Local!TypeOK, Local!CallsTypeOK
      <3>4. QED
        BY <3>2, <3>3, LocalOwing, StoreAssumption
    <2>2. QED
      BY <1>2, <1>8, <2>1 DEF Local!CasStore, Local!Agrees, Local!Promise!Write
  <1>9. CASE UNCHANGED Local!vars
    BY <1>9 DEF Local!vars, Local!callVars, Local!Promise!callVars, Local!Promise!vars
  <1>10. QED
    BY <1>3, <1>4, <1>5, <1>6, <1>7, <1>8, <1>9 DEF Local!Next, Local!Promise!Next

\* The in-process store implements what the limiters rely on.
THEOREM LocalRefines == Local!Spec => Local!IsStateStore
  BY LocalInvariance, LocalInitRefines, LocalStep, PTL DEF Local!Spec, Local!IsStateStore, Local!Promise!Spec
(***************************************************************************)
(* The lines at the mutexes of the etcd store.                             *)
(***************************************************************************)

\* What is left of a sequence without one of its places.
LEMMA WithoutPlace ==
  ASSUME NEW T, NEW s \in Seq(T), NEW p \in 1..Len(s)
  PROVE  /\ RemoveAt(s, p) \in Seq(T) /\ Len(RemoveAt(s, p)) = Len(s) - 1
         /\ \A j \in 1..(Len(s) - 1) : RemoveAt(s, p)[j] = IF j < p THEN s[j] ELSE s[j + 1]
  <1>1. Len(s) \in Nat /\ p \in Int /\ \A i \in 1..Len(s) : s[i] \in T
    BY LenProperties, ElementOfSeq
  <1> DEFINE a == SubSeq(s, 1, p - 1)
             b == SubSeq(s, p + 1, Len(s))
  <1>2. /\ a \in Seq(T) /\ Len(a) = IF 1 <= p - 1 THEN (p - 1) - 1 + 1 ELSE 0
        /\ \A i \in 1..((p - 1) - 1 + 1) : a[i] = s[1 + i - 1]
    <2>1. 1 \in Int /\ p - 1 \in Int /\ \A i \in 1..(p - 1) : s[i] \in T
      BY <1>1
    <2>2. QED
      BY <2>1, SubSeqProperties
  <1>3. /\ b \in Seq(T) /\ Len(b) = IF p + 1 <= Len(s) THEN Len(s) - (p + 1) + 1 ELSE 0
        /\ \A i \in 1..(Len(s) - (p + 1) + 1) : b[i] = s[(p + 1) + i - 1]
    <2>1. p + 1 \in Int /\ Len(s) \in Int /\ \A i \in (p + 1)..Len(s) : s[i] \in T
      BY <1>1
    <2>2. QED
      BY <2>1, SubSeqProperties
  <1>4. /\ a \o b \in Seq(T) /\ Len(a \o b) = Len(a) + Len(b)
        /\ \A i \in 1..(Len(a) + Len(b)) : (a \o b)[i] = IF i <= Len(a) THEN a[i] ELSE b[i - Len(a)]
    BY <1>2, <1>3, ConcatProperties
  <1>5. RemoveAt(s, p) = a \o b
    BY DEF RemoveAt
  <1> HIDE DEF a, b
  <1>6. Len(a) = p - 1 /\ Len(b) = Len(s) - p
    BY <1>1, <1>2, <1>3
  <1>7. \A i \in 1..(p - 1) : a[i] = s[i]
    BY <1>1, <1>2
  <1>8. \A i \in 1..(Len(s) - p) : b[i] = s[p + i]
    <2>1. \A i \in 1..(Len(s) - p) : (p + 1) + i - 1 = p + i /\ i \in 1..(Len(s) - (p + 1) + 1)
      BY <1>1
    <2>2. QED
      BY <1>3, <2>1
  <1>9. ASSUME NEW j \in 1..(Len(s) - 1)
        PROVE  (a \o b)[j] = IF j < p THEN s[j] ELSE s[j + 1]
    <2>1. CASE j < p
      BY <1>1, <1>4, <1>6, <1>7, <2>1
    <2>2. CASE ~(j < p)
      <3>1. j - (p - 1) \in 1..(Len(s) - p) /\ p + (j - (p - 1)) = j + 1
        BY <1>1, <2>2
      <3>2. b[j - (p - 1)] = s[j + 1]
        BY <1>8, <3>1
      <3>3. QED
        BY <1>1, <1>4, <1>6, <2>2, <3>2
    <2>3. QED
      BY <2>1, <2>2
  <1>10. a \o b \in Seq(T) /\ Len(a \o b) = Len(s) - 1
    BY <1>1, <1>4, <1>6
  <1> DEFINE u == a \o b
  <1> HIDE DEF u
  <1>11. \A j \in 1..(Len(s) - 1) : u[j] = IF j < p THEN s[j] ELSE s[j + 1]
    BY <1>9 DEF u
  <1>12. RemoveAt(s, p) = u /\ u \in Seq(T) /\ Len(u) = Len(s) - 1
    BY <1>5, <1>10 DEF u
  <1>13. QED
    BY <1>11, <1>12

\* Who leaves a line of different tasks leaves the others in it, in their order.
LEMMA LeftOut ==
  ASSUME NEW T, NEW s \in Seq(T), IsInjective(s), NEW p \in 1..Len(s)
  PROVE  /\ RemoveAt(s, p) \in Seq(T) /\ IsInjective(RemoveAt(s, p))
         /\ Range(RemoveAt(s, p)) = Range(s) \ {s[p]}
         /\ Head(s) # s[p] => RemoveAt(s, p) # <<>> /\ Head(RemoveAt(s, p)) = Head(s)
  <1> DEFINE t == RemoveAt(s, p)
  <1>1. /\ t \in Seq(T) /\ Len(t) = Len(s) - 1
        /\ \A j \in 1..(Len(s) - 1) : t[j] = IF j < p THEN s[j] ELSE s[j + 1]
    BY WithoutPlace
  <1> HIDE DEF t
  <1>2. Len(s) \in Nat /\ DOMAIN s = 1..Len(s)
    BY LenProperties
  <1>3. DOMAIN t = 1..(Len(s) - 1)
    BY <1>1, LenProperties
  <1>4. \A i, j \in 1..Len(s) : s[i] = s[j] => i = j
    BY <1>2 DEF IsInjective
  <1>5. IsInjective(t)
    <2>1. ASSUME NEW i \in 1..(Len(s) - 1), NEW j \in 1..(Len(s) - 1), t[i] = t[j]
          PROVE  i = j
      <3>1. i \in 1..Len(s) /\ i + 1 \in 1..Len(s) /\ j \in 1..Len(s) /\ j + 1 \in 1..Len(s)
        BY <1>2
      <3>2. CASE i < p /\ j < p
        BY <1>1, <1>4, <2>1, <3>1, <3>2
      <3>3. CASE i < p /\ ~(j < p)
        <4>1. i = j + 1
          BY <1>1, <1>4, <2>1, <3>1, <3>3
        <4>2. QED
          BY <4>1, <3>3
      <3>4. CASE ~(i < p) /\ j < p
        <4>1. i + 1 = j
          BY <1>1, <1>4, <2>1, <3>1, <3>4
        <4>2. QED
          BY <4>1, <3>4
      <3>5. CASE ~(i < p) /\ ~(j < p)
        <4>1. i + 1 = j + 1
          BY <1>1, <1>4, <2>1, <3>1, <3>5
        <4>2. QED
          BY <4>1
      <3>6. QED
        BY <3>2, <3>3, <3>4, <3>5
    <2>2. QED
      BY <1>3, <2>1 DEF IsInjective
  <1>6. Range(t) = Range(s) \ {s[p]}
    <2>1. ASSUME NEW e \in Range(t)
          PROVE  e \in Range(s) \ {s[p]}
      <3>1. PICK j \in 1..(Len(s) - 1) : e = t[j]
        BY <1>3 DEF Range
      <3>2. j \in 1..Len(s) /\ j + 1 \in 1..Len(s)
        BY <1>2
      <3>3. \E i \in 1..Len(s) : i # p /\ e = s[i]
        <4>1. CASE j < p
          BY <1>1, <3>1, <3>2, <4>1
        <4>2. CASE ~(j < p)
          <5>1. e = s[j + 1] /\ j + 1 # p
            BY <1>1, <3>1, <4>2
          <5>2. QED
            BY <3>2, <5>1
        <4>3. QED
          BY <4>1, <4>2
      <3>4. QED
        BY <1>2, <1>4, <3>3 DEF Range
    <2>2. ASSUME NEW e \in Range(s), e # s[p]
          PROVE  e \in Range(t)
      <3>1. PICK i \in 1..Len(s) : e = s[i]
        BY <1>2 DEF Range
      <3>2. i # p
        BY <2>2, <3>1
      <3>3. \E j \in 1..(Len(s) - 1) : t[j] = s[i]
        <4>1. CASE i < p
          <5>1. i \in 1..(Len(s) - 1)
            BY <1>2, <4>1
          <5>2. QED
            BY <1>1, <4>1, <5>1
        <4>2. CASE ~(i < p)
          <5>1. i - 1 \in 1..(Len(s) - 1) /\ ~(i - 1 < p) /\ (i - 1) + 1 = i
            BY <1>2, <3>2, <4>2
          <5>2. t[i - 1] = s[(i - 1) + 1]
            BY <1>1, <5>1
          <5>3. QED
            BY <5>1, <5>2
        <4>3. QED
          BY <4>1, <4>2
      <3>4. QED
        BY <1>3, <3>1, <3>3 DEF Range
    <2>3. QED
      BY <2>1, <2>2
  <1>7. ASSUME Head(s) # s[p]
        PROVE  t # <<>> /\ Head(t) = Head(s)
    <2>1. Head(s) = s[1]
      OBVIOUS
    <2>2. 1 < p /\ 1 \in 1..(Len(s) - 1)
      BY <1>2, <1>7, <2>1
    <2>3. t[1] = s[1] /\ Len(t) # 0
      BY <1>1, <1>2, <2>2
    <2>4. t # <<>>
      BY <2>3, EmptySeq
    <2>5. QED
      BY <2>1, <2>3, <2>4
  <1>8. QED
    BY <1>1, <1>5, <1>6, <1>7 DEF t

\* Who joins a line joins it at the end.
LEMMA LinedUp ==
  ASSUME NEW T, NEW s \in Seq(T), IsInjective(s), NEW e \in T, e \notin Range(s)
  PROVE  /\ Append(s, e) \in Seq(T) /\ IsInjective(Append(s, e))
         /\ Range(Append(s, e)) = Range(s) \cup {e}
         /\ s # <<>> => Append(s, e) # <<>> /\ Head(Append(s, e)) = Head(s)
  <1> DEFINE t == Append(s, e)
  <1>1. /\ t \in Seq(T) /\ t # <<>> /\ Len(t) = Len(s) + 1
        /\ \A i \in 1..Len(s) : t[i] = s[i]
        /\ t[Len(s) + 1] = e
    BY AppendProperties
  <1>2. s # <<>> => Head(t) = Head(s)
    BY HeadTailAppend
  <1> HIDE DEF t
  <1>3. Len(s) \in Nat /\ DOMAIN s = 1..Len(s)
    BY LenProperties
  <1>4. DOMAIN t = 1..(Len(s) + 1)
    BY <1>1, LenProperties
  <1>5. \A i \in 1..(Len(s) + 1) : i \in 1..Len(s) \/ i = Len(s) + 1
    BY <1>3
  <1>6. \A i \in 1..Len(s) : i \in 1..(Len(s) + 1) /\ s[i] # e
    BY <1>3 DEF Range
  <1>7. IsInjective(t)
    <2>1. ASSUME NEW i \in 1..(Len(s) + 1), NEW j \in 1..(Len(s) + 1), t[i] = t[j]
          PROVE  i = j
      <3>1. CASE i \in 1..Len(s) /\ j \in 1..Len(s)
        <4>1. s[i] = s[j]
          BY <1>1, <2>1, <3>1
        <4>2. QED
          BY <1>3, <3>1, <4>1 DEF IsInjective
      <3>2. CASE ~(i \in 1..Len(s) /\ j \in 1..Len(s))
        BY <1>1, <1>5, <1>6, <2>1, <3>2
      <3>3. QED
        BY <3>1, <3>2
    <2>2. QED
      BY <1>4, <2>1 DEF IsInjective
  <1>8. Range(t) = Range(s) \cup {e}
    <2>1. Len(s) + 1 \in 1..(Len(s) + 1)
      BY <1>3
    <2>2. QED
      BY <1>1, <1>3, <1>4, <1>5, <1>6, <2>1 DEF Range
  <1>9. QED
    BY <1>1, <1>2, <1>7, <1>8 DEF t
(***************************************************************************)
(* The etcd store: its types and its lines apart.                          *)
(***************************************************************************)
Kinds ==
  /\ CallsTypeOK
  /\ rpc \in [Callers -> Stages] /\ outcome \in [Callers -> Replies]
  /\ revision \in Nat \ {0}
  /\ \A v \in written : v <= revision
  /\ late \subseteq Lossy \X (0..MaxCalls) \X (Puts \cup Swaps(written))

Lines ==
  /\ queue \in [Replicas -> Seq(Callers)]
  /\ \A r \in Replicas : IsInjective(queue[r])

\* Who is in a line waits for the answer of a call, and its first has the RPC.
InLine(c) == c \in Range(Line(c))
First(c) == Line(c) # <<>> /\ Head(Line(c)) = c
Placed ==
  \A c \in Callers :
    /\ InLine(c) <=> request[c] # Idle /\ reply[c] = Pending
    /\ request[c] = Idle => reply[c] = Pending
    /\ rpc[c] # "unsent" => First(c)

LEMMA TypesApart == TypeOK <=> Kinds /\ Lines /\ Placed
  BY DEF TypeOK, Kinds, Lines, Placed, InLine, First

LEMMA TypesApartNext == TypeOK' <=> Kinds' /\ Lines' /\ Placed'
  BY TypesApart, PTL

\* The first of a line is in it.
LEMMA FirstInLine ==
  ASSUME Lines, NEW c \in Callers, First(c)
  PROVE  InLine(c)
  <1>1. Line(c) \in Seq(Callers)
    BY ReplicaAssumption DEF Lines, Line
  <1>2. Line(c) # <<>> /\ Head(Line(c)) = Line(c)[1]
    BY DEF First
  <1>3. Len(Line(c)) \in Nat \ {0} /\ DOMAIN Line(c) = 1..Len(Line(c))
    BY <1>1, <1>2, EmptySeq, LenProperties
  <1>4. 1 \in DOMAIN Line(c)
    BY <1>3
  <1>5. QED
    BY <1>2, <1>4 DEF First, InLine, Range

\* The mutex is handed on: the caller is out of its line, all others are
\* where they were.
LEMMA Unlocked ==
  ASSUME Lines, NEW c \in Callers, InLine(c), Unlock(c)
  PROVE  /\ Lines'
         /\ \A d \in Callers : InLine(d)' <=> InLine(d) /\ d # c
         /\ \A d \in Callers : d # c /\ First(d) => First(d)'
  <1> DEFINE s == Line(c)
             p == Place(c)
  <1>1. Home \in [Callers -> Replicas] /\ queue \in [Replicas -> Seq(Callers)]
    BY ReplicaAssumption DEF Lines
  <1>2. s \in Seq(Callers) /\ IsInjective(s)
    BY <1>1 DEF Lines, Line
  <1>3. p \in 1..Len(s) /\ s[p] = c
    <2>1. DOMAIN s = 1..Len(s)
      BY <1>2, LenProperties
    <2>2. \E i \in DOMAIN s : s[i] = c
      BY DEF InLine, Range
    <2>3. p \in DOMAIN s /\ s[p] = c
      BY <2>2 DEF Place
    <2>4. QED
      BY <2>1, <2>3
  <1>4. queue' = [queue EXCEPT ![Home[c]] = RemoveAt(s, p)]
    BY DEF Unlock, Line
  <1> HIDE DEF s, p
  <1>5. /\ RemoveAt(s, p) \in Seq(Callers) /\ IsInjective(RemoveAt(s, p))
        /\ Range(RemoveAt(s, p)) = Range(s) \ {c}
        /\ Head(s) # c => RemoveAt(s, p) # <<>> /\ Head(RemoveAt(s, p)) = Head(s)
    BY <1>2, <1>3, LeftOut
  <1>6. queue' \in [Replicas -> Seq(Callers)] /\ \A r \in Replicas : IsInjective(queue'[r])
    BY <1>1, <1>4, <1>5 DEF Lines
  <1>7. \A d \in Callers : Line(d)' = IF Home[d] = Home[c] THEN RemoveAt(s, p) ELSE Line(d)
    BY <1>1, <1>4 DEF Line
  <1>8. \A d \in Callers : Home[d] = Home[c] => Line(d) = s
    BY DEF Line, s
  <1>9. \A d \in Callers : InLine(d)' <=> InLine(d) /\ d # c
    BY <1>5, <1>7, <1>8 DEF InLine
  <1>10. \A d \in Callers : d # c /\ First(d) => First(d)'
    BY <1>5, <1>7, <1>8 DEF First
  <1>11. QED
    BY <1>6, <1>9, <1>10 DEF Lines

\* A call queues up behind the others.
LEMMA Queued ==
  ASSUME Lines, NEW c \in Callers, ~InLine(c), queue' = [queue EXCEPT ![Home[c]] = Append(@, c)]
  PROVE  /\ Lines'
         /\ \A d \in Callers : InLine(d)' <=> InLine(d) \/ d = c
         /\ \A d \in Callers : First(d) => First(d)'
  <1> DEFINE s == Line(c)
             t == Append(s, c)
  <1>1. Home \in [Callers -> Replicas] /\ queue \in [Replicas -> Seq(Callers)]
    BY ReplicaAssumption DEF Lines
  <1>2. s \in Seq(Callers) /\ IsInjective(s) /\ c \notin Range(s)
    BY <1>1 DEF Lines, Line, InLine
  <1>3. queue' = [queue EXCEPT ![Home[c]] = t]
    BY DEF Line
  <1>4. /\ t \in Seq(Callers) /\ IsInjective(t)
        /\ Range(t) = Range(s) \cup {c}
        /\ s # <<>> => t # <<>> /\ Head(t) = Head(s)
    BY <1>2, LinedUp
  <1> HIDE DEF s, t
  <1>5. queue' \in [Replicas -> Seq(Callers)] /\ \A r \in Replicas : IsInjective(queue'[r])
    <2>1. \A r \in Replicas : queue[r] \in Seq(Callers) /\ IsInjective(queue[r])
      BY <1>1 DEF Lines
    <2>2. queue' = [r \in Replicas |-> IF r = Home[c] THEN t ELSE queue[r]]
      BY <1>1, <1>3
    <2>3. QED
      BY <1>4, <2>1, <2>2
  <1>6. \A d \in Callers : Line(d)' = IF Home[d] = Home[c] THEN t ELSE Line(d)
    BY <1>1, <1>3 DEF Line
  <1>7. \A d \in Callers : Home[d] = Home[c] => Line(d) = s
    BY DEF Line, s
  <1>8. \A d \in Callers : InLine(d)' <=> InLine(d) \/ d = c
    BY <1>4, <1>6, <1>7 DEF InLine
  <1>9. \A d \in Callers : First(d) => First(d)'
    BY <1>4, <1>6, <1>7 DEF First
  <1>10. QED
    BY <1>5, <1>8, <1>9 DEF Lines

\* A step that touches no line leaves everyone where it was.
LEMMA Undisturbed ==
  ASSUME Lines, UNCHANGED queue
  PROVE  /\ Lines'
         /\ \A d \in Callers : InLine(d)' <=> InLine(d)
         /\ \A d \in Callers : First(d) <=> First(d)'
  BY DEF Lines, InLine, First, Line
\* A task that has an RPC is in a call that has no answer yet.
LEMMA RpcOfCall ==
  ASSUME Kinds, Lines, Placed, NEW c \in Callers, rpc[c] # "unsent" \/ InLine(c)
  PROVE  /\ InLine(c) /\ request[c] # Idle /\ request[c] \in Requests(written) /\ reply[c] = Pending
  <1>1. InLine(c)
    BY FirstInLine DEF Placed
  <1>2. request[c] # Idle /\ reply[c] = Pending
    BY <1>1 DEF Placed
  <1>3. QED
    BY <1>1, <1>2 DEF Kinds, CallsTypeOK

\* A call is told of the entry as it is; a cas learns no more than its version.
LEMMA FoundIsReply ==
  ASSUME CallsTypeOK, NEW r \in Requests(written)
  PROVE  /\ Found(r, EntryOf(r)) \in Replies
         /\ r.op = "cas" => Found(r, EntryOf(r)) = Reply("no", Nothing, EntryOf(r).version)
         /\ r.op # "cas" => Found(r, EntryOf(r)).status \in {"ok", "no"}
  <1>1. EntryOf(r).version \in Nat /\ EntryOf(r).value \in Values \cup {Nothing}
    BY DEF CallsTypeOK, EntryOf, Entries, Absent, Requests, Gets, Puts, Swaps, Ping
  <1>2. r.op = "ping" => r.op # "cas"
    OBVIOUS
  <1>3. QED
    BY <1>1, <1>2 DEF Found, Reply, Replies

\* Callers may know more versions, never fewer.
LEMMA MoreRequests ==
  ASSUME NEW K, NEW L, K \subseteq L
  PROVE  Requests(K) \subseteq Requests(L) /\ Swaps(K) \subseteq Swaps(L)
  BY DEF Requests, Swaps

\* A write that etcd executes gets a revision of its own: what did not match
\* an entry does not match its successor.
LEMMA Executed ==
  ASSUME Kinds, NEW r \in Requests(written), Execute(r)
  PROVE  /\ data' \in [Keys -> Entries] /\ written' \subseteq Nat \ {0} /\ written \subseteq written'
         /\ \A k \in Keys : data'[k] # Absent => data'[k].version \in written'
         /\ revision' \in Nat \ {0} /\ revision + 1 \notin written /\ \A v \in written' : v <= revision'
         /\ \A q \in Swaps(written) : ~Matches(q, EntryOf(q)) => ~Matches(q, EntryOf(q))'
  <1>1. /\ data \in [Keys -> Entries] /\ written \subseteq Nat \ {0}
        /\ \A k \in Keys : data[k] # Absent => data[k].version \in written
        /\ revision \in Nat \ {0} /\ \A v \in written : v <= revision
    BY DEF Kinds, CallsTypeOK
  <1>2. revision + 1 \notin written /\ revision + 1 \in Nat \ {0} /\ \A v \in written : v <= revision + 1
    BY <1>1
  <1>3. CASE Succeeds(r)
    <2>1. r \in Puts \cup Swaps(written)
      BY <1>3 DEF Succeeds, Requests, Ping, Gets
    <2>2. r.key \in Keys /\ r.value \in Values
      BY <2>1 DEF Puts, Swaps
    <2>3. /\ data' = [data EXCEPT ![r.key] = [value |-> r.value, version |-> revision + 1]]
          /\ written' = written \cup {revision + 1} /\ revision' = revision + 1
      BY <1>3 DEF Execute, Install
    <2>4. [value |-> r.value, version |-> revision + 1] \in Entries
      BY <1>2, <2>2 DEF Entries
    <2>5. data' \in [Keys -> Entries]
      BY <1>1, <2>3, <2>4
    <2>6. \A k \in Keys : data'[k] # Absent => data'[k].version \in written'
      BY <1>1, <2>2, <2>3
    <2>7. \A v \in written' : v <= revision'
      BY <1>2, <2>3
    <2>8. \A q \in Swaps(written) : ~Matches(q, EntryOf(q)) => ~Matches(q, EntryOf(q))'
      <3>1. ASSUME NEW q \in Swaps(written), ~Matches(q, EntryOf(q))
            PROVE  ~(q.op = "put" \/ q.expected = data'[q.key].version)
        <4>1. q.op = "cas" /\ q.key \in Keys /\ q.expected \in {0} \cup written /\ q # Ping
          BY DEF Swaps, Ping
        <4>2. q.expected # data[q.key].version
          BY <3>1, <4>1 DEF Matches, EntryOf
        <4>3. q.expected # revision + 1
          BY <1>2, <4>1
        <4>4. data'[q.key].version = revision + 1 \/ data'[q.key] = data[q.key]
          BY <1>1, <2>3, <4>1
        <4>5. QED
          BY <4>1, <4>2, <4>3, <4>4
      <3>2. QED
        BY <3>1 DEF Matches, EntryOf, Swaps, Ping
    <2>9. QED
      BY <1>1, <1>2, <2>3, <2>5, <2>6, <2>7, <2>8
  <1>4. CASE ~Succeeds(r)
    <2>1. UNCHANGED <<data, written, revision>>
      BY <1>4 DEF Execute
    <2>2. QED
      BY <1>1, <1>2, <2>1 DEF Matches, EntryOf
  <1>5. QED
    BY <1>3, <1>4
\* A request that is left behind is the write of a call.
LEMMA LeftBehind ==
  ASSUME Kinds, Lines, Placed, NEW c \in Lossy, Orphan(c)
  PROVE  late' \subseteq Lossy \X (0..MaxCalls) \X (Puts \cup Swaps(written))
  <1>1. c \in Callers
    BY ReplicaAssumption
  <1>2. CASE UNCHANGED late
    BY <1>2 DEF Kinds
  <1>3. CASE rpc[c] = "sent" /\ Writing(request[c]) /\ late' = late \cup {<<c, calls, request[c]>>}
    <2>1. request[c] \in Requests(written)
      BY <1>1, <1>3, RpcOfCall
    <2>2. request[c] \in Puts \cup Swaps(written)
      BY <1>3, <2>1 DEF Requests, Writing, Ping, Gets
    <2>3. calls \in 0..MaxCalls
      BY DEF Kinds, CallsTypeOK
    <2>4. QED
      BY <1>3, <2>2, <2>3 DEF Kinds
  <1>4. QED
    BY <1>2, <1>3 DEF Orphan

Answers == Pending \in Replies /\ Reply("unheard", Nothing, 0) \in Replies /\ Reply("no", Nothing, 0) \in Replies

LEMMA AnswersAreReplies == Answers
  BY DEF Answers, Pending, Reply, Replies

\* Types under every step.
LEMMA KindsKept ==
  ASSUME Kinds, Lines, Placed, [Next]_vars
  PROVE  Kinds'
  <1>1. /\ data \in [Keys -> Entries] /\ written \subseteq Nat \ {0}
        /\ \A k \in Keys : data[k] # Absent => data[k].version \in written
        /\ request \in [Callers -> {Idle} \cup Requests(written)]
        /\ reply \in [Callers -> Replies] /\ calls \in 0..MaxCalls
        /\ rpc \in [Callers -> Stages] /\ outcome \in [Callers -> Replies]
        /\ revision \in Nat \ {0} /\ \A v \in written : v <= revision
        /\ late \subseteq Lossy \X (0..MaxCalls) \X (Puts \cup Swaps(written))
    BY DEF Kinds, CallsTypeOK
  <1>2. ASSUME UNCHANGED <<data, written, revision>>,
               request' \in [Callers -> {Idle} \cup Requests(written)],
               reply' \in [Callers -> Replies], calls' \in 0..MaxCalls,
               rpc' \in [Callers -> Stages], outcome' \in [Callers -> Replies],
               late' \subseteq Lossy \X (0..MaxCalls) \X (Puts \cup Swaps(written))
        PROVE  Kinds'
    BY <1>1, <1>2 DEF Kinds, CallsTypeOK
  <1>3. ASSUME NEW c \in Callers, Enter(c)
        PROVE  Kinds'
    <2>1. request' \in [Callers -> {Idle} \cup Requests(written)]
      BY <1>1, <1>3 DEF Enter, Call
    <2>2. calls' \in 0..MaxCalls
      BY <1>1, <1>3, StoreAssumption DEF Enter, Call
    <2>3. UNCHANGED <<data, written, revision, reply, rpc, outcome, late>>
      BY <1>3 DEF Enter, Call
    <2>4. QED
      BY <1>1, <1>2, <2>1, <2>2, <2>3
  <1>4. ASSUME NEW c \in Callers, Send(c)
        PROVE  Kinds'
    <2>1. rpc' \in [Callers -> Stages]
      BY <1>1, <1>4 DEF Send, Move, Stages
    <2>2. UNCHANGED <<callVars, outcome, revision, late>>
      BY <1>4 DEF Send
    <2>3. QED
      BY <1>1, <1>2, <2>1, <2>2 DEF callVars
  <1>5. ASSUME NEW r \in Requests(written), Execute(r), UNCHANGED <<request, reply, calls>>,
               rpc' \in [Callers -> Stages], outcome' \in [Callers -> Replies], late' \subseteq late
        PROVE  Kinds'
    <2>1. /\ data' \in [Keys -> Entries] /\ written' \subseteq Nat \ {0} /\ written \subseteq written'
          /\ \A k \in Keys : data'[k] # Absent => data'[k].version \in written'
          /\ revision' \in Nat \ {0} /\ \A v \in written' : v <= revision'
      BY <1>5, Executed
    <2>2. Requests(written) \subseteq Requests(written') /\ Swaps(written) \subseteq Swaps(written')
      BY <2>1, MoreRequests
    <2>3. request' \in [Callers -> {Idle} \cup Requests(written')]
      BY <1>1, <1>5, <2>2
    <2>4. late' \subseteq Lossy \X (0..MaxCalls) \X (Puts \cup Swaps(written'))
      BY <1>1, <1>5, <2>2
    <2>5. QED
      BY <1>1, <1>5, <2>1, <2>3, <2>4 DEF Kinds, CallsTypeOK
  <1>6. ASSUME NEW c \in Callers, ExecuteSent(c)
        PROVE  Kinds'
    <2>1. request[c] \in Requests(written)
      BY <1>6, RpcOfCall DEF ExecuteSent
    <2>2. Found(request[c], EntryOf(request[c])) \in Replies
      BY <2>1, FoundIsReply DEF Kinds
    <2>3. Reply("ok", Nothing, revision + 1) \in Replies
      BY <1>1 DEF Reply, Replies
    <2>4. outcome' \in [Callers -> Replies]
      BY <1>1, <1>6, <2>2, <2>3 DEF ExecuteSent, Learn
    <2>5. rpc' \in [Callers -> Stages]
      BY <1>1, <1>6 DEF ExecuteSent, Move, Stages
    <2>6. QED
      BY <1>5, <1>6, <2>1, <2>4, <2>5 DEF ExecuteSent
  <1>7. ASSUME NEW c \in Callers, ExecuteGet(c)
        PROVE  Kinds'
    <2>1. request[c] \in Requests(written)
      BY <1>7, RpcOfCall DEF ExecuteGet
    <2>2. Found(request[c], EntryOf(request[c])) \in Replies
      BY <2>1, FoundIsReply DEF Kinds
    <2>3. outcome' \in [Callers -> Replies] /\ rpc' \in [Callers -> Stages]
      BY <1>1, <1>7, <2>2 DEF ExecuteGet, Learn, Move, Stages
    <2>4. UNCHANGED <<callVars, revision, late>>
      BY <1>7 DEF ExecuteGet
    <2>5. QED
      BY <1>1, <1>2, <2>3, <2>4 DEF callVars
  <1>8. ASSUME NEW c \in Callers, NEW a \in Replies, Retry(c, a) \/ Finish(c, a),
               late' \subseteq Lossy \X (0..MaxCalls) \X (Puts \cup Swaps(written))
        PROVE  Kinds'
    <2>1. /\ rpc' \in [Callers -> Stages] /\ outcome' \in [Callers -> Replies]
          /\ reply' \in [Callers -> Replies]
      BY <1>1, <1>8, AnswersAreReplies
        DEF Retry, Finish, Move, Learn, Unlock, Answer, Stages, callVars, Answers
    <2>2. UNCHANGED <<data, written, request, calls, revision>>
      BY <1>8 DEF Retry, Finish, callVars
    <2>3. QED
      BY <1>1, <1>2, <1>8, <2>1, <2>2
  <1>9. ASSUME NEW c \in Callers, Receive(c)
        PROVE  Kinds'
    <2>1. outcome[c] \in Replies /\ Pending \in Replies
      BY <1>1, AnswersAreReplies DEF Answers
    <2>2. QED
      BY <1>1, <1>8, <1>9, <2>1 DEF Receive
  <1>10. ASSUME NEW c \in Callers, Break(c)
        PROVE  Kinds'
    <2>1. late' \subseteq Lossy \X (0..MaxCalls) \X (Puts \cup Swaps(written))
      BY <1>10, LeftBehind DEF Break
    <2>2. QED
      BY <1>8, <1>10, <2>1, AnswersAreReplies DEF Break, Answers
  <1>11. ASSUME NEW c \in Callers, Drop(c)
        PROVE  Kinds'
    <2>1. late' \subseteq Lossy \X (0..MaxCalls) \X (Puts \cup Swaps(written))
      BY <1>11, LeftBehind DEF Drop
    <2>2. /\ rpc' \in [Callers -> Stages] /\ outcome' \in [Callers -> Replies]
          /\ reply' \in [Callers -> Replies]
          /\ request' \in [Callers -> {Idle} \cup Requests(written)]
      BY <1>1, <1>11, AnswersAreReplies DEF Drop, Leave, Unlock, Move, Learn, Answer, Stages, Answers
    <2>3. UNCHANGED <<data, written, calls, revision>>
      BY <1>11 DEF Drop, Leave
    <2>4. QED
      BY <1>1, <1>2, <2>1, <2>2, <2>3
  <1>12. ASSUME NEW c \in Callers, Back(c)
        PROVE  Kinds'
    <2>1. /\ reply' \in [Callers -> Replies]
          /\ request' \in [Callers -> {Idle} \cup Requests(written)]
      BY <1>1, <1>12, AnswersAreReplies DEF Back, Return, Leave, Answer, Answers
    <2>2. UNCHANGED <<data, written, calls, etcdVars>>
      BY <1>12 DEF Back, Return, Leave
    <2>3. QED
      BY <1>1, <1>2, <2>1, <2>2 DEF etcdVars
  <1>13. ASSUME ExecuteLate
        PROVE  Kinds'
    <2>1. PICK l \in late : late' = late \ {l} /\ Execute(l[3])
      BY <1>13 DEF ExecuteLate
    <2>2. l[3] \in Requests(written)
      BY <1>1 DEF Requests
    <2>3. UNCHANGED <<request, reply, calls, rpc, outcome>>
      BY <1>13 DEF ExecuteLate
    <2>4. QED
      BY <1>1, <1>5, <2>1, <2>2, <2>3
  <1>14. CASE UNCHANGED vars
    BY <1>1, <1>2, <1>14 DEF vars, callVars, etcdVars
  <1>15. QED
    BY <1>3, <1>4, <1>6, <1>7, <1>9, <1>10, <1>11, <1>12, <1>13, <1>14 DEF Next, Progress
\* What LostForGood says of one task.
LostOf(c) ==
  /\ rpc[c] \in {"resent", "read"} => request[c].op = "cas"
  /\ rpc[c] = "executed" =>
       \/ outcome[c].status = "ok"
       \/ outcome[c].status = "no" /\ (Refused(c) => ~Matches(request[c], EntryOf(request[c])))
  /\ rpc[c] = "resent" =>
       \/ outcome[c] = Pending /\ ~Matches(request[c], EntryOf(request[c]))
       \/ outcome[c].status = "unheard" /\ c \in Lossy
  /\ rpc[c] = "read" => outcome[c].status = "no"

LEMMA LostOfEach == LostForGood <=> \A c \in Callers : LostOf(c)
  BY DEF LostForGood, LostOf, Refused

LEMMA LostOfEachNext == LostForGood' <=> (\A c \in Callers : LostOf(c))'
  BY LostOfEach, PTL

\* Everyone's place in line under every step.
LEMMA PlacesKept ==
  ASSUME Kinds, Lines, Placed, LostForGood, [Next]_vars
  PROVE  Lines' /\ Placed'
  <1> USE DEF Reply, Pending
  <1>1. /\ request \in [Callers -> {Idle} \cup Requests(written)] /\ reply \in [Callers -> Replies]
        /\ rpc \in [Callers -> Stages] /\ outcome \in [Callers -> Replies]
    BY DEF Kinds, CallsTypeOK
  <1>2. /\ \A d \in Callers : InLine(d) <=> request[d] # Idle /\ reply[d] = Pending
        /\ \A d \in Callers : request[d] = Idle => reply[d] = Pending
        /\ \A d \in Callers : rpc[d] # "unsent" => First(d)
    BY DEF Placed
  <1>3. ASSUME UNCHANGED <<queue, request, reply>>, \A d \in Callers : rpc'[d] # "unsent" => First(d)
        PROVE  Lines' /\ Placed'
    BY <1>2, <1>3, Undisturbed DEF Placed
  <1>4. ASSUME NEW c \in Callers, InLine(c), Unlock(c), \A d \in Callers : d # c => request'[d] = request[d] /\ reply'[d] = reply[d],
               \/ request'[c] # Idle /\ reply'[c] # Pending
               \/ request'[c] = Idle /\ reply'[c] = Pending
        PROVE  Lines' /\ Placed'
    <2>1. /\ Lines'
          /\ \A d \in Callers : InLine(d)' <=> InLine(d) /\ d # c
          /\ \A d \in Callers : d # c /\ First(d) => First(d)'
      BY <1>4, Unlocked
    <2>2. rpc'[c] = "unsent" /\ \A d \in Callers : d # c => rpc'[d] = rpc[d]
      BY <1>1, <1>4 DEF Unlock, Move
    <2>3. QED
      BY <1>2, <1>4, <2>1, <2>2 DEF Placed
  <1>5. ASSUME NEW c \in Callers, Enter(c)
        PROVE  Lines' /\ Placed'
    <2>1. request[c] = Idle /\ ~InLine(c) /\ rpc[c] = "unsent"
      BY <1>2, <1>5, FirstInLine DEF Enter, Call
    <2>2. /\ Lines'
          /\ \A d \in Callers : InLine(d)' <=> InLine(d) \/ d = c
          /\ \A d \in Callers : First(d) => First(d)'
      BY <1>5, <2>1, Queued DEF Enter
    <2>3. PICK r \in Requests(written) : request' = [request EXCEPT ![c] = r]
      BY <1>5 DEF Enter, Call
    <2>4. r # Idle
      BY DEF Requests, Idle, Ping, Gets, Puts, Swaps
    <2>5. UNCHANGED <<reply, rpc>>
      BY <1>5 DEF Enter, Call
    <2>6. QED
      BY <1>1, <1>2, <2>1, <2>2, <2>3, <2>4, <2>5 DEF Placed
  <1>6. ASSUME NEW c \in Callers, Send(c)
        PROVE  Lines' /\ Placed'
    <2>1. First(c) /\ UNCHANGED <<queue, request, reply>>
      BY <1>6 DEF Send, First, callVars
    <2>2. \A d \in Callers : rpc'[d] # "unsent" => First(d)
      BY <1>1, <1>2, <1>6, <2>1 DEF Send, Move
    <2>3. QED
      BY <1>3, <2>1, <2>2
  <1>7. ASSUME NEW c \in Callers, rpc[c] # "unsent", NEW s, Move(c, s), UNCHANGED <<queue, request, reply>>
        PROVE  Lines' /\ Placed'
    BY <1>1, <1>2, <1>3, <1>7 DEF Move
  <1>8. ASSUME NEW c \in Callers, ExecuteSent(c) \/ ExecuteGet(c)
        PROVE  Lines' /\ Placed'
    BY <1>7, <1>8 DEF ExecuteSent, ExecuteGet, callVars
  <1>9. ASSUME NEW c \in Callers, rpc[c] # "unsent", NEW a, Retry(c, a)
        PROVE  Lines' /\ Placed'
    BY <1>7, <1>9 DEF Retry, callVars
  <1>10. ASSUME NEW c \in Callers, rpc[c] # "unsent", NEW a, a # Pending, Finish(c, a)
         PROVE  Lines' /\ Placed'
    <2>1. InLine(c) /\ request[c] # Idle
      BY <1>10, RpcOfCall
    <2>2. request' = request /\ reply'[c] = a /\ \A d \in Callers : d # c => reply'[d] = reply[d]
      BY <1>1, <1>10 DEF Finish, Answer
    <2>3. QED
      BY <1>4, <1>10, <2>1, <2>2 DEF Finish
  <1>11. ASSUME NEW c \in Callers, Receive(c)
         PROVE  Lines' /\ Placed'
    <2>1. outcome[c] # Pending \/ Refused(c)
      BY <1>11 DEF Receive, LostForGood, Refused
    <2>2. rpc[c] # "unsent"
      BY <1>11 DEF Receive
    <2>3. QED
      BY <1>9, <1>10, <1>11, <2>1, <2>2 DEF Receive
  <1>12. ASSUME NEW c \in Callers, Break(c)
         PROVE  Lines' /\ Placed'
    BY <1>9, <1>10, <1>12 DEF Break
  <1>13. ASSUME NEW c \in Callers, Drop(c)
         PROVE  Lines' /\ Placed'
    <2>1. InLine(c) /\ Unlock(c)
      BY <1>13 DEF Drop, InLine
    <2>2. /\ request'[c] = Idle /\ reply'[c] = Pending
          /\ \A d \in Callers : d # c => request'[d] = request[d] /\ reply'[d] = reply[d]
      BY <1>1, <1>13 DEF Drop, Leave, Answer
    <2>3. QED
      BY <1>4, <2>1, <2>2
  <1>14. ASSUME NEW c \in Callers, Back(c)
         PROVE  Lines' /\ Placed'
    <2>1. reply[c] # Pending /\ UNCHANGED <<queue, rpc>>
      BY <1>14 DEF Back, Return, etcdVars
    <2>2. ~InLine(c)
      BY <1>2, <2>1
    <2>3. /\ request'[c] = Idle /\ reply'[c] = Pending
          /\ \A d \in Callers : d # c => request'[d] = request[d] /\ reply'[d] = reply[d]
      BY <1>1, <1>14 DEF Back, Return, Leave, Answer
    <2>4. /\ Lines' /\ \A d \in Callers : InLine(d)' <=> InLine(d)
          /\ \A d \in Callers : First(d) <=> First(d)'
      BY <2>1, Undisturbed
    <2>5. QED
      BY <1>2, <2>1, <2>2, <2>3, <2>4 DEF Placed
  <1>15. ASSUME ExecuteLate
         PROVE  Lines' /\ Placed'
    BY <1>2, <1>3, <1>15 DEF ExecuteLate
  <1>16. CASE UNCHANGED vars
    BY <1>2, <1>3, <1>16 DEF vars, callVars, etcdVars
  <1>17. QED
    BY <1>5, <1>6, <1>8, <1>11, <1>12, <1>13, <1>14, <1>15, <1>16 DEF Next, Progress

\* A transaction that did not succeed stays one that cannot, under every step.
LEMMA LostKept ==
  ASSUME Kinds, Lines, Placed, LostForGood, [Next]_vars
  PROVE  LostForGood'
  <1>1. /\ request \in [Callers -> {Idle} \cup Requests(written)] /\ reply \in [Callers -> Replies]
        /\ rpc \in [Callers -> Stages] /\ outcome \in [Callers -> Replies]
    BY DEF Kinds, CallsTypeOK
  <1>2. \A d \in Callers : LostOf(d)
    BY LostOfEach
  <1>3. ASSUME NEW d \in Callers, rpc'[d] = "unsent" \/ rpc'[d] = "sent"
        PROVE  LostOf(d)'
    BY <1>3 DEF LostOf, Refused
  <1>4. ASSUME NEW d \in Callers, rpc'[d] = rpc[d], outcome'[d] = outcome[d], request'[d] = request[d],
               UNCHANGED data
        PROVE  LostOf(d)'
    BY <1>2, <1>4 DEF LostOf, Refused, Matches, EntryOf
  <1>5. ASSUME NEW d \in Callers, rpc'[d] = rpc[d], outcome'[d] = outcome[d], request'[d] = request[d],
               NEW r \in Requests(written), Execute(r)
        PROVE  LostOf(d)'
    <2>1. CASE rpc[d] \in {"unsent", "sent"}
      BY <1>3, <1>5, <2>1
    <2>2. CASE rpc[d] \notin {"unsent", "sent"}
      <3>1. request[d] \in Requests(written)
        BY <2>2, RpcOfCall
      <3>2. request[d].op = "cas" => request[d] \in Swaps(written)
        BY <3>1 DEF Requests, Ping, Gets, Puts
      <3>3. request[d].op = "cas" /\ ~Matches(request[d], EntryOf(request[d]))
              => ~Matches(request[d], EntryOf(request[d]))'
        <4>1. PICK q : q = request[d]
          OBVIOUS
        <4>2. q.op = "cas" /\ ~Matches(q, EntryOf(q)) => ~Matches(q, EntryOf(q))'
          BY <1>5, <3>2, <4>1, Executed
        <4>3. QED
          BY <1>5, <4>1, <4>2 DEF Matches, EntryOf
      <3>4. QED
        BY <1>2, <1>5, <3>3 DEF LostOf, Refused
    <2>3. QED
      BY <2>1, <2>2
  <1>6. ASSUME NEW c \in Callers, LostOf(c)',
               \A d \in Callers : d # c => rpc'[d] = rpc[d] /\ outcome'[d] = outcome[d] /\ request'[d] = request[d],
               UNCHANGED data \/ \E r \in Requests(written) : Execute(r)
        PROVE  LostForGood'
    BY <1>4, <1>5, <1>6, LostOfEachNext
  <1>7. ASSUME NEW c \in Callers, Enter(c) \/ Back(c)
        PROVE  LostForGood'
    <2>1. ~InLine(c)
      BY <1>7 DEF Placed, Enter, Call, Back, Return, Pending, Reply
    <2>2. rpc[c] = "unsent"
      BY <2>1, RpcOfCall
    <2>3. UNCHANGED <<data, rpc, outcome>> /\ \A d \in Callers : d # c => request'[d] = request[d]
      BY <1>1, <1>7 DEF Enter, Call, Back, Return, Leave, etcdVars
    <2>4. QED
      BY <1>3, <1>6, <2>2, <2>3
  <1>8. ASSUME NEW c \in Callers, Send(c) \/ Drop(c)
        PROVE  LostForGood'
    <2>1. rpc'[c] \in {"unsent", "sent"} /\ UNCHANGED data
      BY <1>1, <1>8 DEF Send, Move, Drop, Leave, Unlock, callVars
    <2>2. \A d \in Callers : d # c => rpc'[d] = rpc[d] /\ outcome'[d] = outcome[d] /\ request'[d] = request[d]
      BY <1>1, <1>8 DEF Send, Move, Drop, Leave, Unlock, Learn, callVars
    <2>3. QED
      BY <1>3, <1>6, <2>1, <2>2
  <1>9. ASSUME NEW c \in Callers, ExecuteSent(c)
        PROVE  LostForGood'
    <2>1. /\ rpc'[c] = "executed" /\ request' = request
          /\ outcome'[c] = IF Succeeds(request[c]) THEN Reply("ok", Nothing, revision + 1)
                           ELSE Found(request[c], EntryOf(request[c]))
          /\ \A d \in Callers : d # c => rpc'[d] = rpc[d] /\ outcome'[d] = outcome[d]
      BY <1>1, <1>9 DEF ExecuteSent, Move, Learn
    <2>2. request[c] \in Requests(written)
      BY <1>9, RpcOfCall DEF ExecuteSent
    <2>3. LostOf(c)'
      <3>1. CASE Succeeds(request[c])
        BY <2>1, <3>1 DEF LostOf, Refused, Reply
      <3>2. CASE ~Succeeds(request[c])
        <4>1. UNCHANGED data
          BY <1>9, <3>2 DEF ExecuteSent, Execute
        <4>2. outcome'[c].status \in {"ok", "no"}
          BY <2>1, <2>2, <3>2, FoundIsReply DEF Kinds, Reply
        <4>3. request[c].op = "cas" => ~Matches(request[c], EntryOf(request[c]))
          BY <3>2 DEF Succeeds, Holds
        <4>4. QED
          BY <2>1, <4>1, <4>2, <4>3 DEF LostOf, Refused, Matches, EntryOf
      <3>3. QED
        BY <3>1, <3>2
    <2>4. QED
      BY <1>6, <1>9, <2>1, <2>2, <2>3 DEF ExecuteSent
  <1>10. ASSUME NEW c \in Callers, ExecuteGet(c)
         PROVE  LostForGood'
    <2>1. /\ rpc'[c] = "read" /\ request' = request /\ data' = data
          /\ outcome'[c] = Found(request[c], EntryOf(request[c]))
          /\ \A d \in Callers : d # c => rpc'[d] = rpc[d] /\ outcome'[d] = outcome[d]
      BY <1>1, <1>10 DEF ExecuteGet, Move, Learn, callVars
    <2>2. request[c].op = "cas" /\ request[c] \in Requests(written)
      BY <1>2, <1>10, RpcOfCall DEF ExecuteGet, LostOf, Refused
    <2>3. outcome'[c].status = "no"
      BY <2>1, <2>2, FoundIsReply DEF Kinds, Reply
    <2>4. LostOf(c)'
      BY <2>1, <2>2, <2>3 DEF LostOf, Refused
    <2>5. QED
      BY <1>6, <2>1, <2>4
  <1>11. ASSUME NEW c \in Callers, NEW a, Finish(c, a)
         PROVE  LostForGood'
    <2>1. rpc'[c] = "unsent" /\ UNCHANGED <<data, request>>
      BY <1>1, <1>11 DEF Finish, Unlock, Move
    <2>2. \A d \in Callers : d # c => rpc'[d] = rpc[d] /\ outcome'[d] = outcome[d]
      BY <1>1, <1>11 DEF Finish, Unlock, Move, Learn
    <2>3. QED
      BY <1>3, <1>6, <2>1, <2>2
  <1>12. ASSUME NEW c \in Callers, NEW a, Retry(c, a), request[c].op = "cas",
                \/ a = Pending /\ ~Matches(request[c], EntryOf(request[c]))
                \/ a = Reply("unheard", Nothing, 0) /\ c \in Lossy
         PROVE  LostForGood'
    <2>1. rpc'[c] = "resent" /\ outcome'[c] = a /\ UNCHANGED <<data, request>>
      BY <1>1, <1>12 DEF Retry, Move, Learn, callVars
    <2>2. \A d \in Callers : d # c => rpc'[d] = rpc[d] /\ outcome'[d] = outcome[d]
      BY <1>1, <1>12 DEF Retry, Move, Learn
    <2>3. LostOf(c)'
      BY <1>12, <2>1 DEF LostOf, Refused, Matches, EntryOf, Reply
    <2>4. QED
      BY <1>6, <2>1, <2>2, <2>3
  <1>13. ASSUME NEW c \in Callers, Receive(c)
         PROVE  LostForGood'
    <2>1. CASE Refused(c)
      BY <1>2, <1>12, <1>13, <2>1 DEF Receive, LostOf, Refused
    <2>2. CASE ~Refused(c)
      BY <1>11, <1>13, <2>2 DEF Receive
    <2>3. QED
      BY <2>1, <2>2
  <1>14. ASSUME NEW c \in Callers, Break(c)
         PROVE  LostForGood'
    BY <1>11, <1>12, <1>14 DEF Break
  <1>15. ASSUME ExecuteLate
         PROVE  LostForGood'
    <2>1. PICK l \in late : Execute(l[3])
      BY <1>15 DEF ExecuteLate
    <2>2. l[3] \in Requests(written)
      BY DEF Kinds, Requests
    <2>3. UNCHANGED <<rpc, outcome, request>>
      BY <1>15 DEF ExecuteLate
    <2>4. QED
      BY <1>5, <2>1, <2>2, <2>3, LostOfEachNext
  <1>16. CASE UNCHANGED vars
    BY <1>4, <1>16, LostOfEachNext DEF vars, callVars, etcdVars
  <1>17. QED
    BY <1>7, <1>8, <1>9, <1>10, <1>13, <1>14, <1>15, <1>16 DEF Next, Progress
\* The bound on revisions, with the types that arithmetic needs.
LEMMA OwingFacts ==
  ASSUME Kinds, OneWriteACall
  PROVE  /\ IsFiniteSet(Owing) /\ Cardinality(Owing) \in Nat
         /\ IsFiniteSet(late) /\ Cardinality(late) \in Nat
         /\ revision \in Nat /\ calls \in Nat /\ calls <= MaxCalls
         /\ revision + Cardinality(Owing) + Cardinality(late) <= calls + 1
  <1>1. Owing \subseteq Callers
    BY DEF Owing
  <1>2. IsFiniteSet(Owing)
    BY <1>1, StoreAssumption, FS_Subset
  <1>3. IsFiniteSet(late)
    BY DEF OneWriteACall
  <1>4. Cardinality(Owing) \in Nat /\ Cardinality(late) \in Nat
    BY <1>2, <1>3, FS_CardinalityType
  <1>5. revision \in Nat /\ calls \in Nat /\ calls <= MaxCalls
    BY StoreAssumption DEF Kinds, CallsTypeOK
  <1>6. QED
    BY <1>2, <1>3, <1>4, <1>5 DEF OneWriteACall

\* Every execution takes a call off the books, under every step.
LEMMA BoundKept ==
  ASSUME Kinds, Lines, Placed, OneWriteACall, LostForGood, [Next]_vars
  PROVE  OneWriteACall'
  <1> USE DEF Reply, Pending
  <1>1. /\ IsFiniteSet(Owing) /\ Cardinality(Owing) \in Nat
        /\ IsFiniteSet(late) /\ Cardinality(late) \in Nat
        /\ revision \in Nat /\ calls \in Nat
        /\ revision + Cardinality(Owing) + Cardinality(late) <= calls + 1
    BY OwingFacts
  <1>2. /\ request \in [Callers -> {Idle} \cup Requests(written)] /\ reply \in [Callers -> Replies]
        /\ rpc \in [Callers -> Stages]
    BY DEF Kinds, CallsTypeOK
  <1>3. ASSUME Owing' \subseteq Owing, late' = late, revision' = revision, calls' = calls
        PROVE  OneWriteACall'
    <2>1. Cardinality(Owing') \in Nat /\ Cardinality(Owing') <= Cardinality(Owing)
      BY <1>1, <1>3, NoMore
    <2>2. revision + Cardinality(Owing') + Cardinality(late) <= calls + 1
      BY <1>1, <2>1
    <2>3. QED
      BY <1>1, <1>3, <2>2 DEF OneWriteACall
  <1>4. ASSUME NEW c \in Owing, Owing' \subseteq Owing \ {c}, NEW x, late' \subseteq late \cup {x},
               revision' = revision, calls' = calls
        PROVE  OneWriteACall'
    <2>1. Cardinality(Owing') \in Nat /\ Cardinality(Owing') + 1 <= Cardinality(Owing)
      BY <1>1, <1>4, AtLeastOneLess
    <2>2. Cardinality(late') \in Nat /\ Cardinality(late') <= Cardinality(late) + 1
      BY <1>1, <1>4, AtMostOneMore
    <2>3. IsFiniteSet(late')
      <3>1. IsFiniteSet(late \cup {x})
        BY <1>1, FS_AddElement
      <3>2. QED
        BY <1>4, <3>1, FS_Subset
    <2>4. revision + Cardinality(Owing') + Cardinality(late') <= calls + 1
      BY <1>1, <2>1, <2>2
    <2>5. QED
      BY <1>4, <2>3, <2>4 DEF OneWriteACall
  <1>5. \A r : Execute(r) => revision' = revision \/ revision' = revision + 1
    BY DEF Execute
  <1>6. ASSUME NEW c \in Callers, Enter(c)
        PROVE  OneWriteACall'
    <2>1. Owing' \subseteq Owing \cup {c}
      BY <1>2, <1>6 DEF Enter, Call, Owing
    <2>2. Cardinality(Owing') \in Nat /\ Cardinality(Owing') <= Cardinality(Owing) + 1
      BY <1>1, <2>1, AtMostOneMore
    <2>3. late' = late /\ revision' = revision /\ calls' = calls + 1
      BY <1>6 DEF Enter, Call
    <2>4. revision + Cardinality(Owing') + Cardinality(late) <= (calls + 1) + 1
      BY <1>1, <2>2
    <2>5. QED
      BY <1>1, <2>3, <2>4 DEF OneWriteACall
  <1>7. ASSUME NEW c \in Callers, Send(c)
        PROVE  OneWriteACall'
    <2>1. Owing' \subseteq Owing
      BY <1>2, <1>7 DEF Send, Move, callVars, Owing
    <2>2. QED
      BY <1>3, <1>7, <2>1 DEF Send, callVars
  <1>8. ASSUME NEW c \in Callers, ExecuteSent(c)
        PROVE  OneWriteACall'
    <2>1. request' = request /\ reply' = reply /\ calls' = calls /\ late' = late
      BY <1>8 DEF ExecuteSent
    <2>2. rpc[c] = "sent" /\ rpc'[c] = "executed" /\ \A d \in Callers : d # c => rpc'[d] = rpc[d]
      BY <1>2, <1>8 DEF ExecuteSent, Move
    <2>3. Owing' \subseteq Owing \ {c}
      BY <2>1, <2>2 DEF Owing
    <2>4. CASE Succeeds(request[c])
      <3>1. request[c] # Idle /\ reply[c] = Pending
        BY <2>2, RpcOfCall
      <3>2. c \in Owing
        BY <2>2, <2>4, <3>1 DEF Succeeds, Writing, Owing
      <3>3. Cardinality(Owing') \in Nat /\ Cardinality(Owing') + 1 <= Cardinality(Owing)
        BY <1>1, <2>3, <3>2, AtLeastOneLess
      <3>4. revision' = revision + 1
        BY <1>8, <2>4 DEF ExecuteSent, Execute
      <3>5. (revision + 1) + Cardinality(Owing') + Cardinality(late) <= calls + 1
        BY <1>1, <3>3
      <3>6. QED
        BY <1>1, <2>1, <3>4, <3>5 DEF OneWriteACall
    <2>5. CASE ~Succeeds(request[c])
      <3>1. revision' = revision
        BY <1>8, <2>5 DEF ExecuteSent, Execute
      <3>2. QED
        BY <1>3, <2>1, <2>3, <3>1
    <2>6. QED
      BY <2>4, <2>5
  <1>9. ASSUME NEW c \in Callers, ExecuteGet(c)
        PROVE  OneWriteACall'
    <2>1. Owing' \subseteq Owing
      BY <1>2, <1>9 DEF ExecuteGet, Move, callVars, Owing
    <2>2. QED
      BY <1>3, <1>9, <2>1 DEF ExecuteGet, callVars
  <1>10. ASSUME NEW c \in Callers, NEW a, Retry(c, a) \/ (Finish(c, a) /\ a # Pending)
         PROVE  /\ Owing' \subseteq Owing \ {c} /\ revision' = revision /\ calls' = calls
    <2>1. request' = request /\ revision' = revision /\ calls' = calls
      BY <1>10 DEF Retry, Finish, callVars
    <2>2. CASE Retry(c, a)
      BY <1>2, <2>1, <2>2 DEF Retry, Move, Owing, callVars
    <2>3. CASE Finish(c, a) /\ a # Pending
      BY <1>2, <2>1, <2>3 DEF Finish, Unlock, Move, Answer, Owing
    <2>4. QED
      BY <1>10, <2>1, <2>2, <2>3
  <1>11. ASSUME NEW c \in Callers, Orphan(c), Owing' \subseteq Owing \ {c}, revision' = revision, calls' = calls
         PROVE  OneWriteACall'
    <2>1. CASE UNCHANGED late
      BY <1>3, <1>11, <2>1
    <2>2. CASE rpc[c] = "sent" /\ Writing(request[c]) /\ late' = late \cup {<<c, calls, request[c]>>}
      <3>1. request[c] # Idle /\ reply[c] = Pending
        BY <2>2, RpcOfCall
      <3>2. c \in Owing
        BY <2>2, <3>1 DEF Owing
      <3>3. QED
        BY <1>4, <1>11, <2>2, <3>2
    <2>3. QED
      BY <1>11, <2>1, <2>2 DEF Orphan
  <1>12. ASSUME NEW c \in Callers, Receive(c)
         PROVE  OneWriteACall'
    <2>1. outcome[c] # Pending \/ Refused(c)
      BY <1>12 DEF Receive, LostForGood, Refused
    <2>2. late' = late
      BY <1>12 DEF Receive
    <2>3. Owing' \subseteq Owing \ {c} /\ revision' = revision /\ calls' = calls
      <3>1. Retry(c, Pending) \/ (Finish(c, outcome[c]) /\ outcome[c] # Pending)
        BY <1>12, <2>1 DEF Receive
      <3>2. QED
        BY <1>10, <3>1
    <2>4. QED
      BY <1>3, <2>2, <2>3
  <1>13. ASSUME NEW c \in Callers, Break(c)
         PROVE  OneWriteACall'
    <2>1. Owing' \subseteq Owing \ {c} /\ revision' = revision /\ calls' = calls
      BY <1>10, <1>13 DEF Break
    <2>2. QED
      BY <1>11, <1>13, <2>1 DEF Break
  <1>14. ASSUME NEW c \in Callers, Drop(c)
         PROVE  OneWriteACall'
    <2>1. revision' = revision /\ calls' = calls
      BY <1>14 DEF Drop, Leave
    <2>2. /\ request'[c] = Idle /\ rpc'[c] = "unsent"
          /\ \A d \in Callers : d # c => rpc'[d] = rpc[d] /\ request'[d] = request[d] /\ reply'[d] = reply[d]
      BY <1>2, <1>14 DEF Drop, Leave, Unlock, Move, Answer
    <2>3. Owing' \subseteq Owing \ {c}
      BY <2>2 DEF Owing
    <2>4. QED
      BY <1>11, <1>14, <2>1, <2>3 DEF Drop
  <1>15. ASSUME NEW c \in Callers, Back(c)
         PROVE  OneWriteACall'
    <2>1. UNCHANGED <<rpc, revision, late, calls>>
      BY <1>15 DEF Back, Return, Leave, etcdVars
    <2>2. /\ request'[c] = Idle
          /\ \A d \in Callers : d # c => request'[d] = request[d] /\ reply'[d] = reply[d]
      BY <1>2, <1>15 DEF Back, Return, Leave, Answer
    <2>3. Owing' \subseteq Owing
      BY <2>1, <2>2 DEF Owing
    <2>4. QED
      BY <1>3, <2>1, <2>3
  <1>16. ASSUME ExecuteLate
         PROVE  OneWriteACall'
    <2>1. PICK l \in late : late' = late \ {l} /\ Execute(l[3])
      BY <1>16 DEF ExecuteLate
    <2>2. Cardinality(late') \in Nat /\ Cardinality(late') + 1 <= Cardinality(late)
      BY <1>1, <2>1, AtLeastOneLess
    <2>3. IsFiniteSet(late')
      BY <1>1, <2>1, FS_Subset
    <2>4. Owing' = Owing /\ calls' = calls
      BY <1>16 DEF ExecuteLate, Owing
    <2>5. revision' = revision \/ revision' = revision + 1
      BY <1>5, <2>1
    <2>6. revision' + Cardinality(Owing) + Cardinality(late') <= calls + 1
      BY <1>1, <2>2, <2>5
    <2>7. QED
      BY <2>3, <2>4, <2>6 DEF OneWriteACall
  <1>17. CASE UNCHANGED vars
    BY <1>3, <1>17 DEF vars, callVars, etcdVars, Owing
  <1>18. QED
    BY <1>6, <1>7, <1>8, <1>9, <1>12, <1>13, <1>14, <1>15, <1>16, <1>17 DEF Next, Progress

LEMMA EtcdInit == Init => IInv
  <1> SUFFICES ASSUME Init PROVE IInv
    OBVIOUS
  <1>1. Owing = {} /\ late = {} /\ revision = 1 /\ calls = 0
    BY DEF Init, CallsInit, Owing
  <1>2. OneWriteACall
    BY <1>1, FS_EmptySet DEF OneWriteACall
  <1>3. LostForGood
    BY DEF Init, LostForGood, Refused
  <1>4. Kinds
    BY StoreAssumption DEF Kinds, Init, CallsInit, CallsTypeOK, Entries, Absent, Stages, Pending, Reply, Replies
  <1>5. \A c \in Callers : Line(c) = <<>>
    BY ReplicaAssumption DEF Init, Line
  <1>6. Lines
    <2>1. <<>> \in Seq(Callers)
      BY EmptySeq
    <2>2. IsInjective(<<>>)
      BY DEF IsInjective
    <2>3. QED
      BY <2>1, <2>2 DEF Init, Lines
  <1>7. \A c \in Callers : ~InLine(c)
    BY <1>5 DEF InLine, Range
  <1>8. Placed
    BY <1>7 DEF Placed, Init, CallsInit
  <1>9. QED
    BY <1>2, <1>3, <1>4, <1>6, <1>8, TypesApart DEF IInv

LEMMA EtcdNext == IInv /\ [Next]_vars => IInv'
  BY TypesApart, TypesApartNext, KindsKept, PlacesKept, LostKept, BoundKept DEF IInv

\* Replicas race, calls fail half way, requests outlive their callers: still
\* every revision is given once and no call is executed twice, and a failed
\* transaction is one that can no longer succeed (etcd.rs l.31-91).
THEOREM EtcdInvariance == Spec => []IInv
  BY EtcdInit, EtcdNext, PTL DEF Spec

\* One RPC at a time and replica, that of the first of the line for its mutex.
THEOREM EtcdTypeCorrect == Spec => []TypeOK
  BY EtcdInvariance, PTL DEF IInv
(***************************************************************************)
(* The etcd store implements StateStore.                                   *)
(***************************************************************************)
Shown == [c \in Callers |-> ReplyOf(c)]

\* ReplyOf, stage by stage.
ByStage ==
  \A c \in Callers :
    /\ rpc[c] \in {"unsent", "sent"} => ReplyOf(c) = reply[c]
    /\ Refused(c) => ReplyOf(c) = Pending
    /\ rpc[c] = "executed" /\ ~Refused(c) => ReplyOf(c) = outcome[c]
    /\ rpc[c] \in {"resent", "read"} => ReplyOf(c) = outcome[c]

LEMMA Staged == ByStage
  BY DEF ByStage, ReplyOf, Refused

LEMMA StagedNext == ByStage'
  BY Staged, PTL

\* The definitions of StoreCalls are those of StateStore's own instance.
LEMMA SameCalls ==
  /\ Promise!Idle = Idle /\ Promise!Pending = Pending
  /\ \A s, x, v : Promise!Reply(s, x, v) = Reply(s, x, v)
  /\ \A r : Promise!EntryOf(r) = EntryOf(r)
  /\ \A r, e : Promise!Found(r, e) = Found(r, e)
  /\ \A r, e : Promise!Matches(r, e) <=> Matches(r, e)
  /\ \A r : Promise!Writing(r) <=> Writing(r)
  /\ \A r, v : Promise!Install(r, v) <=> Install(r, v)
  /\ \A K : Promise!Requests(K) = Requests(K)
  BY DEF EntryOf, Promise!EntryOf, Found, Promise!Found, Matches, Promise!Matches, Install, Promise!Install,
    Requests, Promise!Requests, Ping, Promise!Ping, Absent, Promise!Absent, Gets, Promise!Gets,
    Puts, Promise!Puts, Swaps, Promise!Swaps, Idle, Promise!Idle, Pending, Promise!Pending,
    Reply, Promise!Reply, Writing, Promise!Writing

LEMMA SameAnswer ==
  ASSUME NEW c \in Callers
  PROVE  /\ \A a : Promise!Answer(c, a) <=> Shown' = [Shown EXCEPT ![c] = a]
         /\ Promise!Waits(c) <=> request[c] # Idle /\ Shown[c] = Pending
  BY SameCalls DEF Promise!Answer, Promise!Waits, Shown

\* What the step of one task changes of what is shown.
LEMMA ShownOfOne ==
  ASSUME NEW c \in Callers, NEW a, ReplyOf(c)' = a,
         \A d \in Callers : d # c => ReplyOf(d)' = ReplyOf(d)
  PROVE  Shown' = [Shown EXCEPT ![c] = a] /\ (a = ReplyOf(c) => Shown' = Shown)
  BY DEF Shown

LEMMA OthersShown ==
  ASSUME NEW d \in Callers, rpc'[d] = rpc[d], outcome'[d] = outcome[d], request'[d] = request[d],
         reply'[d] = reply[d]
  PROVE  ReplyOf(d)' = ReplyOf(d)
  BY DEF ReplyOf, Refused

LEMMA EtcdInitRefines == Init => Promise!Init
  <1> SUFFICES ASSUME Init PROVE Promise!Init
    OBVIOUS
  <1>1. Shown = [c \in Callers |-> Pending]
    BY Staged DEF Shown, ByStage, Init, CallsInit
  <1>2. Promise!CallsInit
    BY <1>1, SameCalls DEF Promise!CallsInit, Init, CallsInit, Shown, Absent, Promise!Absent
  <1>3. QED
    BY <1>2 DEF Promise!Init, Init

\* A revision that etcd is about to give is one of those that StateStore
\* hands out, and nobody has it.
LEMMA NextRevision ==
  ASSUME IInv, Owing # {} \/ late # {}
  PROVE  revision + 1 \in (2..(MaxCalls + 1)) \ written
  <1>1. Kinds
    BY TypesApart DEF IInv
  <1>2. /\ IsFiniteSet(Owing) /\ Cardinality(Owing) \in Nat
        /\ IsFiniteSet(late) /\ Cardinality(late) \in Nat
        /\ revision \in Nat /\ calls \in Nat /\ calls <= MaxCalls
        /\ revision + Cardinality(Owing) + Cardinality(late) <= calls + 1
    BY <1>1, OwingFacts DEF IInv
  <1>3. Cardinality(Owing) + Cardinality(late) >= 1
    <2>1. \A S : IsFiniteSet(S) /\ S # {} => Cardinality(S) # 0
      BY FS_EmptySet
    <2>2. QED
      BY <1>2, <2>1
  <1>4. revision + 1 <= MaxCalls + 1
    BY <1>2, <1>3, StoreAssumption
  <1>5. revision \in Nat \ {0} /\ revision + 1 \notin written
    <2>1. revision \in Nat \ {0} /\ written \subseteq Nat \ {0} /\ \A v \in written : v <= revision
      BY <1>1 DEF Kinds, CallsTypeOK
    <2>2. QED
      BY <2>1
  <1>6. QED
    BY <1>4, <1>5, StoreAssumption
\* A step of the store is one step of StateStore, or none: a write and a read
\* happen when etcd executes them, a failed cas when its second get is, and
\* an error that arrives after that is an answer that is lost.
LEMMA EtcdStep ==
  ASSUME IInv, [Next]_vars
  PROVE  [Promise!Next]_(Promise!vars)
  <1>1. Kinds /\ Lines /\ Placed /\ LostForGood
    BY TypesApart DEF IInv
  <1>2. /\ request \in [Callers -> {Idle} \cup Requests(written)] /\ reply \in [Callers -> Replies]
        /\ rpc \in [Callers -> Stages] /\ outcome \in [Callers -> Replies]
    BY <1>1 DEF Kinds, CallsTypeOK
  <1>3. ASSUME UNCHANGED <<data, written, request, calls, late>>, Shown' = Shown
        PROVE  UNCHANGED Promise!vars
    BY <1>3 DEF Promise!vars, Promise!callVars, Shown
  <1>4. ASSUME NEW c \in Callers, Enter(c)
        PROVE  Promise!Next
    <2>1. ~InLine(c)
      BY <1>1, <1>4 DEF Placed, Enter, Call
    <2>2. rpc[c] = "unsent"
      BY <1>1, <2>1, RpcOfCall
    <2>3. UNCHANGED <<rpc, outcome, reply>> /\ \A d \in Callers : d # c => request'[d] = request[d]
      BY <1>2, <1>4 DEF Enter, Call
    <2>4. ReplyOf(c)' = ReplyOf(c)
      BY <2>2, <2>3, Staged, StagedNext DEF ByStage
    <2>5. Shown' = Shown
      BY <2>3, <2>4, OthersShown, ShownOfOne
    <2>6. Promise!Call(c) /\ UNCHANGED late
      BY <1>4, <2>5, SameCalls DEF Enter, Call, Promise!Call, Shown
    <2>7. QED
      BY <2>6 DEF Promise!Next
  <1>5. ASSUME NEW c \in Callers, Send(c)
        PROVE  UNCHANGED Promise!vars
    <2>1. rpc[c] = "unsent" /\ rpc'[c] = "sent" /\ \A d \in Callers : d # c => rpc'[d] = rpc[d]
      BY <1>2, <1>5 DEF Send, Move
    <2>2. UNCHANGED <<data, written, request, calls, late, outcome, reply>>
      BY <1>5 DEF Send, callVars
    <2>3. ReplyOf(c)' = ReplyOf(c)
      BY <2>1, <2>2, Staged, StagedNext DEF ByStage
    <2>4. Shown' = Shown
      BY <2>1, <2>2, <2>3, OthersShown, ShownOfOne
    <2>5. QED
      BY <1>3, <2>2, <2>4
  <1>6. ASSUME NEW c \in Callers, ExecuteSent(c)
        PROVE  Promise!Read(c) \/ Promise!Write(c) \/ UNCHANGED Promise!vars
    <2>1. /\ rpc[c] = "sent" /\ rpc'[c] = "executed"
          /\ outcome'[c] = IF Succeeds(request[c]) THEN Reply("ok", Nothing, revision + 1)
                           ELSE Found(request[c], EntryOf(request[c]))
          /\ UNCHANGED <<request, reply, calls, late>>
          /\ \A d \in Callers : d # c => rpc'[d] = rpc[d] /\ outcome'[d] = outcome[d]
      BY <1>2, <1>6 DEF ExecuteSent, Move, Learn
    <2>2. request[c] # Idle /\ request[c] \in Requests(written) /\ reply[c] = Pending
      BY <1>1, <2>1, RpcOfCall
    <2>3. ReplyOf(c) = Pending
      BY <2>1, <2>2, Staged DEF ByStage
    <2>4. Promise!Waits(c)
      BY <2>2, <2>3, SameAnswer DEF Shown
    <2>5. \A d \in Callers : d # c => ReplyOf(d)' = ReplyOf(d)
      BY <2>1, OthersShown
    <2>6. ~Refused(c)' => Promise!Answer(c, outcome'[c])
      <3>1. ~Refused(c)' => ReplyOf(c)' = outcome'[c]
        BY <2>1, StagedNext DEF ByStage
      <3>2. QED
        BY <2>5, <3>1, ShownOfOne, SameAnswer
    <2>7. CASE Succeeds(request[c])
      <3>1. Writing(request[c]) /\ Matches(request[c], EntryOf(request[c]))
        BY <2>7 DEF Succeeds, Holds, Writing, Matches
      <3>2. c \in Owing
        BY <2>1, <2>2, <3>1 DEF Owing
      <3>3. revision + 1 \in (2..(MaxCalls + 1)) \ written
        BY <3>2, NextRevision
      <3>4. Install(request[c], revision + 1)
        BY <1>6, <2>7 DEF ExecuteSent, Execute
      <3>5. outcome'[c] = Reply("ok", Nothing, revision + 1) /\ ~Refused(c)'
        BY <2>1, <2>7 DEF Reply, Refused
      <3>6. Promise!Install(request[c], revision + 1)
            /\ Promise!Answer(c, Promise!Reply("ok", Nothing, revision + 1))
        BY <2>6, <3>4, <3>5, SameCalls
      <3>7. Promise!Writing(request[c]) /\ Promise!Matches(request[c], Promise!EntryOf(request[c]))
        BY <3>1, SameCalls
      <3>8. QED
        BY <2>1, <2>4, <3>3, <3>6, <3>7 DEF Promise!Write
    <2>8. CASE ~Succeeds(request[c]) /\ request[c].op # "cas"
      <3>1. ~Writing(request[c])
        BY <2>8 DEF Succeeds, Writing
      <3>2. UNCHANGED <<data, written>>
        BY <1>6, <2>8 DEF ExecuteSent, Execute
      <3>3. outcome'[c] = Promise!Found(request[c], Promise!EntryOf(request[c])) /\ ~Refused(c)'
        BY <2>1, <2>8, SameCalls DEF Refused
      <3>4. Promise!Answer(c, Promise!Found(request[c], Promise!EntryOf(request[c])))
        BY <2>6, <3>3
      <3>5. QED
        BY <2>1, <2>4, <3>1, <3>2, <3>4, SameCalls DEF Promise!Read
    <2>9. CASE ~Succeeds(request[c]) /\ request[c].op = "cas"
      <3>1. UNCHANGED <<data, written>>
        BY <1>6, <2>9 DEF ExecuteSent, Execute
      <3>2. outcome'[c].status = "no"
        BY <1>1, <2>1, <2>2, <2>9, FoundIsReply DEF Kinds, Reply
      <3>3. Refused(c)'
        BY <2>1, <2>9, <3>2 DEF Refused
      <3>4. ReplyOf(c)' = ReplyOf(c)
        BY <2>3, <3>3, StagedNext DEF ByStage, Pending, Reply
      <3>5. Shown' = Shown
        BY <2>5, <3>4, ShownOfOne
      <3>6. QED
        BY <1>3, <2>1, <3>1, <3>5
    <2>10. QED
      BY <2>7, <2>8, <2>9
  <1>7. ASSUME NEW c \in Callers, ExecuteGet(c)
        PROVE  Promise!Read(c) \/ Promise!Fail(c)
    <2>1. /\ rpc[c] = "resent" /\ rpc'[c] = "read"
          /\ outcome'[c] = Found(request[c], EntryOf(request[c]))
          /\ UNCHANGED <<data, written, request, reply, calls, late>>
          /\ \A d \in Callers : d # c => rpc'[d] = rpc[d] /\ outcome'[d] = outcome[d]
      BY <1>2, <1>7 DEF ExecuteGet, Move, Learn, callVars
    <2>2. request[c] # Idle /\ request[c] \in Requests(written) /\ request[c].op = "cas"
      BY <1>1, <2>1, RpcOfCall DEF LostForGood
    <2>3. Promise!Answer(c, Found(request[c], EntryOf(request[c])))
      <3>1. ReplyOf(c)' = Found(request[c], EntryOf(request[c]))
        BY <2>1, StagedNext DEF ByStage
      <3>2. \A d \in Callers : d # c => ReplyOf(d)' = ReplyOf(d)
        BY <2>1, OthersShown
      <3>3. QED
        BY <3>1, <3>2, ShownOfOne, SameAnswer
    <2>4. ReplyOf(c) = outcome[c]
      BY <2>1, Staged DEF ByStage
    <2>5. CASE outcome[c] = Pending /\ ~Matches(request[c], EntryOf(request[c]))
      <3>1. Promise!Waits(c)
        BY <2>2, <2>4, <2>5, SameAnswer DEF Shown
      <3>2. QED
        BY <2>1, <2>3, <2>5, <3>1, SameCalls DEF Promise!Read
    <2>6. CASE outcome[c].status = "unheard" /\ c \in Lossy
      <3>1. Promise!Answer(c, Promise!Reply("no", Nothing, Promise!EntryOf(request[c]).version))
        BY <1>1, <2>2, <2>3, FoundIsReply, SameCalls DEF Kinds
      <3>2. request[c] # Promise!Idle /\ Promise!Forget(c)
        BY <2>1, <2>2, SameCalls DEF Promise!Forget
      <3>3. QED
        BY <2>1, <2>2, <2>6, <3>1, <3>2 DEF Promise!Fail
    <2>7. QED
      BY <1>1, <2>1, <2>5, <2>6 DEF LostForGood
  <1>8. ASSUME NEW c \in Callers, NEW a, Finish(c, a)
        PROVE  /\ ReplyOf(c)' = a /\ \A d \in Callers : d # c => ReplyOf(d)' = ReplyOf(d)
               /\ UNCHANGED <<data, written, request, calls>>
    <2>1. /\ rpc'[c] = "unsent" /\ reply'[c] = a /\ UNCHANGED <<data, written, request, calls>>
          /\ \A d \in Callers : d # c => rpc'[d] = rpc[d] /\ outcome'[d] = outcome[d] /\ reply'[d] = reply[d]
      BY <1>2, <1>8 DEF Finish, Unlock, Move, Learn, Answer
    <2>2. ReplyOf(c)' = a
      BY <2>1, StagedNext DEF ByStage
    <2>3. QED
      BY <2>1, <2>2, OthersShown
  <1>9. ASSUME NEW c \in Callers, NEW a, Retry(c, a)
        PROVE  /\ ReplyOf(c)' = a /\ \A d \in Callers : d # c => ReplyOf(d)' = ReplyOf(d)
               /\ UNCHANGED <<data, written, request, calls>>
    <2>1. /\ rpc'[c] = "resent" /\ outcome'[c] = a /\ UNCHANGED <<data, written, request, reply, calls>>
          /\ \A d \in Callers : d # c => rpc'[d] = rpc[d] /\ outcome'[d] = outcome[d]
      BY <1>2, <1>9 DEF Retry, Move, Learn, callVars
    <2>2. ReplyOf(c)' = a
      BY <2>1, StagedNext DEF ByStage
    <2>3. QED
      BY <2>1, <2>2, OthersShown
  <1>10. ASSUME NEW c \in Callers, Receive(c)
         PROVE  UNCHANGED Promise!vars
    <2>1. CASE Refused(c)
      <3>1. ReplyOf(c) = Pending /\ Retry(c, Pending)
        BY <1>10, <2>1, Staged DEF Receive, ByStage
      <3>2. Shown' = Shown /\ UNCHANGED <<data, written, request, calls>>
        BY <1>9, <3>1, ShownOfOne
      <3>3. QED
        BY <1>3, <1>10, <3>2 DEF Receive
    <2>2. CASE ~Refused(c)
      <3>1. ReplyOf(c) = outcome[c] /\ Finish(c, outcome[c])
        BY <1>10, <2>2, Staged DEF Receive, ByStage
      <3>2. Shown' = Shown /\ UNCHANGED <<data, written, request, calls>>
        BY <1>8, <3>1, ShownOfOne
      <3>3. QED
        BY <1>3, <1>10, <3>2 DEF Receive
    <2>3. QED
      BY <2>1, <2>2
  <1>11. ASSUME NEW c \in Callers, Orphan(c)
         PROVE  Promise!Forget(c)
    <2>1. CASE UNCHANGED late
      BY <2>1 DEF Promise!Forget
    <2>2. CASE rpc[c] = "sent" /\ Writing(request[c]) /\ late' = late \cup {<<c, calls, request[c]>>}
      <3>1. request[c] # Idle /\ reply[c] = Pending
        BY <1>1, <2>2, RpcOfCall
      <3>2. ReplyOf(c) = Pending
        BY <2>2, <3>1, Staged DEF ByStage
      <3>3. Promise!Waits(c)
        BY <3>1, <3>2, SameAnswer DEF Shown
      <3>4. QED
        BY <2>2, <3>3, SameCalls DEF Promise!Forget
    <2>3. QED
      BY <1>11, <2>1, <2>2 DEF Orphan
  <1>12. ASSUME NEW c \in Callers, Break(c)
         PROVE  Promise!Fail(c)
    <2>1. c \in Lossy /\ request[c] # Promise!Idle /\ Promise!Forget(c)
      <3>1. request[c] # Idle
        BY <1>1, <1>12, RpcOfCall DEF Break
      <3>2. QED
        BY <1>11, <1>12, <3>1, SameCalls DEF Break
    <2>2. PICK s \in {"unheard", "no"} :
            Retry(c, Reply(s, Nothing, 0)) \/ Finish(c, Reply(s, Nothing, 0))
      BY <1>12 DEF Break
    <2>3. /\ Promise!Answer(c, Promise!Reply(s, Nothing, 0))
          /\ UNCHANGED <<data, written, request, calls>>
      BY <1>8, <1>9, <2>2, ShownOfOne, SameAnswer, SameCalls
    <2>4. QED
      BY <2>1, <2>3 DEF Promise!Fail
  <1>13. ASSUME NEW c \in Callers, Drop(c)
         PROVE  Promise!Drop(c)
    <2>1. c \in Lossy /\ request[c] # Promise!Idle /\ Promise!Forget(c)
      <3>1. InLine(c)
        BY <1>13 DEF Drop, InLine
      <3>2. request[c] # Idle
        BY <1>1, <3>1, RpcOfCall
      <3>3. QED
        BY <1>11, <1>13, <3>2, SameCalls DEF Drop
    <2>2. /\ rpc'[c] = "unsent" /\ reply'[c] = Pending
          /\ \A d \in Callers : d # c => /\ rpc'[d] = rpc[d] /\ outcome'[d] = outcome[d]
                                         /\ request'[d] = request[d] /\ reply'[d] = reply[d]
      BY <1>2, <1>13 DEF Drop, Leave, Unlock, Move, Learn, Answer
    <2>3. ReplyOf(c)' = Pending /\ \A d \in Callers : d # c => ReplyOf(d)' = ReplyOf(d)
      BY <2>2, StagedNext, OthersShown DEF ByStage
    <2>4. Promise!Answer(c, Promise!Pending)
      BY <2>3, ShownOfOne, SameAnswer, SameCalls
    <2>5. Promise!Leave(c)
      BY <1>13, <2>4, SameCalls DEF Drop, Leave, Promise!Leave
    <2>6. QED
      BY <2>1, <2>5 DEF Promise!Drop
  <1>14. ASSUME NEW c \in Callers, Back(c)
         PROVE  Promise!Next
    <2>1. reply[c].status \in {"ok", "no"} /\ UNCHANGED <<rpc, outcome, late>>
      BY <1>14 DEF Back, Return, etcdVars
    <2>2. ~InLine(c)
      BY <1>1, <2>1 DEF Placed, Pending, Reply
    <2>3. rpc[c] = "unsent"
      BY <1>1, <2>2, RpcOfCall
    <2>4. /\ reply'[c] = Pending
          /\ \A d \in Callers : d # c => request'[d] = request[d] /\ reply'[d] = reply[d]
      BY <1>2, <1>14 DEF Back, Return, Leave, Answer
    <2>5. ReplyOf(c) = reply[c] /\ ReplyOf(c)' = Pending
      BY <2>1, <2>3, <2>4, Staged, StagedNext DEF ByStage
    <2>6. Promise!Answer(c, Promise!Pending)
      BY <2>1, <2>4, <2>5, OthersShown, ShownOfOne, SameAnswer, SameCalls
    <2>7. Promise!Leave(c)
      BY <1>14, <2>6, SameCalls DEF Back, Return, Leave, Promise!Leave
    <2>8. Shown[c].status \in {"ok", "no"}
      BY <2>1, <2>5 DEF Shown
    <2>9. Promise!Return(c) /\ UNCHANGED late
      BY <2>1, <2>7, <2>8 DEF Promise!Return, Shown
    <2>10. QED
      BY <2>9 DEF Promise!Next
  <1>15. ASSUME ExecuteLate
         PROVE  Promise!LateWrite
    <2>1. PICK l \in late : late' = late \ {l} /\ Execute(l[3])
      BY <1>15 DEF ExecuteLate
    <2>2. l[3] \in Puts \cup Swaps(written)
      BY <1>1 DEF Kinds
    <2>3. Succeeds(l[3]) <=> Matches(l[3], EntryOf(l[3]))
      BY <2>2 DEF Succeeds, Holds, Matches, Puts, Swaps
    <2>4. UNCHANGED <<request, reply, calls, rpc, outcome>>
      BY <1>15 DEF ExecuteLate
    <2>5. Shown' = Shown
      BY <2>4, OthersShown DEF Shown
    <2>6. CASE Matches(l[3], EntryOf(l[3]))
      <3>1. revision + 1 \in (2..(MaxCalls + 1)) \ written
        BY NextRevision
      <3>2. Install(l[3], revision + 1)
        BY <2>1, <2>3, <2>6 DEF Execute
      <3>3. QED
        BY <2>1, <2>4, <2>5, <2>6, <3>1, <3>2, SameCalls DEF Promise!LateWrite, Shown
    <2>7. CASE ~Matches(l[3], EntryOf(l[3]))
      <3>1. UNCHANGED <<data, written>>
        BY <2>1, <2>3, <2>7 DEF Execute
      <3>2. QED
        BY <2>1, <2>4, <2>5, <2>7, <3>1, SameCalls DEF Promise!LateWrite, Shown
    <2>8. QED
      BY <2>6, <2>7
  <1>16. CASE UNCHANGED vars
    <2>1. Shown' = Shown
      BY <1>16, OthersShown DEF vars, callVars, etcdVars, Shown
    <2>2. QED
      BY <1>3, <1>16, <2>1 DEF vars, callVars, etcdVars
  <1>17. QED
    BY <1>4, <1>5, <1>6, <1>7, <1>10, <1>12, <1>13, <1>14, <1>15, <1>16
      DEF Next, Progress, Promise!Next

\* Every run of the etcd store is one of StateStore: each call takes effect at
\* most once, at one instant, and a cas only over the entry it names.
THEOREM EtcdRefines == Spec => IsStateStore
  BY EtcdInvariance, EtcdInitRefines, EtcdStep, PTL DEF Spec, IsStateStore, Promise!Spec
=============================================================================
