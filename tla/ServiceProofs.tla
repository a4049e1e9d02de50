--------------------------- MODULE ServiceProofs ----------------------------
(***************************************************************************)
(* What the service keeps to for any number of peers, callers, requests    *)
(* and exits, and any limiter that AlgorithmAssumption describes: answers  *)
(* match, a client of the repository is cut off only for cause, and exits  *)
(* alone grant the quota anew.                                             *)
(***************************************************************************)
EXTENDS Service, SequenceTheorems, TLAPS

(* The two ends of a connection read what the other has written, although  *)
(* a builder leaves defaults out: for every request and every decision.    *)

(* A reader with the defaults of the builder finds every field, written or *)
(* not (flatbuf/mod.rs, push_slot and get with a default).                 *)
LEMMA ReadBuilt ==
  ASSUME NEW message, NEW defaults, DOMAIN message = DOMAIN defaults,
         message = [f \in DOMAIN message |-> message[f]]
  PROVE  Read(Build(message, defaults), defaults) = message
<1> DEFINE written == {f \in DOMAIN message : f \in DOMAIN defaults => message[f] # defaults[f]}
           table == [f \in written |-> message[f]]
<1>1. Build(message, defaults) = table /\ DOMAIN table = written
  BY DEF Build
<1>2. ASSUME NEW f \in DOMAIN defaults
      PROVE  (IF f \in DOMAIN table THEN table[f] ELSE defaults[f]) = message[f]
  <2>1. CASE f \in written
    BY <2>1
  <2>2. CASE f \notin written
    BY <2>2
  <2> QED
    BY <2>1, <2>2
<1> HIDE DEF table, written
<1>3. Read(table, defaults) = [f \in DOMAIN defaults |-> message[f]]
  BY <1>2 DEF Read
<1> QED
  BY <1>1, <1>3

(* A caller is told the decision of its check (server.rs l.98-110,         *)
(* flatbuf/mod.rs): with every flag and number that was left out restored. *)
THEOREM ResponseRoundTrip ==
  ASSUME NEW d \in Replies
  PROVE  ReadResponse(BuildResponse(d)) = Shown(d)
<1> DEFINE defaults == [allowed |-> FALSE, remaining |-> 0, retry_after_ms |-> 0]
           shown == Shown(d)
<1>1. DOMAIN shown = DOMAIN defaults /\ shown = [f \in DOMAIN shown |-> shown[f]]
  BY DEF Shown
<1>2. Read(Build(shown, defaults), defaults) = shown
  <2> HIDE DEF shown, defaults
  <2> QED
    BY <1>1, ReadBuilt
<1> QED
  BY <1>2 DEF ReadResponse, BuildResponse

(* A server reads the request its client wrote, and the verifier lets it   *)
(* through (server.rs l.77-81): a cost of 1 is the one the builder leaves  *)
(* out (flatbuf/mod.rs).                                                   *)
THEOREM RequestRoundTrip ==
  ASSUME NEW id, NEW c
  PROVE  /\ Verifies(BuildRequest(Request(id, c)))
         /\ ReadRequest(BuildRequest(Request(id, c))) = Request(id, c)
<1> DEFINE q == Request(id, c)
           table == BuildRequest(q)
<1>1. /\ DOMAIN q = {"client_id", "cost"} /\ q.client_id = id /\ q.cost = c
  BY DEF Request
<1>2. /\ DOMAIN table = IF c = 1 THEN {"client_id"} ELSE {"client_id", "cost"}
      /\ \A f \in DOMAIN table : table[f] = q[f]
  <2> HIDE DEF q
  <2>1. DOMAIN [cost |-> 1] = {"cost"} /\ [cost |-> 1]["cost"] = 1 /\ "client_id" # "cost"
    OBVIOUS
  <2>2. {f \in DOMAIN q : f \in DOMAIN [cost |-> 1] => q[f] # [cost |-> 1][f]}
           = IF c = 1 THEN {"client_id"} ELSE {"client_id", "cost"}
    BY <1>1, <2>1
  <2> QED
    BY <2>2 DEF BuildRequest, Build
<1>3. "client_id" \in DOMAIN table /\ ("cost" \in DOMAIN table <=> c # 1)
      /\ table["client_id"] = id /\ (c # 1 => table["cost"] = c)
  BY <1>1, <1>2
<1> HIDE DEF table
<1>4. ReadRequest(table) = [client_id |-> id, cost |-> c]
  BY <1>3 DEF ReadRequest, Read
<1> QED
  BY <1>3, <1>4 DEF Verifies, table, Request

-----------------------------------------------------------------------------
(* Sequences whose elements have no set of their own.                      *)

(* Length and domain of a queue (server.rs l.61, frames in flight).        *)
LEMMA QueueLen ==
  ASSUME NEW s, IsSeq(s)
  PROVE  Len(s) \in Nat /\ DOMAIN s = 1..Len(s)
BY LenProperties DEF IsSeq

(* Any sequence is one of its own elements.                                *)
LEMMA OwnElements ==
  ASSUME NEW S, NEW s \in Seq(S)
  PROVE  IsSeq(s)
<1> DEFINE R == {s[i] : i \in DOMAIN s}
<1>1. Len(s) \in Nat /\ s \in [1..Len(s) -> S] /\ DOMAIN s = 1..Len(s)
  BY LenProperties
<1>2. s \in [1..Len(s) -> R]
  BY <1>1
<1>3. s \in Seq(R)
  BY <1>1, <1>2, SeqDef
<1> QED
  BY <1>3 DEF IsSeq

(* A connection that starts has nothing in flight (client.rs l.32).        *)
LEMMA EmptyQueue == IsSeq(<<>>) /\ Len(<<>>) = 0 /\ DOMAIN <<>> = {}
<1>1. <<>> \in Seq({}) /\ Len(<<>>) = 0
  BY EmptySeq
<1>2. DOMAIN <<>> = 1..Len(<<>>)
  BY <1>1, LenProperties
<1>3. IsSeq(<<>>)
  BY <1>1, OwnElements
<1> QED
  BY <1>1, <1>2, <1>3

(* What a write leaves in flight (server.rs l.93, client.py l.97).         *)
LEMMA QueueAppend ==
  ASSUME NEW s, IsSeq(s), NEW e
  PROVE  /\ IsSeq(Append(s, e)) /\ Len(Append(s, e)) = Len(s) + 1
         /\ DOMAIN Append(s, e) = 1..(Len(s) + 1)
         /\ Append(s, e)[Len(s) + 1] = e
         /\ \A i \in 1..Len(s) : Append(s, e)[i] = s[i]
<1> DEFINE S == {s[i] : i \in DOMAIN s} \cup {e}
<1>1. s \in Seq(S)
  BY SeqMonotonic DEF IsSeq
<1>2. e \in S
  OBVIOUS
<1> HIDE DEF S
<1>3. Append(s, e) \in Seq(S) /\ Len(Append(s, e)) = Len(s) + 1
      /\ Append(s, e)[Len(s) + 1] = e /\ \A i \in 1..Len(s) : Append(s, e)[i] = s[i]
  BY <1>1, <1>2, AppendProperties
<1> QED
  BY <1>3, OwnElements, LenProperties

(* What a read takes and leaves (server.rs l.75, client.rs l.60).          *)
LEMMA QueueTail ==
  ASSUME NEW s, IsSeq(s), s # <<>>
  PROVE  /\ IsSeq(Tail(s)) /\ Len(Tail(s)) = Len(s) - 1 /\ Len(s) >= 1 /\ Head(s) = s[1]
         /\ DOMAIN Tail(s) = 1..(Len(s) - 1)
         /\ \A i \in 1..(Len(s) - 1) : Tail(s)[i] = s[i + 1]
<1> DEFINE S == {s[i] : i \in DOMAIN s}
<1>1. s \in Seq(S)
  BY DEF IsSeq
<1> HIDE DEF S
<1>2. Tail(s) \in Seq(S) /\ Len(Tail(s)) = Len(s) - 1
      /\ \A i \in 1..Len(Tail(s)) : Tail(s)[i] = s[i + 1]
  BY <1>1, HeadTailProperties
<1>3. Len(s) \in Nat \ {0}
  BY <1>1, EmptySeq
<1>4. Head(s) = s[1]
  BY <1>1, <1>3
<1>5. DOMAIN Tail(s) = 1..Len(Tail(s))
  BY <1>2, LenProperties
<1>6. IsSeq(Tail(s))
  BY <1>2, OwnElements
<1> QED
  BY <1>2, <1>3, <1>4, <1>5, <1>6

(* The same with a name for the length of what is left (client.rs l.60).   *)
LEMMA ShorterQueue ==
  ASSUME NEW s, IsSeq(s), s # <<>>
  PROVE  \E n \in Nat : /\ n + 1 = Len(s) /\ DOMAIN s = 1..(n + 1)
                        /\ IsSeq(Tail(s)) /\ Len(Tail(s)) = n /\ DOMAIN Tail(s) = 1..n
                        /\ Head(s) = s[1] /\ \A i \in 1..n : Tail(s)[i] = s[i + 1]
<1>1. Len(s) \in Nat /\ DOMAIN s = 1..Len(s) /\ Len(s) >= 1
  BY QueueLen, QueueTail
<1>2. PICK n \in Nat : n + 1 = Len(s)
  <2>1. Len(s) - 1 \in Nat /\ (Len(s) - 1) + 1 = Len(s)
    BY <1>1
  <2> QED
    BY <2>1
<1>3. Len(s) - 1 = n
  BY <1>2
<1> QED
  BY <1>1, <1>2, <1>3, QueueTail

-----------------------------------------------------------------------------
(* The invariant by connection: what concerns one client, and the rest.    *)

Queues(c) == IsSeq(up[c]) /\ IsSeq(down[c]) /\ IsSeq(awaited[c]) /\ IsSeq(due[c])

TaskInOrder(c) ==
  /\ open[c] => task[c] = "checking"
  /\ task[c] # "none" => Listening /\ link[c] \in {"up", "half"}

ClosedEnd(c) ==
  /\ link[c] \in {"none", "half"} => awaited[c] = <<>> /\ due[c] = <<>> /\ down[c] = <<>>
  /\ link[c] \in {"none", "cut"} => up[c] = <<>>

FramesOf(c) ==
  \A i \in DOMAIN up[c] :
    /\ Acceptable(up[c][i]) => ReadRequest(up[c][i].table).cost \in Costs
    /\ c \notin Foreign /\ longest[c] <= MaxMsgBytes => Acceptable(up[c][i])

OrderOf(c) == link[c] = "up" =>
  /\ Len(due[c]) = Len(down[c]) + Unwritten(c)
  /\ Unwritten(c) = 1 => due[c][Len(due[c])].shown = Shown(reply[c])
  /\ Len(awaited[c]) = Len(due[c]) + Checked(c) + Len(up[c])
  /\ open[c] => awaited[c][Len(due[c]) + 1] = cost[c]
  /\ \A i \in DOMAIN up[c] : Acceptable(up[c][i]) =>
       awaited[c][Len(due[c]) + Checked(c) + i] = ReadRequest(up[c][i].table).cost

MatchOf(c) ==
  /\ Len(down[c]) <= Len(due[c]) /\ Len(due[c]) <= Len(awaited[c])
  /\ \A i \in DOMAIN down[c] : ReadResponse(down[c][i]) = due[c][i].shown
  /\ \A i \in DOMAIN due[c] : due[c][i].cost = awaited[c][i]

CutOf(c) ==
  /\ opened[c] \in 0..exits /\ longest[c] \in Nat
  /\ c \in Clients \ Foreign /\ link[c] = "cut" => exits > opened[c] \/ longest[c] > MaxMsgBytes

Connection(c) ==
  /\ Queues(c) /\ TaskInOrder(c) /\ ClosedEnd(c) /\ FramesOf(c)
  /\ OrderOf(c) /\ MatchOf(c) /\ CutOf(c)

Types ==
  /\ link \in [Clients -> {"none", "up", "half", "cut"}]
  /\ task \in [Clients -> {"none", "reading", "checking"}]
  /\ call \in [Callers -> {"none", "checking"}]
  /\ phase \in {"down", "built", "bound", "serving"} /\ exits \in 0..MaxExits
  /\ open \in [Tasks -> BOOLEAN] /\ reply \in [Tasks -> Replies]
  /\ DOMAIN cost = Tasks /\ \A t \in Tasks : open[t] => cost[t] \in Costs
  /\ version \in Nat /\ (version > 0 => entry \in StoredStates) /\ granted \in Nat
  /\ DOMAIN up = Clients /\ DOMAIN down = Clients
  /\ DOMAIN awaited = Clients /\ DOMAIN due = Clients
  /\ DOMAIN opened = Clients /\ DOMAIN longest = Clients
  /\ \A h \in Callers : open[h] => call[h] = "checking"

ByConnection == Types /\ RoomLeft /\ \A c \in Clients : Connection(c)

(* The inductive invariant (main.rs l.27-123, server.rs l.59-96), cut into *)
(* the connections and what they share.                                    *)
LEMMA InvariantByConnection == CoreInv <=> ByConnection
<1>1. CoreInv => ByConnection
  BY DEF CoreInv, TypeOK, ClosedEnds, FramesFit, RequestsInOrder, AnswersMatch, CutForCause,
         ByConnection, Types, Connection, Queues, TaskInOrder, ClosedEnd, FramesOf, OrderOf, MatchOf, CutOf
<1>2. ByConnection => CoreInv
  BY DEF CoreInv, TypeOK, ClosedEnds, FramesFit, RequestsInOrder, AnswersMatch, CutForCause,
         ByConnection, Types, Connection, Queues, TaskInOrder, ClosedEnd, FramesOf, OrderOf, MatchOf, CutOf
<1> QED
  BY <1>1, <1>2

(* A step that leaves a connection alone (server.rs l.47: one task each).  *)
LEMMA ConnectionKept ==
  ASSUME NEW c, Connection(c), exits \in Nat, exits' \in Nat, exits' >= exits,
         Listening => Listening',
         link'[c] = link[c], task'[c] = task[c], up'[c] = up[c], down'[c] = down[c],
         awaited'[c] = awaited[c], due'[c] = due[c],
         opened'[c] = opened[c], longest'[c] = longest[c],
         open'[c] <=> open[c], cost'[c] = cost[c], reply'[c] = reply[c]
  PROVE  Connection(c)'
<1>1. Queues(c)' /\ TaskInOrder(c)' /\ ClosedEnd(c)'
  BY DEF Connection, Queues, TaskInOrder, ClosedEnd
<1>2. FramesOf(c)' /\ MatchOf(c)'
  BY DEF Connection, FramesOf, MatchOf, Acceptable
<1>3. OrderOf(c)'
  BY DEF Connection, OrderOf, Checked, Unwritten, Acceptable
<1>4. CutOf(c)'
  BY DEF Connection, CutOf
<1> QED
  BY <1>1, <1>2, <1>3, <1>4 DEF Connection

-----------------------------------------------------------------------------
(* Checks.                                                                 *)

State == IF version = 0 THEN NewState(0) ELSE entry

(* The answers of the abstract limiter are those of Decision (limiter.rs). *)
LEMMA SameAnswers ==
  /\ \A out, v : Limiter!Answer(out, v) = Answer(out, v)
  /\ \A v : Limiter!Contended(v) = Contended(v)
BY DEF Limiter!Answer, Answer, Limiter!Contended, Contended, Limiter!Reply, Reply

(* A charge (limiter.rs l.29-32): what it lets in, the stored state loses. *)
LEMMA ChargeRoom ==
  ASSUME Types, RoomLeft, NEW t \in Tasks, Limiter!Charge(t, 0), Book(t),
         UNCHANGED process
  PROVE  /\ version' \in Nat /\ version' > 0 /\ entry' \in StoredStates /\ granted' \in Nat
         /\ RoomLeft' /\ version' = version + 1
         /\ \A v \in Nat : Answer(Limiter!Judgement(t, 0), v) \in Replies
<1> DEFINE out == Algorithm(State, 0, cost[t])
           bound == Quota * (1 + (IF config.etcd THEN 0 ELSE exits))
           gain == IF out.allowed THEN cost[t] ELSE 0
<1>1. State \in StoredStates /\ cost[t] \in Costs /\ cost[t] \in Nat /\ version \in Nat /\ granted \in Nat
  <2>1. version \in Nat /\ (version > 0 => entry \in StoredStates) /\ granted \in Nat
        /\ (open[t] => cost[t] \in Costs)
    BY DEF Types
  <2>2. open[t]
    BY DEF Limiter!Charge
  <2>3. State \in StoredStates
    BY <2>1, AlgorithmAssumption DEF State
  <2> QED
    BY <2>1, <2>2, <2>3, PeerAssumption
<1>2. Limiter!Judgement(t, 0) = out
  BY DEF Limiter!Judgement, State
<1>3. /\ out.state \in StoredStates /\ out.allowed \in BOOLEAN
      /\ out.remaining \in Int /\ out.wait \in Int
      /\ Room(out.state) + gain <= Room(State)
      /\ Room(State) \in Nat /\ Room(out.state) \in Nat
  BY <1>1, AlgorithmAssumption
<1>4. version' = version + 1 /\ entry' = out.state /\ granted' = granted + gain
      /\ config' = config /\ exits' = exits
  BY <1>2 DEF Limiter!Charge, Book, LetIn, process
<1>5. gain \in Nat
  BY <1>1
<1>6. granted + Room(State) <= bound
  BY DEF RoomLeft, State
<1>7. bound \in Int
  BY ServiceAssumption DEF Types
<1>8. RoomLeft' <=> granted' + Room(entry') <= bound
  BY <1>1, <1>4 DEF RoomLeft
<1>9. \A v \in Nat : Answer(out, v) \in Replies
  BY <1>3 DEF Answer, Reply, Replies, Verdicts
<1> HIDE DEF bound, gain, out, State
<1>10. granted + gain + Room(out.state) <= bound
  BY <1>1, <1>3, <1>5, <1>6, <1>7
<1> QED
  BY <1>1, <1>2, <1>3, <1>4, <1>5, <1>8, <1>9, <1>10

(* What any step of a check comes to (limiter.rs l.20-32): it goes on with *)
(* its reply unchanged, or has one.                                        *)
LEMMA CheckEffect ==
  ASSUME Types, RoomLeft, NEW t \in Tasks, Check(t)
  PROVE  /\ open[t] /\ Owe(t) /\ Types' /\ RoomLeft'
         /\ UNCHANGED <<wire, peers, http, process, cost>>
         /\ open'[t] => reply' = reply
         /\ \A u \in Tasks \ {t} : (open'[u] <=> open[u]) /\ reply'[u] = reply[u]
<1>0. /\ Owe(t) /\ UNCHANGED <<wire, peers, http, process>>
      /\ open \in [Tasks -> BOOLEAN] /\ reply \in [Tasks -> Replies] /\ version \in Nat
  BY DEF Check, Types
<1>1. ASSUME Limiter!Charge(t, 0), Book(t), NEW v \in Nat,
             \/ UNCHANGED <<reply, open>>
             \/ /\ \/ reply' = [reply EXCEPT ![t] = Answer(Limiter!Judgement(t, 0), v)]
                   \/ reply' = [reply EXCEPT ![t] = Contended(v)]
                /\ open' = [open EXCEPT ![t] = FALSE]
      PROVE  /\ open[t] /\ Types' /\ RoomLeft' /\ cost' = cost
             /\ open'[t] => reply' = reply
             /\ \A u \in Tasks \ {t} : (open'[u] <=> open[u]) /\ reply'[u] = reply[u]
  <2>1. /\ version' \in Nat /\ version' > 0 /\ entry' \in StoredStates /\ granted' \in Nat
        /\ RoomLeft' /\ \A w \in Nat : Answer(Limiter!Judgement(t, 0), w) \in Replies
    BY <1>0, <1>1, ChargeRoom
  <2>2. Contended(v) \in Replies
    BY DEF Contended, Reply, Replies, Verdicts
  <2>3. open' \in [Tasks -> BOOLEAN] /\ reply' \in [Tasks -> Replies]
    BY <1>0, <1>1, <2>1, <2>2
  <2>4. open[t] /\ cost' = cost
    BY <1>1 DEF Limiter!Charge
  <2>5. \A u \in Tasks : open'[u] => open[u]
    BY <1>0, <1>1
  <2>8. DOMAIN due' = Clients
    BY <1>0 DEF Owe, Types
  <2>9. /\ \A u \in Tasks : open'[u] => cost'[u] \in Costs
        /\ \A h \in Callers : open'[h] => call'[h] = "checking"
        /\ DOMAIN cost' = Tasks
    BY <1>0, <2>4, <2>5 DEF Types, Tasks, http
  <2>6. Types'
    BY <1>0, <2>1, <2>3, <2>8, <2>9 DEF Types, wire, peers, http, process
  <2>7. /\ open'[t] => reply' = reply
        /\ \A u \in Tasks \ {t} : (open'[u] <=> open[u]) /\ reply'[u] = reply[u]
    BY <1>0, <1>1
  <2> QED
    BY <2>1, <2>4, <2>6, <2>7
<1>2. CASE Limiter!Decide(t, 0) /\ Book(t)
  <2>1. version + 1 \in Nat
    BY <1>0
  <2> QED
    BY <1>0, <1>1, <1>2, <2>1, SameAnswers DEF Limiter!Decide
<1>3. CASE Limiter!DecideUnseen(t, 0) /\ Book(t)
  BY <1>0, <1>1, <1>3 DEF Limiter!DecideUnseen
<1>4. CASE Limiter!DecideUnseenAndRefuse(t, 0) /\ Book(t)
  <2>1. version + 1 \in Nat
    BY <1>0
  <2> QED
    BY <1>0, <1>1, <1>4, <2>1, SameAnswers DEF Limiter!DecideUnseenAndRefuse
<1>5. CASE Limiter!Refuse(t) /\ UNCHANGED <<granted, paid, spent>>
  <2>1. Contended(version) \in Replies
    BY <1>0 DEF Contended, Reply, Replies, Verdicts
  <2>2. /\ open[t] /\ reply' = [reply EXCEPT ![t] = Contended(version)]
        /\ open' = [open EXCEPT ![t] = FALSE] /\ UNCHANGED <<entry, version, cost, granted>>
    BY <1>5, SameAnswers DEF Limiter!Refuse
  <2>3. open' \in [Tasks -> BOOLEAN] /\ reply' \in [Tasks -> Replies]
    BY <1>0, <2>1, <2>2
  <2>4. \A u \in Tasks : open'[u] => open[u]
    BY <1>0, <2>2
  <2>7. DOMAIN due' = Clients
    BY <1>0 DEF Owe, Types
  <2>5. Types'
    BY <1>0, <2>2, <2>3, <2>4, <2>7 DEF Types, wire, peers, http, process
  <2>6. RoomLeft'
    BY <1>0, <2>2 DEF RoomLeft, process
  <2> QED
    BY <1>0, <2>2, <2>5, <2>6
<1> QED
  BY <1>0, <1>2, <1>3, <1>4, <1>5 DEF Check

(* A step that concerns one connection at most (server.rs l.45-57).        *)
LEMMA OneConnection ==
  ASSUME CoreInv, Types', RoomLeft', NEW c, c \in Clients => Connection(c)',
         UNCHANGED process,
         \A d \in Clients \ {c} :
           /\ link'[d] = link[d] /\ task'[d] = task[d] /\ up'[d] = up[d] /\ down'[d] = down[d]
           /\ awaited'[d] = awaited[d] /\ due'[d] = due[d]
           /\ opened'[d] = opened[d] /\ longest'[d] = longest[d]
           /\ (open'[d] <=> open[d]) /\ cost'[d] = cost[d] /\ reply'[d] = reply[d]
  PROVE  CoreInv'
<1>1. Types /\ RoomLeft /\ \A d \in Clients : Connection(d)
  BY InvariantByConnection DEF ByConnection
<1>2. exits \in Nat /\ exits' = exits /\ (Listening => Listening')
  BY <1>1, ServiceAssumption DEF Types, process, Listening
<1>3. \A d \in Clients \ {c} : Connection(d)'
  BY <1>1, <1>2, ConnectionKept
<1>4. \A d \in Clients : Connection(d)'
  BY <1>3
<1>5. ByConnection'
  BY <1>4 DEF ByConnection
<1> QED
  BY <1>5, InvariantByConnection, PTL

(* The decision on a request that a living connection waits for is the     *)
(* first that is owed to it after those already written (server.rs l.83).  *)
LEMMA DecisionOwed ==
  ASSUME NEW c \in Clients, Connection(c), Types, open[c], ~open'[c], link[c] = "up",
         UNCHANGED <<wire, peers, process, cost>>, Owe(c)
  PROVE  Connection(c)'
<1> DEFINE e == Owed(c)
<1>1. /\ link'[c] = "up" /\ task[c] = "checking" /\ task'[c] = "checking" /\ up'[c] = up[c]
      /\ down'[c] = down[c] /\ awaited'[c] = awaited[c] /\ exits' = exits
      /\ opened'[c] = opened[c] /\ longest'[c] = longest[c]
      /\ (Listening <=> Listening')
  BY DEF Connection, TaskInOrder, wire, peers, process, Listening
<1>2. IsSeq(due[c]) /\ IsSeq(awaited[c]) /\ IsSeq(up[c]) /\ IsSeq(down[c])
  BY DEF Connection, Queues
<1>14. Len(due[c]) \in Nat /\ DOMAIN due[c] = 1..Len(due[c])
  BY <1>2, QueueLen
<1>15. PICK n \in Nat : n = Len(due[c]) /\ DOMAIN due[c] = 1..n
  BY <1>14
<1>3. Len(awaited[c]) \in Nat /\ Len(up[c]) \in Nat
      /\ Len(down[c]) \in Nat /\ DOMAIN up[c] = 1..Len(up[c]) /\ DOMAIN down[c] = 1..Len(down[c])
  BY <1>2, QueueLen
<1>4. due'[c] = Append(due[c], e)
  BY DEF Owe, Types
<1>5. /\ IsSeq(due'[c]) /\ Len(due'[c]) = n + 1 /\ DOMAIN due'[c] = 1..(n + 1)
      /\ due'[c][n + 1] = e /\ \A i \in 1..n : due'[c][i] = due[c][i]
  BY <1>2, <1>4, <1>15, QueueAppend
<1>6. e.shown = Shown(reply'[c]) /\ e.cost = cost[c]
  BY DEF Owed
<1>7. Unwritten(c) = 0 /\ Checked(c) = 1 /\ Unwritten(c)' = 1 /\ Checked(c)' = 0
  BY <1>1 DEF Unwritten, Checked
<1>8. /\ n = Len(down[c]) /\ Len(awaited[c]) = n + 1 + Len(up[c]) /\ awaited[c][n + 1] = cost[c]
      /\ \A i \in DOMAIN up[c] : Acceptable(up[c][i]) =>
           awaited[c][n + 1 + i] = ReadRequest(up[c][i].table).cost
  <2>1. /\ n = Len(down[c]) + 0 /\ Len(awaited[c]) = n + 1 + Len(up[c])
        /\ awaited[c][n + 1] = cost[c]
        /\ \A i \in DOMAIN up[c] : Acceptable(up[c][i]) =>
             awaited[c][n + 1 + i] = ReadRequest(up[c][i].table).cost
    BY <1>7, <1>15 DEF Connection, OrderOf
  <2> QED
    BY <1>3, <2>1
<1> HIDE DEF e
<1>9. OrderOf(c)'
  <2>1. Len(due'[c]) = Len(down'[c]) + Unwritten(c)'
    BY <1>1, <1>5, <1>7, <1>8
  <2>2. due'[c][Len(due'[c])].shown = Shown(reply'[c])
    BY <1>5, <1>6
  <2>3. Len(awaited'[c]) = Len(due'[c]) + Checked(c)' + Len(up'[c])
    <3>1. Len(awaited'[c]) = n + 1 + Len(up[c]) /\ Len(due'[c]) + Checked(c)' + Len(up'[c]) = n + 1 + 0 + Len(up[c])
      BY <1>1, <1>5, <1>7, <1>8
    <3>2. PICK u \in Nat : u = Len(up[c])
      BY <1>3
    <3>3. n + 1 + u = n + 1 + 0 + u
      OBVIOUS
    <3> QED
      BY <3>1, <3>2, <3>3
  <2>4. \A i \in DOMAIN up'[c] : Acceptable(up'[c][i]) =>
          awaited'[c][Len(due'[c]) + Checked(c)' + i] = ReadRequest(up'[c][i].table).cost
    <3>1. \A i \in DOMAIN up'[c] : Len(due'[c]) + Checked(c)' + i = n + 1 + i
      BY <1>1, <1>3, <1>5, <1>7
    <3> QED
      BY <1>1, <1>8, <3>1
  <2> QED
    BY <2>1, <2>2, <2>3, <2>4 DEF OrderOf
<1>10. MatchOf(c)'
  <2>1. \A i \in 1..Len(down[c]) : ReadResponse(down[c][i]) = due'[c][i].shown
    BY <1>3, <1>5, <1>8, <1>15 DEF Connection, MatchOf
  <2>2. \A i \in 1..(n + 1) : due'[c][i].cost = awaited[c][i]
    <3>1. \A i \in 1..n : due[c][i].cost = awaited[c][i]
      BY <1>15 DEF Connection, MatchOf
    <3>2. \A i \in 1..n : due'[c][i].cost = awaited[c][i]
      BY <1>5, <3>1
    <3>3. due'[c][n + 1].cost = awaited[c][n + 1]
      BY <1>5, <1>6, <1>8
    <3>4. \A i \in 1..(n + 1) : i \in 1..n \/ i = n + 1
      OBVIOUS
    <3> QED
      BY <3>2, <3>3, <3>4
  <2>3. Len(down[c]) <= n + 1 /\ n + 1 <= Len(awaited[c])
    <3>1. PICK u \in Nat : u = Len(up[c])
      BY <1>3
    <3>2. n <= n + 1 /\ n + 1 <= n + 1 + u
      OBVIOUS
    <3> QED
      BY <1>8, <3>1, <3>2
  <2>4. Len(down'[c]) <= Len(due'[c]) /\ Len(due'[c]) <= Len(awaited'[c])
    BY <1>1, <1>5, <2>3
  <2>5. \A i \in DOMAIN down'[c] : ReadResponse(down'[c][i]) = due'[c][i].shown
    BY <1>1, <1>3, <2>1
  <2>6. \A i \in DOMAIN due'[c] : due'[c][i].cost = awaited'[c][i]
    BY <1>1, <1>5, <2>2
  <2> QED
    BY <2>4, <2>5, <2>6 DEF MatchOf
<1>11. Queues(c)' /\ TaskInOrder(c)' /\ ClosedEnd(c)' /\ FramesOf(c)' /\ CutOf(c)'
  BY <1>1, <1>2, <1>5 DEF Connection, Queues, TaskInOrder, ClosedEnd, FramesOf, CutOf, Acceptable
<1> QED
  BY <1>9, <1>10, <1>11 DEF Connection

(* A step of a check keeps the invariant (limiter.rs l.20-32).             *)
LEMMA CheckInvariant ==
  ASSUME CoreInv, NEW t \in Tasks, Check(t)
  PROVE  CoreInv'
<1>1. Types /\ RoomLeft /\ \A c \in Clients : Connection(c)
  BY InvariantByConnection DEF ByConnection
<1>2. /\ open[t] /\ Owe(t) /\ Types' /\ RoomLeft'
      /\ UNCHANGED <<wire, peers, http, process, cost>>
      /\ open'[t] => reply' = reply
      /\ \A u \in Tasks \ {t} : (open'[u] <=> open[u]) /\ reply'[u] = reply[u]
  BY <1>1, CheckEffect
<1>3. \A d \in Clients \ {t} : due'[d] = due[d]
  BY <1>1, <1>2 DEF Owe, Types
<1>4. ASSUME t \in Clients PROVE Connection(t)'
  <2>1. CASE ~open'[t] /\ link[t] = "up"
    BY <1>1, <1>2, <1>4, <2>1, DecisionOwed DEF Owe, Types
  <2>2. CASE open'[t]
    <3>1. due' = due
      BY <1>2, <2>2 DEF Owe
    <3> QED
      BY <1>1, <1>2, <1>4, <2>2, <3>1, ConnectionKept, ServiceAssumption
         DEF Types, wire, peers, process, Listening
  <2>3. CASE ~open'[t] /\ link[t] # "up"
    <3>1. due' = due
      BY <1>2, <2>3 DEF Owe
    <3>2. Connection(t)
      BY <1>1, <1>4
    <3>3. Queues(t)' /\ TaskInOrder(t)' /\ ClosedEnd(t)' /\ FramesOf(t)' /\ CutOf(t)'
      BY <1>2, <2>3, <3>1, <3>2 DEF Connection, Queues, TaskInOrder, ClosedEnd, FramesOf, CutOf,
         Acceptable, wire, peers, process, Listening
    <3>4. OrderOf(t)'
      BY <1>2, <2>3 DEF OrderOf, wire
    <3>5. MatchOf(t)'
      BY <1>2, <3>1, <3>2 DEF Connection, MatchOf, wire, peers
    <3> QED
      BY <3>3, <3>4, <3>5 DEF Connection
  <2> QED
    BY <2>1, <2>2, <2>3
<1>5. \A d \in Clients \ {t} :
        /\ link'[d] = link[d] /\ task'[d] = task[d] /\ up'[d] = up[d] /\ down'[d] = down[d]
        /\ awaited'[d] = awaited[d] /\ due'[d] = due[d]
        /\ opened'[d] = opened[d] /\ longest'[d] = longest[d]
        /\ (open'[d] <=> open[d]) /\ cost'[d] = cost[d] /\ reply'[d] = reply[d]
  BY <1>2, <1>3 DEF wire, peers, Tasks
<1>6. UNCHANGED process
  BY <1>2
<1> QED
  BY <1>2, <1>4, <1>5, <1>6, OneConnection

-----------------------------------------------------------------------------
(* The task of a connection.                                               *)

(* A connection is accepted (server.rs l.47).                              *)
LEMMA AcceptInvariant ==
  ASSUME CoreInv, NEW c \in Clients, Listening, Accept(c),
         UNCHANGED <<peers, http, check, process, account>>
  PROVE  CoreInv'
<1>1. Types /\ RoomLeft /\ Connection(c)
  BY InvariantByConnection DEF ByConnection
<1>2. /\ link' = link /\ up' = up /\ down' = down /\ awaited' = awaited /\ due' = due
      /\ open' = open /\ cost' = cost /\ reply' = reply /\ exits' = exits
      /\ opened' = opened /\ longest' = longest
      /\ phase' = phase /\ config' = config /\ call' = call
      /\ entry' = entry /\ version' = version /\ granted' = granted
      /\ task' = [task EXCEPT ![c] = "reading"]
  BY DEF Accept, peers, http, check, process, account
<1>3. /\ link[c] \in {"up", "half"} /\ task[c] = "none" /\ ~open[c]
      /\ task'[c] = "reading" /\ (Listening <=> Listening')
  BY <1>1, <1>2 DEF Accept, Types, Connection, TaskInOrder, Listening
<1>4. Queues(c)' /\ TaskInOrder(c)' /\ ClosedEnd(c)' /\ FramesOf(c)' /\ CutOf(c)'
  BY <1>1, <1>2, <1>3 DEF Connection, Queues, TaskInOrder, ClosedEnd, FramesOf, CutOf, Acceptable
<1>5. (Unwritten(c) = 0 /\ Unwritten(c)' = 0) /\ Checked(c)' = Checked(c)
  BY <1>2, <1>3 DEF Unwritten, Checked
<1>6. OrderOf(c)'
  BY <1>1, <1>2, <1>5 DEF Connection, OrderOf, Acceptable
<1>7. MatchOf(c)'
  BY <1>1, <1>2 DEF Connection, MatchOf
<1>8. Types' /\ RoomLeft'
  BY <1>1, <1>2 DEF Types, RoomLeft
<1>9. \A d \in Clients \ {c} : task'[d] = task[d]
  BY <1>1, <1>2 DEF Types
<1>10. UNCHANGED process
  OBVIOUS
<1> QED
  BY <1>2, <1>4, <1>6, <1>7, <1>8, <1>9, <1>10, OneConnection DEF Connection

(* A request is read and its check begins (server.rs l.61-83): it is the   *)
(* oldest that is awaited and not decided.                                 *)
LEMMA TakeInvariant ==
  ASSUME CoreInv, NEW c \in Clients, TakeRequest(c),
         Limiter!Ask(c, ReadRequest(Head(up[c]).table).cost),
         UNCHANGED <<peers, http, process, account>>
  PROVE  CoreInv'
<1>1. Types /\ RoomLeft /\ Connection(c)
  BY InvariantByConnection DEF ByConnection
<1>2. /\ link' = link /\ down' = down /\ awaited' = awaited /\ due' = due
      /\ exits' = exits /\ phase' = phase /\ config' = config /\ call' = call
      /\ opened' = opened /\ longest' = longest
      /\ entry' = entry /\ version' = version /\ granted' = granted
      /\ task' = [task EXCEPT ![c] = "checking"] /\ up' = [up EXCEPT ![c] = Tail(up[c])]
      /\ open' = [open EXCEPT ![c] = TRUE]
      /\ cost' = [cost EXCEPT ![c] = ReadRequest(Head(up[c]).table).cost]
      /\ reply' = [reply EXCEPT ![c] = NoReply]
      /\ task[c] = "reading" /\ up[c] # <<>> /\ Acceptable(Head(up[c]))
  BY DEF TakeRequest, Limiter!Ask, peers, http, process, account, Limiter!NoReply, NoReply,
         Limiter!Reply, Reply
<1>3. IsSeq(up[c]) /\ IsSeq(awaited[c]) /\ IsSeq(due[c]) /\ IsSeq(down[c]) /\ c \in Tasks
  BY <1>1 DEF Connection, Queues, Tasks
<1>4. PICK u \in Nat : /\ u + 1 = Len(up[c]) /\ DOMAIN up[c] = 1..(u + 1)
                       /\ IsSeq(Tail(up[c])) /\ Len(Tail(up[c])) = u /\ DOMAIN Tail(up[c]) = 1..u
                       /\ Head(up[c]) = up[c][1] /\ \A i \in 1..u : Tail(up[c])[i] = up[c][i + 1]
  BY <1>2, <1>3, ShorterQueue
<1>5. PICK q : q = ReadRequest(up[c][1].table).cost
  OBVIOUS
<1>6. q \in Costs /\ (c \notin Foreign /\ longest[c] <= MaxMsgBytes => \A i \in 1..u : Acceptable(up[c][i + 1]))
      /\ \A i \in 1..u : Acceptable(up[c][i + 1]) => ReadRequest(up[c][i + 1].table).cost \in Costs
  <2>1. 1 \in 1..(u + 1) /\ \A i \in 1..u : i + 1 \in 1..(u + 1)
    OBVIOUS
  <2> QED
    BY <1>1, <1>2, <1>4, <1>5, <2>1 DEF Connection, FramesOf
<1>7. /\ task'[c] = "checking" /\ up'[c] = Tail(up[c]) /\ open'[c] /\ cost'[c] = q /\ ~open[c]
      /\ link[c] \in {"up", "half"} /\ (Listening' <=> Listening) /\ Listening
  BY <1>1, <1>2, <1>3, <1>4, <1>5 DEF Types, Connection, TaskInOrder, Listening
<1>8. Unwritten(c) = 0 /\ Unwritten(c)' = 0 /\ Checked(c) = 0 /\ Checked(c)' = 1
  BY <1>2, <1>7 DEF Unwritten, Checked
<1>9. FramesOf(c)'
  BY <1>2, <1>4, <1>6, <1>7 DEF FramesOf, Acceptable
<1>10. Queues(c)' /\ TaskInOrder(c)' /\ ClosedEnd(c)' /\ CutOf(c)'
  BY <1>1, <1>2, <1>3, <1>4, <1>7 DEF Connection, Queues, TaskInOrder, ClosedEnd, CutOf
<1>11. OrderOf(c)'
  <2> SUFFICES ASSUME link[c] = "up"
               PROVE  OrderOf(c)'
    BY <1>2 DEF OrderOf
  <2>1. PICK n \in Nat : n = Len(due[c])
    BY <1>3, QueueLen
  <2>2. /\ n = Len(down[c]) + 0 /\ Len(awaited[c]) = n + 0 + (u + 1)
        /\ \A i \in 1..(u + 1) : Acceptable(up[c][i]) =>
             awaited[c][n + 0 + i] = ReadRequest(up[c][i].table).cost
    BY <1>1, <1>4, <1>8, <2>1 DEF Connection, OrderOf
  <2>3. n + 0 + (u + 1) = n + 1 + u /\ 1 \in 1..(u + 1) /\ n + 0 + 1 = n + 1
    OBVIOUS
  <2>4. \A i \in 1..u : i + 1 \in 1..(u + 1) /\ n + 0 + (i + 1) = n + 1 + i
    OBVIOUS
  <2>5. awaited[c][n + 1] = q
    BY <1>2, <1>4, <1>5, <2>2, <2>3
  <2>6. \A i \in 1..u : Acceptable(Tail(up[c])[i]) =>
          awaited[c][n + 1 + i] = ReadRequest(Tail(up[c])[i].table).cost
    BY <1>4, <2>2, <2>4
  <2>7. Len(awaited[c]) = n + 1 + u
    BY <2>2, <2>3
  <2>8. /\ Len(due'[c]) = Len(down'[c]) + Unwritten(c)' /\ ~(Unwritten(c)' = 1)
        /\ Len(awaited'[c]) = Len(due'[c]) + Checked(c)' + Len(up'[c])
        /\ awaited'[c][Len(due'[c]) + 1] = cost'[c]
    <3>1. Len(due'[c]) = n /\ Len(up'[c]) = u /\ awaited' = awaited /\ down' = down
      BY <1>2, <1>4, <1>7, <2>1
    <3>2. Len(due'[c]) = Len(down'[c]) + Unwritten(c)' /\ ~(Unwritten(c)' = 1)
      BY <1>8, <2>2, <3>1
    <3>3. Len(awaited'[c]) = Len(due'[c]) + Checked(c)' + Len(up'[c])
      BY <1>8, <2>7, <3>1
    <3>4. awaited'[c][Len(due'[c]) + 1] = cost'[c]
      BY <1>7, <2>5, <3>1
    <3> QED
      BY <3>2, <3>3, <3>4
  <2>9. \A i \in DOMAIN up'[c] : Acceptable(up'[c][i]) =>
          awaited'[c][Len(due'[c]) + Checked(c)' + i] = ReadRequest(up'[c][i].table).cost
    BY <1>2, <1>4, <1>7, <1>8, <2>1, <2>6
  <2> QED
    BY <2>8, <2>9 DEF OrderOf
<1>12. MatchOf(c)'
  BY <1>1, <1>2 DEF Connection, MatchOf
<1>13. Types' /\ RoomLeft'
  <2>1. NoReply \in Replies
    BY DEF NoReply, Reply, Replies, Verdicts
  <2>2. /\ task' \in [Clients -> {"none", "reading", "checking"}]
        /\ open' \in [Tasks -> BOOLEAN] /\ reply' \in [Tasks -> Replies] /\ DOMAIN up' = Clients
    BY <1>1, <1>2, <2>1 DEF Types
  <2>3. DOMAIN cost' = Tasks /\ \A t \in Tasks : open'[t] => cost'[t] \in Costs
    BY <1>1, <1>2, <1>6, <1>7 DEF Types
  <2>4. \A h \in Callers : open'[h] => call'[h] = "checking"
    BY <1>1, <1>2, ServiceAssumption DEF Types, Tasks
  <2>5. Types'
    BY <1>1, <1>2, <2>2, <2>3, <2>4 DEF Types
  <2> QED
    BY <1>1, <1>2, <2>5 DEF RoomLeft
<1>14. \A d \in Clients \ {c} :
         /\ link'[d] = link[d] /\ task'[d] = task[d] /\ up'[d] = up[d] /\ down'[d] = down[d]
         /\ awaited'[d] = awaited[d] /\ due'[d] = due[d]
         /\ (open'[d] <=> open[d]) /\ cost'[d] = cost[d] /\ reply'[d] = reply[d]
  BY <1>1, <1>2 DEF Types, Tasks
<1>15. UNCHANGED process
  OBVIOUS
<1> QED
  BY <1>2, <1>9, <1>10, <1>11, <1>12, <1>13, <1>14, <1>15, OneConnection DEF Connection

(* A connection the server hangs up on (server.rs l.64-72, l.84-96) has no *)
(* task, takes no frame and is no longer in order, only matched.           *)
LEMMA HangUpInvariant ==
  ASSUME CoreInv, NEW c \in Clients, HangUp(c),
         link[c] = "half" \/ c \in Foreign \/ longest[c] > MaxMsgBytes,
         task[c] # "none", ~open[c],
         UNCHANGED <<peers, http, check, process, account>>
  PROVE  CoreInv'
<1>1. Types /\ RoomLeft /\ Connection(c)
  BY InvariantByConnection DEF ByConnection
<1>2. /\ awaited' = awaited /\ due' = due /\ open' = open /\ cost' = cost /\ reply' = reply
      /\ exits' = exits /\ phase' = phase /\ config' = config /\ call' = call
      /\ opened' = opened /\ longest' = longest
      /\ entry' = entry /\ version' = version /\ granted' = granted
      /\ task' = [task EXCEPT ![c] = "none"] /\ up' = [up EXCEPT ![c] = <<>>]
      /\ link' = [link EXCEPT ![c] = IF link[c] = "half" THEN "none" ELSE "cut"]
      /\ \E kept \in {down[c], <<>>} : down' = [down EXCEPT ![c] = kept]
  BY DEF HangUp, peers, http, check, process, account
<1>3. /\ task'[c] = "none" /\ up'[c] = <<>> /\ (down'[c] = down[c] \/ down'[c] = <<>>)
      /\ link[c] \in {"up", "half"}
      /\ link'[c] = IF link[c] = "half" THEN "none" ELSE "cut"
  BY <1>1, <1>2 DEF Types, Connection, TaskInOrder
<1>4. IsSeq(up'[c]) /\ DOMAIN up'[c] = {} /\ IsSeq(down'[c])
  BY <1>1, <1>3, EmptyQueue DEF Connection, Queues
<1>5. Queues(c)' /\ TaskInOrder(c)' /\ FramesOf(c)'
  BY <1>1, <1>2, <1>3, <1>4 DEF Connection, Queues, TaskInOrder, FramesOf
<1>6. ClosedEnd(c)' /\ CutOf(c)' /\ OrderOf(c)'
  BY <1>1, <1>2, <1>3 DEF Connection, ClosedEnd, CutOf, OrderOf
<1>7. MatchOf(c)'
  <2>1. Len(due[c]) \in Nat
    BY <1>1, QueueLen DEF Connection, Queues
  <2>2. CASE down'[c] = down[c]
    BY <1>1, <1>2, <2>2 DEF Connection, MatchOf
  <2>3. CASE down'[c] = <<>>
    BY <1>1, <1>2, <2>1, <2>3, EmptyQueue DEF Connection, MatchOf
  <2> QED
    BY <1>3, <2>2, <2>3
<1>8. Types' /\ RoomLeft'
  BY <1>1, <1>2 DEF Types, RoomLeft
<1>9. \A d \in Clients \ {c} :
        /\ link'[d] = link[d] /\ task'[d] = task[d] /\ up'[d] = up[d] /\ down'[d] = down[d]
        /\ awaited'[d] = awaited[d] /\ due'[d] = due[d]
        /\ opened'[d] = opened[d] /\ longest'[d] = longest[d]
        /\ (open'[d] <=> open[d]) /\ cost'[d] = cost[d] /\ reply'[d] = reply[d]
  BY <1>1, <1>2 DEF Types
<1>10. UNCHANGED process
  OBVIOUS
<1> QED
  BY <1>5, <1>6, <1>7, <1>8, <1>9, <1>10, OneConnection DEF Connection

(* The answer that is written is the decision that was owed (server.rs     *)
(* l.84-94): the reader finds in it what check() returned.                 *)
LEMMA WriteInvariant ==
  ASSUME CoreInv, NEW c \in Clients, ~open[c], WriteAnswer(c, reply[c]),
         UNCHANGED <<peers, http, check, process, account>>
  PROVE  CoreInv'
<1>1. Types /\ RoomLeft /\ Connection(c)
  BY InvariantByConnection DEF ByConnection
<1>2. CASE link[c] = "half" /\ HangUp(c)
  BY <1>2, HangUpInvariant DEF WriteAnswer
<1>3. CASE /\ task' = [task EXCEPT ![c] = "reading"]
           /\ down' = [down EXCEPT ![c] = IF link[c] = "up" THEN Append(down[c], BuildResponse(reply[c]))
                                                              ELSE down[c]]
           /\ UNCHANGED <<link, up>>
  <2>1. /\ awaited' = awaited /\ due' = due /\ open' = open /\ cost' = cost /\ reply' = reply
        /\ exits' = exits /\ phase' = phase /\ config' = config /\ call' = call
        /\ opened' = opened /\ longest' = longest
        /\ entry' = entry /\ version' = version /\ granted' = granted
        /\ link' = link /\ up' = up /\ task'[c] = "reading" /\ task[c] = "checking"
        /\ (Listening' <=> Listening)
    BY <1>1, <1>3 DEF WriteAnswer, peers, http, check, process, account, Types, Listening
  <2>2. /\ Unwritten(c) = 1 /\ Unwritten(c)' = 0 /\ Checked(c) = 0 /\ Checked(c)' = 0
    BY <2>1 DEF Unwritten, Checked
  <2>3. IsSeq(down[c]) /\ IsSeq(due[c])
    BY <1>1 DEF Connection, Queues
  <2>4. PICK n \in Nat : n = Len(down[c]) /\ DOMAIN down[c] = 1..n
    BY <2>3, QueueLen
  <2>5. ASSUME link[c] = "up" PROVE Connection(c)'
    <3>1. down'[c] = Append(down[c], BuildResponse(reply[c]))
      BY <1>1, <1>3, <2>5 DEF Types
    <3>2. /\ IsSeq(down'[c]) /\ Len(down'[c]) = n + 1 /\ DOMAIN down'[c] = 1..(n + 1)
          /\ down'[c][n + 1] = BuildResponse(reply[c])
          /\ \A i \in 1..n : down'[c][i] = down[c][i]
      BY <2>3, <2>4, <3>1, QueueAppend
    <3>3. /\ Len(due[c]) = n + 1 /\ due[c][n + 1].shown = Shown(reply[c])
          /\ Len(awaited[c]) = n + 1 + 0 + Len(up[c])
          /\ \A i \in DOMAIN up[c] : Acceptable(up[c][i]) =>
               awaited[c][n + 1 + 0 + i] = ReadRequest(up[c][i].table).cost
      BY <1>1, <2>2, <2>4, <2>5 DEF Connection, OrderOf
    <3>4. reply[c] \in Replies
      BY <1>1 DEF Types, Tasks
    <3>5. ReadResponse(down'[c][n + 1]) = due[c][n + 1].shown
      BY <3>2, <3>3, <3>4, ResponseRoundTrip
    <3>6. MatchOf(c)'
      <4>1. \A i \in 1..n : ReadResponse(down'[c][i]) = due[c][i].shown
        BY <1>1, <2>4, <3>2 DEF Connection, MatchOf
      <4>2. \A i \in DOMAIN down'[c] : ReadResponse(down'[c][i]) = due'[c][i].shown
        BY <2>1, <3>2, <3>5, <4>1
      <4>3. n + 1 <= n + 1
        OBVIOUS
      <4>4. Len(down'[c]) <= Len(due'[c])
        BY <2>1, <3>2, <3>3, <4>3
      <4> QED
        BY <1>1, <2>1, <4>2, <4>4 DEF Connection, MatchOf
    <3>7. OrderOf(c)'
      <4>1. n + 1 = n + 1 + 0
        OBVIOUS
      <4>2. /\ Len(due'[c]) = Len(down'[c]) + Unwritten(c)' /\ ~(Unwritten(c)' = 1)
            /\ Len(awaited'[c]) = Len(due'[c]) + Checked(c)' + Len(up'[c]) /\ ~open'[c]
        BY <2>1, <2>2, <3>2, <3>3, <4>1
      <4>3. \A i \in DOMAIN up'[c] : Acceptable(up'[c][i]) =>
              awaited'[c][Len(due'[c]) + Checked(c)' + i] = ReadRequest(up'[c][i].table).cost
        BY <2>1, <2>2, <3>3
      <4> QED
        BY <4>2, <4>3 DEF OrderOf
    <3>8. Queues(c)' /\ TaskInOrder(c)' /\ ClosedEnd(c)' /\ FramesOf(c)' /\ CutOf(c)'
      BY <1>1, <2>1, <2>5, <3>2
         DEF Connection, Queues, TaskInOrder, ClosedEnd, FramesOf, CutOf, Acceptable
    <3> QED
      BY <3>6, <3>7, <3>8 DEF Connection
  <2>6. ASSUME link[c] # "up" PROVE Connection(c)'
    <3>1. down'[c] = down[c]
      BY <1>1, <1>3, <2>6 DEF Types
    <3>2. Queues(c)' /\ TaskInOrder(c)' /\ ClosedEnd(c)' /\ FramesOf(c)' /\ CutOf(c)'
      BY <1>1, <2>1, <3>1
         DEF Connection, Queues, TaskInOrder, ClosedEnd, FramesOf, CutOf, Acceptable
    <3>3. OrderOf(c)' /\ MatchOf(c)'
      BY <1>1, <2>1, <2>6, <3>1 DEF Connection, OrderOf, MatchOf
    <3> QED
      BY <3>2, <3>3 DEF Connection
  <2>7. Types' /\ RoomLeft'
    BY <1>1, <1>3, <2>1 DEF Types, RoomLeft
  <2>8. \A d \in Clients \ {c} : task'[d] = task[d] /\ down'[d] = down[d]
    BY <1>1, <1>3 DEF Types
  <2>9. UNCHANGED process
    OBVIOUS
  <2> QED
    BY <2>1, <2>5, <2>6, <2>7, <2>8, <2>9, OneConnection
<1> QED
  BY <1>2, <1>3 DEF WriteAnswer

(* Whatever handle_conn does keeps the invariant (server.rs l.59-96).      *)
LEMMA HandleInvariant ==
  ASSUME CoreInv, NEW c \in Clients, Handle(c)
  PROVE  CoreInv'
<1>1. Types /\ Connection(c)
  BY InvariantByConnection DEF ByConnection
<1>2. CASE RefuseFrame(c) /\ UNCHANGED <<peers, http, check, process, account>>
  <2>1. 1 \in DOMAIN up[c] /\ Head(up[c]) = up[c][1]
    <3>1. IsSeq(up[c]) /\ up[c] # <<>>
      BY <1>1, <1>2 DEF Connection, Queues, RefuseFrame
    <3>2. Len(up[c]) \in Nat /\ Len(up[c]) >= 1 /\ DOMAIN up[c] = 1..Len(up[c]) /\ Head(up[c]) = up[c][1]
      BY <3>1, QueueLen, QueueTail
    <3> QED
      BY <3>2
  <2>2. c \in Foreign \/ longest[c] > MaxMsgBytes
    <3>1. longest[c] \in Nat /\ ~(longest[c] <= MaxMsgBytes) => longest[c] > MaxMsgBytes
      BY FrameAssumption
    <3> QED
      BY <1>1, <1>2, <2>1, <3>1 DEF Connection, FramesOf, CutOf, RefuseFrame
  <2>3. ~open[c]
    BY <1>1, <1>2 DEF Connection, TaskInOrder, RefuseFrame
  <2> QED
    BY <1>2, <2>2, <2>3, HangUpInvariant DEF RefuseFrame
<1>3. CASE EndOfStream(c) /\ UNCHANGED <<peers, http, check, process, account>>
  <2>1. ~open[c]
    BY <1>1, <1>3 DEF Connection, TaskInOrder, EndOfStream
  <2> QED
    BY <1>3, <2>1, HangUpInvariant DEF EndOfStream
<1> QED
  BY <1>2, <1>3, AcceptInvariant, TakeInvariant, WriteInvariant DEF Handle

-----------------------------------------------------------------------------
(* The clients.                                                            *)

(* A connection begins with nothing in flight (client.rs l.32, client.py   *)
(* l.93).                                                                  *)
LEMMA ConnectInvariant ==
  ASSUME CoreInv, NEW c \in Clients, Listening, Connect(c, exits),
         UNCHANGED <<http, check, process, account>>
  PROVE  CoreInv'
<1>1. Types /\ RoomLeft /\ Connection(c)
  BY InvariantByConnection DEF ByConnection
<1>2. /\ task' = task /\ up' = up /\ down' = down /\ awaited' = awaited /\ due' = due
      /\ open' = open /\ cost' = cost /\ reply' = reply /\ exits' = exits
      /\ phase' = phase /\ config' = config /\ call' = call
      /\ entry' = entry /\ version' = version /\ granted' = granted
      /\ opened' = [opened EXCEPT ![c] = exits] /\ longest' = [longest EXCEPT ![c] = 0]
      /\ link' = [link EXCEPT ![c] = "up"] /\ link[c] = "none"
  BY DEF Connect, peers, http, check, process, account
<1>3. /\ link'[c] = "up" /\ task[c] = "none" /\ ~open[c] /\ (Listening' <=> Listening)
      /\ up[c] = <<>> /\ down[c] = <<>> /\ awaited[c] = <<>> /\ due[c] = <<>>
  BY <1>1, <1>2 DEF Types, Connection, TaskInOrder, ClosedEnd, Listening
<1>4. Unwritten(c)' = 0 /\ Checked(c)' = 0
  BY <1>2, <1>3 DEF Unwritten, Checked
<1>10. opened'[c] = exits /\ longest'[c] = 0 /\ exits \in Nat
  BY <1>1, <1>2, ServiceAssumption DEF Types
<1>11. CutOf(c)'
  BY <1>2, <1>3, <1>10 DEF CutOf
<1>12. FramesOf(c)'
  BY <1>2, <1>3, EmptyQueue DEF FramesOf
<1>5. Queues(c)' /\ TaskInOrder(c)' /\ ClosedEnd(c)' /\ FramesOf(c)' /\ CutOf(c)'
  BY <1>1, <1>2, <1>3, <1>11, <1>12 DEF Connection, Queues, TaskInOrder, ClosedEnd
<1>6. OrderOf(c)' /\ MatchOf(c)'
  BY <1>2, <1>3, <1>4, EmptyQueue DEF OrderOf, MatchOf
<1>7. Types' /\ RoomLeft'
  BY <1>1, <1>2 DEF Types, RoomLeft
<1>8. \A d \in Clients \ {c} :
        link'[d] = link[d] /\ opened'[d] = opened[d] /\ longest'[d] = longest[d]
  BY <1>1, <1>2 DEF Types
<1>9. UNCHANGED process
  OBVIOUS
<1> QED
  BY <1>2, <1>5, <1>6, <1>7, <1>8, <1>9, OneConnection DEF Connection

(* A request joins the end of its connection, and of what its client waits *)
(* for; on a connection that is cut it goes nowhere (client.rs l.41-57,    *)
(* client.py l.97-98).                                                     *)
LEMMA PostInvariant ==
  ASSUME CoreInv, NEW c \in Clients, NEW frame, NEW k, Post(c, frame, k),
         Acceptable(frame) => k \in Costs /\ ReadRequest(frame.table).cost = k,
         frame.len \in Nat, c \notin Foreign /\ frame.len <= MaxMsgBytes => Acceptable(frame),
         UNCHANGED <<http, check, process, account>>
  PROVE  CoreInv'
<1>1. Types /\ RoomLeft /\ Connection(c)
  BY InvariantByConnection DEF ByConnection
<1>2. /\ link' = link /\ task' = task /\ down' = down /\ due' = due
      /\ open' = open /\ cost' = cost /\ reply' = reply /\ exits' = exits
      /\ phase' = phase /\ config' = config /\ call' = call
      /\ entry' = entry /\ version' = version /\ granted' = granted
      /\ awaited' = [awaited EXCEPT ![c] = Append(awaited[c], k)]
      /\ up' = [up EXCEPT ![c] = IF link[c] = "up" THEN Append(up[c], frame) ELSE up[c]]
      /\ longest' = [longest EXCEPT ![c] = IF link[c] = "up" /\ frame.len > longest[c]
                                             THEN frame.len ELSE longest[c]]
      /\ opened' = opened /\ link[c] \in {"up", "cut"}
  BY DEF Post, http, check, process, account
<1>3. IsSeq(awaited[c]) /\ IsSeq(up[c]) /\ IsSeq(due[c]) /\ IsSeq(down[c])
      /\ awaited'[c] = Append(awaited[c], k) /\ (Listening' <=> Listening)
      /\ up'[c] = IF link[c] = "up" THEN Append(up[c], frame) ELSE up[c]
  BY <1>1, <1>2 DEF Connection, Queues, Types, Listening
<1>14. /\ longest'[c] \in Nat /\ longest[c] <= longest'[c] /\ opened'[c] = opened[c]
       /\ longest'[c] <= MaxMsgBytes => longest[c] <= MaxMsgBytes
       /\ link[c] = "up" /\ longest'[c] <= MaxMsgBytes => frame.len <= MaxMsgBytes
       /\ CutOf(c)'
  <2>1. longest[c] \in Nat /\ MaxMsgBytes \in Nat
    BY <1>1, FrameAssumption DEF Connection, CutOf
  <2>2. longest'[c] = IF link[c] = "up" /\ frame.len > longest[c] THEN frame.len ELSE longest[c]
    BY <1>1, <1>2 DEF Types
  <2>3. CutOf(c)'
    BY <1>1, <1>2, <2>1, <2>2 DEF Connection, CutOf
  <2> QED
    BY <1>2, <2>1, <2>2, <2>3
<1>4. PICK a \in Nat : /\ a = Len(awaited[c]) /\ IsSeq(awaited'[c]) /\ Len(awaited'[c]) = a + 1
                       /\ awaited'[c][a + 1] = k
                       /\ \A i \in 1..a : awaited'[c][i] = awaited[c][i]
  <2>1. PICK a \in Nat : a = Len(awaited[c])
    BY <1>3, QueueLen
  <2>2. /\ IsSeq(awaited'[c]) /\ Len(awaited'[c]) = Len(awaited[c]) + 1
        /\ awaited'[c][Len(awaited[c]) + 1] = k
        /\ \A i \in 1..Len(awaited[c]) : awaited'[c][i] = awaited[c][i]
    BY <1>3, QueueAppend
  <2> QED
    BY <2>1, <2>2
<1>5. PICK n \in Nat : n = Len(due[c]) /\ DOMAIN due[c] = 1..n
  BY <1>3, QueueLen
<1>6. n <= a /\ \A i \in 1..n : due[c][i].cost = awaited[c][i]
  BY <1>1, <1>4, <1>5 DEF Connection, MatchOf
<1>7. MatchOf(c)'
  <2>1. n <= a + 1 /\ \A i \in 1..n : i \in 1..a
    BY <1>6
  <2>2. \A i \in 1..n : due[c][i].cost = awaited'[c][i]
    BY <1>4, <1>6, <2>1
  <2> QED
    BY <1>1, <1>2, <1>4, <1>5, <2>1, <2>2 DEF Connection, MatchOf
<1>8. ASSUME link[c] = "cut" PROVE Connection(c)'
  <2>1. up'[c] = up[c]
    BY <1>3, <1>8
  <2>2. Queues(c)' /\ TaskInOrder(c)' /\ ClosedEnd(c)' /\ FramesOf(c)' /\ CutOf(c)' /\ OrderOf(c)'
    BY <1>1, <1>2, <1>3, <1>4, <1>8, <1>14, <2>1
       DEF Connection, Queues, TaskInOrder, ClosedEnd, FramesOf, Acceptable, OrderOf
  <2> QED
    BY <1>7, <2>2 DEF Connection
<1>9. ASSUME link[c] = "up" PROVE Connection(c)'
  <2>8. up'[c] = Append(up[c], frame)
    BY <1>3, <1>9
  <2>1. PICK u \in Nat : /\ u = Len(up[c]) /\ DOMAIN up[c] = 1..u /\ IsSeq(up'[c])
                         /\ Len(up'[c]) = u + 1 /\ DOMAIN up'[c] = 1..(u + 1)
                         /\ up'[c][u + 1] = frame /\ \A i \in 1..u : up'[c][i] = up[c][i]
    <3>1. PICK u \in Nat : u = Len(up[c]) /\ DOMAIN up[c] = 1..u
      BY <1>3, QueueLen
    <3>2. /\ IsSeq(up'[c]) /\ Len(up'[c]) = Len(up[c]) + 1 /\ DOMAIN up'[c] = 1..(Len(up[c]) + 1)
          /\ up'[c][Len(up[c]) + 1] = frame /\ \A i \in 1..Len(up[c]) : up'[c][i] = up[c][i]
      BY <1>3, <2>8, QueueAppend
    <3> QED
      BY <3>1, <3>2
  <2>2. PICK p \in {0, 1} : p = Checked(c)
    BY DEF Checked
  <2>3. p = Checked(c)' /\ Unwritten(c)' = Unwritten(c)
    BY <1>2, <2>2 DEF Checked, Unwritten
  <2>4. /\ n = Len(down[c]) + Unwritten(c)
        /\ Unwritten(c) = 1 => due[c][n].shown = Shown(reply[c])
        /\ a = n + p + u
        /\ open[c] => awaited[c][n + 1] = cost[c]
        /\ \A i \in 1..u : Acceptable(up[c][i]) =>
             awaited[c][n + p + i] = ReadRequest(up[c][i].table).cost
    BY <1>1, <1>4, <1>5, <1>9, <2>1, <2>2 DEF Connection, OrderOf
  <2>5. FramesOf(c)'
    <3>1. \A i \in 1..u : /\ Acceptable(up'[c][i]) => ReadRequest(up'[c][i].table).cost \in Costs
                          /\ c \notin Foreign /\ longest'[c] <= MaxMsgBytes => Acceptable(up'[c][i])
      BY <1>1, <1>14, <2>1 DEF Connection, FramesOf
    <3>2. \A i \in 1..(u + 1) : i \in 1..u \/ i = u + 1
      OBVIOUS
    <3>3. \A i \in DOMAIN up'[c] :
            /\ Acceptable(up'[c][i]) => ReadRequest(up'[c][i].table).cost \in Costs
            /\ c \notin Foreign /\ longest'[c] <= MaxMsgBytes => Acceptable(up'[c][i])
      BY <1>9, <1>14, <2>1, <3>1, <3>2
    <3> QED
      BY <3>3 DEF FramesOf, Acceptable
  <2>6. OrderOf(c)'
    <3>1. a + 1 = n + p + (u + 1) /\ a + 1 = n + p + u + 1
          /\ \A i \in 1..u : n + p + i \in 1..a
      <4>1. a = n + p + u
        BY <2>4
      <4>2. p = 0 \/ p = 1
        BY <2>2
      <4> QED
        BY <4>1, <4>2
    <3>2. open[c] => p = 1
      BY <2>2 DEF Checked
    <3>3. p = 1 => n + 1 \in 1..a
      <4>1. a = n + p + u
        BY <2>4
      <4> QED
        BY <4>1
    <3>4. open'[c] => awaited'[c][Len(due'[c]) + 1] = cost'[c]
      BY <1>2, <1>4, <1>5, <2>4, <3>2, <3>3
    <3>5. \A i \in 1..(u + 1) : Acceptable(up'[c][i]) =>
            awaited'[c][n + p + i] = ReadRequest(up'[c][i].table).cost
      <4>1. \A i \in 1..u : Acceptable(up'[c][i]) =>
              awaited'[c][n + p + i] = ReadRequest(up'[c][i].table).cost
        BY <1>4, <2>1, <2>4, <3>1
      <4>2. Acceptable(frame) => awaited'[c][n + p + (u + 1)] = ReadRequest(frame.table).cost
        BY <1>4, <3>1
      <4>3. \A i \in 1..(u + 1) : i \in 1..u \/ i = u + 1
        OBVIOUS
      <4> QED
        BY <2>1, <4>1, <4>2, <4>3
    <3>6. /\ Len(due'[c]) = Len(down'[c]) + Unwritten(c)'
          /\ Unwritten(c)' = 1 => due'[c][Len(due'[c])].shown = Shown(reply'[c])
      BY <1>2, <1>5, <2>3, <2>4
    <3>7. Len(awaited'[c]) = Len(due'[c]) + Checked(c)' + Len(up'[c])
      BY <1>2, <1>4, <1>5, <2>1, <2>3, <3>1
    <3>8. \A i \in DOMAIN up'[c] : Acceptable(up'[c][i]) =>
            awaited'[c][Len(due'[c]) + Checked(c)' + i] = ReadRequest(up'[c][i].table).cost
      BY <1>2, <1>5, <2>1, <2>3, <3>5
    <3> QED
      BY <3>4, <3>6, <3>7, <3>8 DEF OrderOf
  <2>7. Queues(c)' /\ TaskInOrder(c)' /\ ClosedEnd(c)' /\ CutOf(c)'
    BY <1>1, <1>2, <1>3, <1>4, <1>9, <1>14, <2>1 DEF Connection, Queues, TaskInOrder, ClosedEnd
  <2> QED
    BY <1>7, <2>5, <2>6, <2>7 DEF Connection
<1>10. Types' /\ RoomLeft'
  BY <1>1, <1>2 DEF Types, RoomLeft
<1>11. \A d \in Clients \ {c} :
         up'[d] = up[d] /\ awaited'[d] = awaited[d] /\ opened'[d] = opened[d] /\ longest'[d] = longest[d]
  BY <1>1, <1>2 DEF Types
<1>12. UNCHANGED process
  OBVIOUS
<1>13. Connection(c)'
  BY <1>2, <1>8, <1>9
<1> QED
  BY <1>2, <1>10, <1>11, <1>12, <1>13, OneConnection

(* A client of the repository sends what the server takes if it is not too *)
(* long, and reads it at the cost that was meant; what others send may be  *)
(* refused (client.rs l.41-57, client.py l.96-98, server.rs l.69, l.77).   *)
LEMMA SendInvariant ==
  ASSUME CoreInv, NEW c \in Clients,
         (\E k \in Costs, len \in Lengths : Send(c, k, len)) \/ SendOther(c),
         UNCHANGED <<http, check, process, account>>
  PROVE  CoreInv'
<1>1. ASSUME NEW k \in Costs, NEW len \in Lengths, Send(c, k, len) PROVE CoreInv'
  <2> DEFINE frame == Frame(len, BuildRequest(Request(c, k)))
  <2>1. /\ frame.len \in Nat /\ (frame.len <= MaxMsgBytes => Acceptable(frame))
        /\ ReadRequest(frame.table).cost = k
    <3>1. frame.len = len /\ frame.table = BuildRequest(Request(c, k))
      BY DEF Frame
    <3>2. Verifies(BuildRequest(Request(c, k)))
          /\ ReadRequest(BuildRequest(Request(c, k))) = Request(c, k)
      BY RequestRoundTrip
    <3>3. Request(c, k).cost = k
      BY DEF Request
    <3>4. len \in Nat /\ (len <= MaxMsgBytes => len \in 1..MaxMsgBytes)
      BY FrameAssumption DEF Lengths
    <3> QED
      BY <3>1, <3>2, <3>3, <3>4 DEF Acceptable
  <2>2. Post(c, frame, k)
    BY <1>1 DEF Send
  <2> HIDE DEF frame
  <2> QED
    BY <2>1, <2>2, PostInvariant
<1>2. ASSUME SendOther(c) PROVE CoreInv'
  <2>1. PICK frame \in {Frame(0, BuildRequest(Request(c, 1))),
                        Frame(MaxMsgBytes, [cost |-> 2])} : Post(c, frame, 1) /\ c \in Foreign
    BY <1>2 DEF SendOther
  <2>2. ~Acceptable(frame) /\ frame.len \in Nat
    <3>1. ~Verifies([cost |-> 2])
      BY DEF Verifies
    <3>2. 0 \notin 1..MaxMsgBytes /\ MaxMsgBytes \in Nat
      BY FrameAssumption
    <3>3. frame.len = 0 \/ (frame.len = MaxMsgBytes /\ frame.table = [cost |-> 2])
      BY <2>1 DEF Frame
    <3> QED
      BY <3>1, <3>2, <3>3 DEF Acceptable
  <2> QED
    BY <2>1, <2>2, PostInvariant
<1> QED
  BY <1>1, <1>2

(* A client that reads an answer takes the oldest one for its oldest       *)
(* request (client.rs l.60-67, client.py l.99-100).                        *)
LEMMA HearInvariant ==
  ASSUME CoreInv, NEW c \in Clients, Hear(c)
  PROVE  CoreInv'
<1>1. Types /\ RoomLeft /\ Connection(c)
  BY InvariantByConnection DEF ByConnection
<1>2. /\ link' = link /\ task' = task /\ up' = up /\ UNCHANGED process
      /\ open' = open /\ cost' = cost /\ reply' = reply /\ exits' = exits
      /\ opened' = opened /\ longest' = longest
      /\ phase' = phase /\ config' = config /\ call' = call
      /\ entry' = entry /\ version' = version /\ granted' = granted
      /\ awaited' = [awaited EXCEPT ![c] = Tail(awaited[c])]
      /\ down' = [down EXCEPT ![c] = Tail(down[c])]
      /\ due' = [due EXCEPT ![c] = Tail(due[c])] /\ down[c] # <<>>
  BY DEF Hear, Receive, http, check, process
<1>3. /\ IsSeq(awaited[c]) /\ IsSeq(up[c]) /\ IsSeq(due[c]) /\ IsSeq(down[c])
      /\ awaited'[c] = Tail(awaited[c]) /\ down'[c] = Tail(down[c]) /\ due'[c] = Tail(due[c])
      /\ (Listening' <=> Listening)
  BY <1>1, <1>2 DEF Connection, Queues, Types, Listening
<1>4. PICK m \in Nat : /\ m + 1 = Len(down[c]) /\ DOMAIN down[c] = 1..(m + 1) /\ IsSeq(down'[c])
                       /\ Len(down'[c]) = m /\ DOMAIN down'[c] = 1..m
                       /\ \A i \in 1..m : down'[c][i] = down[c][i + 1]
  <2>1. IsSeq(down[c]) /\ down[c] # <<>> /\ down'[c] = Tail(down[c])
    BY <1>2, <1>3
  <2> QED
    BY <2>1, ShorterQueue
<1>5. PICK n \in Nat : /\ n + 1 = Len(due[c]) /\ DOMAIN due[c] = 1..(n + 1) /\ IsSeq(due'[c])
                       /\ Len(due'[c]) = n /\ DOMAIN due'[c] = 1..n
                       /\ \A i \in 1..n : due'[c][i] = due[c][i + 1]
  <2>1. Len(due[c]) \in Nat /\ m + 1 <= Len(due[c])
    BY <1>1, <1>3, <1>4, QueueLen DEF Connection, MatchOf
  <2>2. Len(due[c]) # 0
    BY <2>1
  <2>3. due[c] # <<>>
    BY <2>2, EmptyQueue
  <2> QED
    BY <1>3, <2>3, ShorterQueue
<1>6. PICK a \in Nat : /\ a + 1 = Len(awaited[c]) /\ DOMAIN awaited[c] = 1..(a + 1)
                       /\ IsSeq(awaited'[c]) /\ Len(awaited'[c]) = a
                       /\ \A i \in 1..a : awaited'[c][i] = awaited[c][i + 1]
  <2>1. Len(awaited[c]) \in Nat /\ n + 1 <= Len(awaited[c])
    BY <1>1, <1>3, <1>5, QueueLen DEF Connection, MatchOf
  <2>2. Len(awaited[c]) # 0
    BY <2>1
  <2>3. awaited[c] # <<>>
    BY <2>2, EmptyQueue
  <2> QED
    BY <1>3, <2>3, ShorterQueue
<1>7. /\ m + 1 <= n + 1 /\ n + 1 <= a + 1
      /\ \A i \in 1..(m + 1) : ReadResponse(down[c][i]) = due[c][i].shown
      /\ \A i \in 1..(n + 1) : due[c][i].cost = awaited[c][i]
  BY <1>1, <1>4, <1>5, <1>6 DEF Connection, MatchOf
<1>8. m <= n /\ n <= a /\ (\A i \in 1..m : i \in 1..n /\ i + 1 \in 1..(m + 1))
      /\ (\A i \in 1..n : i \in 1..a /\ i + 1 \in 1..(n + 1))
  BY <1>7
<1>9. MatchOf(c)'
  <2>1. \A i \in 1..m : ReadResponse(down'[c][i]) = due'[c][i].shown
    <3> SUFFICES ASSUME NEW i \in 1..m
                 PROVE  ReadResponse(down'[c][i]) = due'[c][i].shown
      OBVIOUS
    <3>1. down'[c][i] = down[c][i + 1] /\ due'[c][i] = due[c][i + 1]
      BY <1>4, <1>5, <1>8
    <3>2. ReadResponse(down[c][i + 1]) = due[c][i + 1].shown
      BY <1>7, <1>8
    <3> QED
      BY <3>1, <3>2
  <2>2. \A i \in 1..n : due'[c][i].cost = awaited'[c][i]
    <3> SUFFICES ASSUME NEW i \in 1..n
                 PROVE  due'[c][i].cost = awaited'[c][i]
      OBVIOUS
    <3>1. due'[c][i] = due[c][i + 1] /\ awaited'[c][i] = awaited[c][i + 1]
      BY <1>5, <1>6, <1>8
    <3>2. due[c][i + 1].cost = awaited[c][i + 1]
      BY <1>7, <1>8
    <3> QED
      BY <3>1, <3>2
  <2>3. DOMAIN down'[c] = 1..m
    BY <1>4
  <2> QED
    BY <1>4, <1>5, <1>6, <1>8, <2>1, <2>2, <2>3 DEF MatchOf
<1>10. OrderOf(c)'
  <2> SUFFICES ASSUME link[c] = "up"
               PROVE  OrderOf(c)'
    BY <1>2 DEF OrderOf
  <2>1. PICK u \in Nat : u = Len(up[c]) /\ DOMAIN up[c] = 1..u
    BY <1>3, QueueLen
  <2>2. PICK p \in {0, 1} : p = Checked(c)
    BY DEF Checked
  <2>3. PICK w \in {0, 1} : w = Unwritten(c)
    BY DEF Unwritten
  <2>4. p = Checked(c)' /\ w = Unwritten(c)'
    BY <1>2, <2>2, <2>3 DEF Checked, Unwritten
  <2>5. /\ n + 1 = (m + 1) + w
        /\ w = 1 => due[c][n + 1].shown = Shown(reply[c])
        /\ a + 1 = (n + 1) + p + u
        /\ open[c] => awaited[c][n + 1 + 1] = cost[c]
        /\ \A i \in 1..u : Acceptable(up[c][i]) =>
             awaited[c][n + 1 + p + i] = ReadRequest(up[c][i].table).cost
    BY <1>1, <1>4, <1>5, <1>6, <2>1, <2>2, <2>3 DEF Connection, OrderOf
  <2>6. /\ n = m + w /\ a = n + p + u /\ (w = 1 => n \in 1..n) /\ (p = 1 => n + 1 \in 1..a)
        /\ \A i \in 1..u : n + p + i \in 1..a /\ (n + p + i) + 1 = n + 1 + p + i
    BY <2>5
  <2>7. open[c] => p = 1
    BY <2>2 DEF Checked
  <2>8. /\ Len(due'[c]) = Len(down'[c]) + Unwritten(c)'
        /\ Unwritten(c)' = 1 => due'[c][Len(due'[c])].shown = Shown(reply'[c])
    BY <1>2, <1>4, <1>5, <2>4, <2>5, <2>6
  <2>9. Len(awaited'[c]) = Len(due'[c]) + Checked(c)' + Len(up'[c])
    BY <1>2, <1>5, <1>6, <2>1, <2>4, <2>6
  <2>10. open'[c] => awaited'[c][Len(due'[c]) + 1] = cost'[c]
    BY <1>2, <1>5, <1>6, <2>5, <2>6, <2>7
  <2>11. \A i \in 1..u : Acceptable(up[c][i]) =>
           awaited'[c][n + p + i] = ReadRequest(up[c][i].table).cost
    BY <1>6, <2>5, <2>6
  <2>12. \A i \in DOMAIN up'[c] : Acceptable(up'[c][i]) =>
           awaited'[c][Len(due'[c]) + Checked(c)' + i] = ReadRequest(up'[c][i].table).cost
    BY <1>2, <1>5, <2>1, <2>4, <2>11
  <2> QED
    BY <2>8, <2>9, <2>10, <2>12 DEF OrderOf
<1>11. link[c] \notin {"none", "half"}
  BY <1>1, <1>2 DEF Connection, ClosedEnd
<1>12. Queues(c)' /\ TaskInOrder(c)' /\ ClosedEnd(c)' /\ FramesOf(c)' /\ CutOf(c)'
  BY <1>1, <1>2, <1>3, <1>4, <1>5, <1>6, <1>11
     DEF Connection, Queues, TaskInOrder, ClosedEnd, FramesOf, CutOf, Acceptable
<1>13. Types' /\ RoomLeft'
  BY <1>1, <1>2 DEF Types, RoomLeft
<1>14. \A d \in Clients \ {c} : awaited'[d] = awaited[d] /\ down'[d] = down[d] /\ due'[d] = due[d]
  BY <1>1, <1>2 DEF Types
<1> QED
  BY <1>2, <1>9, <1>10, <1>12, <1>13, <1>14, OneConnection DEF Connection

(* A client that gives up, at an error or at its end, waits for nothing    *)
(* any more, and what was decided for it is owed to nobody (client.rs      *)
(* l.32-81, client.py l.79-109).                                           *)
LEMMA GiveUpInvariant ==
  ASSUME CoreInv, NEW c \in Clients, Lose(c) \/ Leave(c)
  PROVE  CoreInv'
<1>1. Types /\ RoomLeft /\ Connection(c)
  BY InvariantByConnection DEF ByConnection
<1>2. /\ task' = task /\ up' = up /\ UNCHANGED process
      /\ open' = open /\ cost' = cost /\ reply' = reply /\ exits' = exits
      /\ opened' = opened /\ longest' = longest
      /\ phase' = phase /\ config' = config /\ call' = call
      /\ entry' = entry /\ version' = version /\ granted' = granted
      /\ awaited' = [awaited EXCEPT ![c] = <<>>] /\ due' = [due EXCEPT ![c] = <<>>]
      /\ down' = [down EXCEPT ![c] = <<>>] \/ (down' = down /\ down[c] = <<>>)
      /\ \E l \in {"none", "half", "cut"} : link' = [link EXCEPT ![c] = l]
      /\ link[c] = "cut" => link'[c] \in {"none", "cut"}
      /\ link[c] = "up" => link'[c] = "half"
      /\ link[c] \in {"up", "cut"}
  BY <1>1 DEF Lose, Fail, Leave, Quit, http, check, process, Types
<1>3. /\ awaited'[c] = <<>> /\ down'[c] = <<>> /\ due'[c] = <<>> /\ (Listening' <=> Listening)
      /\ link'[c] \in {"none", "half", "cut"}
  BY <1>1, <1>2 DEF Types, Listening
<1>4. TaskInOrder(c)' /\ ClosedEnd(c)' /\ FramesOf(c)' /\ CutOf(c)' /\ OrderOf(c)'
  BY <1>1, <1>2, <1>3
     DEF Connection, TaskInOrder, ClosedEnd, FramesOf, CutOf, OrderOf, Acceptable
<1>5. Queues(c)' /\ MatchOf(c)'
  BY <1>1, <1>2, <1>3, EmptyQueue DEF Connection, Queues, MatchOf
<1>6. Types' /\ RoomLeft'
  BY <1>1, <1>2 DEF Types, RoomLeft
<1>7. \A d \in Clients \ {c} : /\ link'[d] = link[d] /\ awaited'[d] = awaited[d]
                               /\ down'[d] = down[d] /\ due'[d] = due[d]
  BY <1>1, <1>2 DEF Types
<1> QED
  BY <1>2, <1>4, <1>5, <1>6, <1>7, OneConnection DEF Connection

(* Whatever a client does keeps the invariant (client.rs l.32-81,          *)
(* client.py l.79-109).                                                    *)
LEMMA ClientInvariant ==
  ASSUME CoreInv, NEW c \in Clients, Client(c)
  PROVE  CoreInv'
BY ConnectInvariant, SendInvariant, HearInvariant, GiveUpInvariant DEF Client

-----------------------------------------------------------------------------
(* HTTP callers and the process.                                           *)

(* A handler begins a check, or ends with its decision or without          *)
(* (http_server.rs l.123-190): connections are not concerned.              *)
LEMMA HttpInvariant ==
  ASSUME CoreInv, NEW h \in Callers, HttpAsk(h) \/ HttpAnswer(h) \/ HttpDrop(h)
  PROVE  CoreInv'
<1>1. Types /\ RoomLeft
  BY InvariantByConnection DEF ByConnection
<1>2. h \in Tasks /\ \A d \in Clients : d # h /\ d \in Tasks
  BY ServiceAssumption DEF Tasks
<1>3. /\ link' = link /\ task' = task /\ up' = up /\ down' = down /\ awaited' = awaited
      /\ due' = due /\ UNCHANGED process /\ entry' = entry /\ version' = version
      /\ granted' = granted /\ exits' = exits /\ phase' = phase /\ config' = config
      /\ opened' = opened /\ longest' = longest
  BY DEF HttpAsk, HttpAnswer, HttpDrop, Limiter!Ask, wire, peers, process, account, check
<1>4. CASE HttpAsk(h)
  <2>1. PICK k \in Costs : Limiter!Ask(h, k)
    BY <1>4 DEF HttpAsk
  <2>2. /\ open' = [open EXCEPT ![h] = TRUE] /\ cost' = [cost EXCEPT ![h] = k]
        /\ reply' = [reply EXCEPT ![h] = NoReply] /\ call' = [call EXCEPT ![h] = "checking"]
    BY <1>4, <2>1 DEF HttpAsk, Arrive, Limiter!Ask, Limiter!NoReply, NoReply, Limiter!Reply, Reply
  <2>3. NoReply \in Replies
    BY DEF NoReply, Reply, Replies, Verdicts
  <2>4. /\ call' \in [Callers -> {"none", "checking"}] /\ open' \in [Tasks -> BOOLEAN]
        /\ reply' \in [Tasks -> Replies] /\ DOMAIN cost' = Tasks
    BY <1>1, <2>2, <2>3 DEF Types
  <2>5. \A t \in Tasks : open'[t] => cost'[t] \in Costs
    BY <1>1, <2>2 DEF Types
  <2>6. \A g \in Callers : open'[g] => call'[g] = "checking"
    BY <1>1, <2>2 DEF Types, Tasks
  <2>7. Types' /\ RoomLeft'
    BY <1>1, <1>3, <2>4, <2>5, <2>6 DEF Types, RoomLeft
  <2>8. \A d \in Clients : (open'[d] <=> open[d]) /\ cost'[d] = cost[d] /\ reply'[d] = reply[d]
    BY <1>1, <1>2, <2>2 DEF Types
  <2> QED
    BY <1>2, <1>3, <2>7, <2>8, OneConnection
<1>5. CASE HttpAnswer(h)
  <2>1. /\ open' = open /\ cost' = cost /\ reply' = reply /\ ~open[h]
        /\ call' = [call EXCEPT ![h] = "none"]
    BY <1>5 DEF HttpAnswer, Respond, check
  <2>2. \A g \in Callers : open'[g] => call'[g] = "checking"
    BY <1>1, <2>1 DEF Types
  <2>3. Types' /\ RoomLeft'
    BY <1>1, <1>3, <2>1, <2>2 DEF Types, RoomLeft
  <2> QED
    BY <1>2, <1>3, <2>1, <2>3, OneConnection
<1>6. CASE HttpDrop(h)
  <2>1. /\ open' = [open EXCEPT ![h] = FALSE] /\ cost' = cost /\ reply' = reply
        /\ call' = [call EXCEPT ![h] = "none"]
    BY <1>6 DEF HttpDrop, Disconnect
  <2>2. /\ \A g \in Callers : open'[g] => call'[g] = "checking"
        /\ \A t \in Tasks : open'[t] => cost'[t] \in Costs
    BY <1>1, <2>1 DEF Types, Tasks
  <2>3. Types' /\ RoomLeft'
    BY <1>1, <1>3, <2>1, <2>2 DEF Types, RoomLeft
  <2>4. \A d \in Clients : open'[d] <=> open[d]
    BY <1>1, <1>2, <2>1 DEF Types
  <2> QED
    BY <1>2, <1>3, <2>1, <2>3, <2>4, OneConnection
<1> QED
  BY <1>4, <1>5, <1>6

(* A start goes one step further (main.rs l.40-122).                       *)
LEMMA StartInvariant ==
  ASSUME CoreInv, Start
  PROVE  CoreInv'
<1>1. Types /\ RoomLeft /\ \A c \in Clients : Connection(c)
  BY InvariantByConnection DEF ByConnection
<1>2. /\ link' = link /\ task' = task /\ up' = up /\ down' = down /\ awaited' = awaited
      /\ due' = due /\ entry' = entry /\ version' = version /\ granted' = granted
      /\ open' = open /\ cost' = cost /\ reply' = reply /\ call' = call
      /\ exits' = exits /\ config' = config /\ (Listening => Listening')
      /\ opened' = opened /\ longest' = longest
      /\ phase' \in {"built", "bound", "serving"}
  BY DEF Start, Advance, wire, peers, http, check, account, Listening
<1>3. Types' /\ RoomLeft'
  BY <1>1, <1>2 DEF Types, RoomLeft
<1>4. exits \in Nat
  BY <1>1, ServiceAssumption DEF Types
<1>5. \A c \in Clients : Connection(c)'
  BY <1>1, <1>2, <1>4, ConnectionKept
<1>6. ByConnection'
  BY <1>3, <1>5 DEF ByConnection
<1> QED
  BY <1>6, InvariantByConnection, PTL

(* An exit cuts every connection and drops every check; the quota is       *)
(* granted anew only if the state went with the process (main.rs l.46-59,  *)
(* l.120-123).                                                             *)
LEMMA ExitInvariant ==
  ASSUME CoreInv, Exit
  PROVE  CoreInv'
<1>1. Types /\ RoomLeft /\ \A c \in Clients : Connection(c)
  BY InvariantByConnection DEF ByConnection
<1>2. /\ awaited' = awaited /\ due' = due /\ granted' = granted /\ cost' = cost /\ reply' = reply
      /\ task' = [c \in Clients |-> "none"] /\ up' = [c \in Clients |-> <<>>]
      /\ link' = [c \in Clients |-> CASE link[c] = "up" -> "cut" [] link[c] = "half" -> "none"
                                      [] OTHER -> link[c]]
      /\ down' = down \/ down' = [c \in Clients |-> <<>>]
      /\ call' = [h \in Callers |-> "none"] /\ open' = [t \in Tasks |-> FALSE]
      /\ IF ~config.etcd THEN entry' = Nothing /\ version' = 0 ELSE entry' = entry /\ version' = version
      /\ phase' = "down" /\ config' = config /\ exits' = exits + 1 /\ exits < MaxExits
      /\ opened' = opened /\ longest' = longest
  BY DEF Exit, End, Forgets, peers, account
<1>3. exits \in Nat /\ exits' \in 0..MaxExits /\ exits' > 0
  BY <1>1, <1>2, ServiceAssumption DEF Types
<1>4. Types'
  <2>1. /\ link' \in [Clients -> {"none", "up", "half", "cut"}]
        /\ task' \in [Clients -> {"none", "reading", "checking"}]
        /\ call' \in [Callers -> {"none", "checking"}] /\ open' \in [Tasks -> BOOLEAN]
    BY <1>1, <1>2 DEF Types
  <2>2. \A t \in Tasks : ~open'[t]
    BY <1>2
  <2>3. version' \in Nat /\ (version' > 0 => entry' \in StoredStates)
    BY <1>1, <1>2 DEF Types
  <2>4. DOMAIN up' = Clients /\ DOMAIN down' = Clients
    BY <1>1, <1>2 DEF Types
  <2> QED
    BY <1>1, <1>2, <1>3, <2>1, <2>2, <2>3, <2>4 DEF Types, Tasks
<1>5. RoomLeft'
  <2>1. Room(NewState(0)) \in Nat /\ Room(NewState(0)) <= Quota /\ Quota \in Nat /\ granted \in Nat
    BY <1>1, AlgorithmAssumption, ServiceAssumption DEF Types
  <2>2. CASE config.etcd
    BY <1>1, <1>2, <2>2 DEF RoomLeft
  <2>3. CASE ~config.etcd
    <3>1. granted + Room(State) <= Quota * (1 + exits)
      BY <1>1, <2>3 DEF RoomLeft, State
    <3>2. Room(State) \in Nat
      BY <1>1, AlgorithmAssumption DEF Types, State
    <3>3. PICK q \in Nat : q = Quota * (1 + exits)
      BY <1>3, <2>1
    <3>4. Quota * (1 + (exits + 1)) = q + Quota
      BY <1>3, <2>1, <3>3
    <3>5. granted + Room(NewState(0)) <= q + Quota
      <4>1. granted <= q
        BY <2>1, <3>1, <3>2, <3>3
      <4> QED
        BY <2>1, <4>1
    <3>6. RoomLeft' <=> granted + Room(NewState(0)) <= Quota * (1 + (exits + 1))
      BY <1>2, <2>3 DEF RoomLeft
    <3> QED
      BY <3>4, <3>5, <3>6
  <2> QED
    BY <2>2, <2>3
<1>6. ASSUME NEW c \in Clients PROVE Connection(c)'
  <2>1. Connection(c)
    BY <1>1
  <2>2. /\ task'[c] = "none" /\ up'[c] = <<>> /\ ~open'[c] /\ (down'[c] = down[c] \/ down'[c] = <<>>)
        /\ link[c] \in {"none", "up", "half", "cut"}
        /\ link[c] \in {"none", "half"} => link'[c] = "none"
        /\ link[c] \in {"up", "cut"} => link'[c] = "cut"
    BY <1>1, <1>2 DEF Types, Tasks
  <2>3. Queues(c)' /\ TaskInOrder(c)' /\ FramesOf(c)'
    BY <1>2, <2>1, <2>2, EmptyQueue DEF Connection, Queues, TaskInOrder, FramesOf
  <2>4. ClosedEnd(c)' /\ CutOf(c)' /\ OrderOf(c)'
    BY <1>2, <1>3, <2>1, <2>2 DEF Connection, ClosedEnd, CutOf, OrderOf
  <2>5. MatchOf(c)'
    <3>1. Len(due[c]) \in Nat
      BY <2>1, QueueLen DEF Connection, Queues
    <3>2. CASE down'[c] = down[c]
      BY <1>2, <2>1, <3>2 DEF Connection, MatchOf
    <3>3. CASE down'[c] = <<>>
      BY <1>2, <2>1, <3>1, <3>3, EmptyQueue DEF Connection, MatchOf
    <3> QED
      BY <2>2, <3>2, <3>3
  <2> QED
    BY <2>3, <2>4, <2>5 DEF Connection
<1>7. ByConnection'
  BY <1>4, <1>5, <1>6 DEF ByConnection
<1> QED
  BY <1>7, InvariantByConnection, PTL

-----------------------------------------------------------------------------
(* The invariant and what follows from it.                                 *)

(* The process is not started and nobody is connected (main.rs l.27).      *)
LEMMA CoreInit == Init => CoreInv
<1> SUFFICES ASSUME Init PROVE ByConnection
  BY InvariantByConnection
<1>1. /\ link = [c \in Clients |-> "none"] /\ task = [c \in Clients |-> "none"]
      /\ up = [c \in Clients |-> <<>>] /\ down = [c \in Clients |-> <<>>]
      /\ awaited = [c \in Clients |-> <<>>] /\ due = [c \in Clients |-> <<>>]
      /\ opened = [c \in Clients |-> 0] /\ longest = [c \in Clients |-> 0]
      /\ call = [h \in Callers |-> "none"] /\ phase = "down" /\ exits = 0 /\ granted = 0
      /\ entry = Nothing /\ version = 0 /\ open = [t \in Tasks |-> FALSE]
      /\ cost = [t \in Tasks |-> 0] /\ reply = [t \in Tasks |-> NoReply]
  BY DEF Init, WireInit, PeersInit, HttpInit, ProcessInit, Limiter!Init, Limiter!NoReply, NoReply,
         Limiter!Reply, Reply
<1>2. NoReply \in Replies
  BY DEF NoReply, Reply, Replies, Verdicts
<1>3. Types
  BY <1>1, <1>2, ServiceAssumption DEF Types, Tasks
<1>4. RoomLeft
  <2>1. Room(NewState(0)) \in Nat /\ Room(NewState(0)) <= Quota /\ Quota \in Nat
    BY AlgorithmAssumption, ServiceAssumption
  <2>2. 0 + Room(NewState(0)) <= Quota * (1 + 0)
    BY <2>1
  <2>3. (IF config.etcd THEN 0 ELSE exits) = 0
    BY <1>1
  <2> QED
    BY <1>1, <2>2, <2>3 DEF RoomLeft
<1>5. ASSUME NEW c \in Clients PROVE Connection(c)
  <2>1. /\ up[c] = <<>> /\ down[c] = <<>> /\ awaited[c] = <<>> /\ due[c] = <<>>
        /\ link[c] = "none" /\ task[c] = "none" /\ ~open[c]
        /\ opened[c] \in 0..exits /\ longest[c] \in Nat
    BY <1>1 DEF Tasks
  <2>2. Queues(c) /\ TaskInOrder(c) /\ ClosedEnd(c) /\ FramesOf(c) /\ OrderOf(c) /\ MatchOf(c) /\ CutOf(c)
    BY <2>1, EmptyQueue DEF Queues, TaskInOrder, ClosedEnd, FramesOf, OrderOf, MatchOf, CutOf
  <2> QED
    BY <2>2 DEF Connection
<1> QED
  BY <1>3, <1>4, <1>5 DEF ByConnection

(* Every step of the service keeps the invariant (main.rs l.27-123).       *)
LEMMA CoreNext == CoreInv /\ [Next]_vars => CoreInv'
<1> SUFFICES ASSUME CoreInv, [Next]_vars PROVE CoreInv'
  OBVIOUS
<1>1. CASE UNCHANGED vars
  <2>1. Types /\ RoomLeft /\ \A c \in Clients : Connection(c)
    BY InvariantByConnection DEF ByConnection
  <2>2. /\ link' = link /\ task' = task /\ up' = up /\ down' = down /\ awaited' = awaited
        /\ due' = due /\ entry' = entry /\ version' = version /\ granted' = granted
        /\ open' = open /\ cost' = cost /\ reply' = reply /\ call' = call
        /\ exits' = exits /\ config' = config /\ phase' = phase
        /\ opened' = opened /\ longest' = longest
    BY <1>1 DEF vars, wire, peers, http, check, process, account
  <2>3. UNCHANGED process
    BY <2>2 DEF process
  <2>4. Types' /\ RoomLeft'
    BY <2>1, <2>2 DEF Types, RoomLeft
  <2>5. exits \in Nat /\ (Listening => Listening')
    BY <2>1, <2>2, ServiceAssumption DEF Types, Listening
  <2>6. \A c \in Clients : Connection(c)'
    BY <2>1, <2>2, <2>5, ConnectionKept
  <2>7. ByConnection'
    BY <2>4, <2>6 DEF ByConnection
  <2> QED
    BY <2>7, InvariantByConnection, PTL
<1>2. CASE Next
  BY <1>2, CheckInvariant, HandleInvariant, ClientInvariant, HttpInvariant, StartInvariant,
     ExitInvariant DEF Next
<1> QED
  BY <1>1, <1>2

(* The core of the invariant holds of every state (main.rs l.27-123).      *)
LEMMA Core == Spec => []CoreInv
<1> QED
  BY CoreInit, CoreNext, PTL DEF Spec

(* Answers match (server.rs l.59-96): whoever reads an answer for a        *)
(* request reads the decision on that request, charged at its cost.        *)
THEOREM AnswersMatched == Spec => []AnswersMatch
<1>1. CoreInv => AnswersMatch
  BY DEF CoreInv
<1> QED
  BY <1>1, Core, PTL

(* A client of this repository is cut off by the end of the server it      *)
(* connected to, or after a frame above MAX_MSG_BYTES on that connection   *)
(* (server.rs l.69-72, client.py l.96-98): nothing else it sends is        *)
(* refused (l.69, l.77).                                                   *)
THEOREM CutWithCause == Spec => []CutForCause
<1>1. CoreInv => CutForCause
  BY DEF CoreInv
<1> QED
  BY <1>1, Core, PTL

(* The limit outlives the process if its store does (main.rs l.46-59).     *)
THEOREM QuotaOutlives == Spec => []QuotaPerState
<1>1. CoreInv => QuotaPerState
  <2> SUFFICES ASSUME CoreInv PROVE QuotaPerState
    OBVIOUS
  <2>1. Types /\ RoomLeft
    BY DEF CoreInv, TypeOK, Types
  <2>2. State \in StoredStates
    BY <2>1, AlgorithmAssumption DEF Types, State
  <2>3. Room(State) \in Nat /\ granted \in Nat
    BY <2>1, <2>2, AlgorithmAssumption DEF Types
  <2>4. exits \in Nat /\ Quota \in Nat
    BY <2>1, ServiceAssumption DEF Types
  <2>5. PICK bound \in Int : bound = Quota * (1 + (IF config.etcd THEN 0 ELSE exits))
    BY <2>4
  <2>6. granted + Room(State) <= bound
    BY <2>1, <2>5 DEF RoomLeft, State
  <2>7. granted <= bound
    BY <2>3, <2>6
  <2> QED
    BY <2>5, <2>7 DEF QuotaPerState
<1> QED
  BY <1>1, Core, PTL

-----------------------------------------------------------------------------
(* Payments: what goes ahead was let in.                                   *)

(* A check that answers "allowed" has let its cost in for its task         *)
(* (limiter.rs l.29-31); what others were let in for stays.                *)
LEMMA CheckPays ==
  ASSUME CoreInv, paid \in [Tasks -> Nat], NEW t \in Tasks, Check(t)
  PROVE  \E p \in Nat :
           /\ paid' = [paid EXCEPT ![t] = paid[t] + p] /\ spent' = spent /\ cost[t] \in Nat
           /\ ~open'[t] /\ reply'[t].verdict = "allowed" => p = cost[t]
<1>1. /\ open[t] /\ cost[t] \in Costs /\ cost[t] \in Nat /\ LetIn(t) \in Nat
      /\ open \in [Tasks -> BOOLEAN] /\ reply \in [Tasks -> Replies]
  <2>1. open[t]
    BY DEF Check, Limiter!Decide, Limiter!DecideUnseen, Limiter!DecideUnseenAndRefuse,
           Limiter!Refuse, Limiter!Charge
  <2>2. cost[t] \in Costs /\ open \in [Tasks -> BOOLEAN] /\ reply \in [Tasks -> Replies]
    BY <2>1 DEF CoreInv, TypeOK
  <2> QED
    BY <2>1, <2>2, PeerAssumption DEF LetIn
<1>2. ASSUME Book(t)
      PROVE  paid' = [paid EXCEPT ![t] = paid[t] + LetIn(t)] /\ spent' = spent
  BY <1>2 DEF Book
<1>3. CASE Limiter!Decide(t, 0) /\ Book(t)
  <2>1. reply'[t].verdict = "allowed" => Limiter!Judgement(t, 0).allowed
    <3>1. reply'[t] = Answer(Limiter!Judgement(t, 0), version + 1)
      BY <1>1, <1>3, SameAnswers DEF Limiter!Decide
    <3> QED
      BY <3>1 DEF Answer, Reply
  <2>2. reply'[t].verdict = "allowed" => LetIn(t) = cost[t]
    BY <2>1 DEF LetIn
  <2> QED
    BY <1>1, <1>2, <1>3, <2>2
<1>4. CASE Limiter!DecideUnseen(t, 0) /\ Book(t)
  <2>1. open'[t]
    BY <1>1, <1>4 DEF Limiter!DecideUnseen
  <2> QED
    BY <1>1, <1>2, <1>4, <2>1
<1>5. CASE Limiter!DecideUnseenAndRefuse(t, 0) /\ Book(t)
  <2>1. reply'[t].verdict = "contended"
    <3>1. reply'[t] = Contended(version + 1)
      BY <1>1, <1>5, SameAnswers DEF Limiter!DecideUnseenAndRefuse
    <3> QED
      BY <3>1 DEF Contended, Reply
  <2> QED
    BY <1>1, <1>2, <1>5, <2>1
<1>6. CASE Limiter!Refuse(t) /\ UNCHANGED <<granted, paid, spent>>
  <2>1. reply'[t].verdict = "contended"
    <3>1. reply'[t] = Contended(version)
      BY <1>1, <1>6, SameAnswers DEF Limiter!Refuse
    <3> QED
      BY <3>1 DEF Contended, Reply
  <2>2. paid' = [paid EXCEPT ![t] = paid[t] + 0]
    BY <1>6
  <2> QED
    BY <1>1, <1>6, <2>1, <2>2
<1> QED
  BY <1>3, <1>4, <1>5, <1>6 DEF Check

(* A decision that joins those owed to a client is paid for by what the    *)
(* step lets in; the others were before (server.rs l.83).                  *)
LEMMA OwedIsPaid ==
  ASSUME NEW c \in Clients, IsSeq(due[c]), DecisionsPaid(c), NEW p \in Nat,
         spent[c] \in Nat, paid[c] \in Nat, cost[c] \in Nat, spent[c] <= paid[c],
         spent'[c] = spent[c], paid'[c] = paid[c] + p,
         reply'[c].verdict = "allowed" => p = cost[c],
         due'[c] = Append(due[c], Owed(c))
  PROVE  DecisionsPaid(c)'
<1> DEFINE e == Owed(c)
<1>1. PICK n \in Nat : n = Len(due[c]) /\ DOMAIN due[c] = 1..n
  BY QueueLen
<1>2. /\ DOMAIN due'[c] = 1..(n + 1) /\ due'[c][n + 1] = e
      /\ \A i \in 1..n : due'[c][i] = due[c][i]
  BY <1>1, QueueAppend
<1>3. e.paid = paid[c] + p /\ Charge(e) \in Nat /\ Charge(e) <= p
  <2>1. e.paid = paid[c] + p /\ e.cost = cost[c]
        /\ (e.shown.allowed <=> reply'[c].verdict = "allowed")
    BY DEF Owed, Shown
  <2> QED
    BY <2>1 DEF Charge
<1> HIDE DEF e
<1>4. \A i \in 1..n : /\ Charge(due[c][i]) \in Nat
                      /\ due[c][i].paid \in Nat /\ due[c][i].paid <= paid[c]
                      /\ SpentBefore(c, i) + Charge(due[c][i]) <= due[c][i].paid
  BY <1>1 DEF DecisionsPaid
<1>5. \A i \in 1..n : SpentBefore(c, i)' = SpentBefore(c, i)
  <2>1. \A i \in 1..n : i = 1 \/ i - 1 \in 1..n
    OBVIOUS
  <2> QED
    BY <1>2, <2>1 DEF SpentBefore
<1>6. SpentBefore(c, n + 1)' \in Nat /\ SpentBefore(c, n + 1)' <= paid[c]
  <2>1. CASE n = 0
    BY <2>1 DEF SpentBefore
  <2>2. CASE n # 0
    <3>1. n + 1 # 1 /\ (n + 1) - 1 = n /\ n \in 1..n
      BY <2>2
    <3>2. SpentBefore(c, n + 1)' = due[c][n].paid
      BY <1>2, <3>1 DEF SpentBefore
    <3> QED
      BY <1>4, <3>1, <3>2
  <2> QED
    BY <2>1, <2>2
<1>7. ASSUME NEW i \in 1..n
      PROVE  /\ Charge(due'[c][i]) \in Nat
             /\ due'[c][i].paid \in Nat /\ due'[c][i].paid <= paid'[c]
             /\ SpentBefore(c, i)' + Charge(due'[c][i]) <= due'[c][i].paid
  <2>1. due[c][i].paid <= paid[c] + p
    <3>1. PICK d \in Nat : d = due[c][i].paid
      BY <1>4
    <3> QED
      BY <1>4, <3>1
  <2> QED
    BY <1>2, <1>4, <1>5, <2>1
<1>8. /\ Charge(due'[c][n + 1]) \in Nat
      /\ due'[c][n + 1].paid \in Nat /\ due'[c][n + 1].paid <= paid'[c]
      /\ SpentBefore(c, n + 1)' + Charge(due'[c][n + 1]) <= due'[c][n + 1].paid
  <2>1. PICK b \in Nat : b = SpentBefore(c, n + 1)'
    BY <1>6
  <2>2. PICK f \in Nat : f = Charge(e)
    BY <1>3
  <2>3. b + f <= paid[c] + p /\ paid[c] + p \in Nat /\ paid[c] + p <= paid[c] + p
    BY <1>3, <1>6, <2>1, <2>2
  <2> QED
    BY <1>2, <1>3, <2>1, <2>2, <2>3
<1>9. \A i \in 1..(n + 1) : i \in 1..n \/ i = n + 1
  OBVIOUS
<1>10. \A i \in 1..(n + 1) :
         /\ Charge(due'[c][i]) \in Nat
         /\ due'[c][i].paid \in Nat /\ due'[c][i].paid <= paid'[c]
         /\ SpentBefore(c, i)' + Charge(due'[c][i]) <= due'[c][i].paid
  BY <1>7, <1>8, <1>9
<1> QED
  BY <1>2, <1>10 DEF DecisionsPaid

(* A step of a check keeps the accounts (limiter.rs l.20-32).              *)
LEMMA CheckPaid ==
  ASSUME CoreInv, PaidInOrder, NEW t \in Tasks, Check(t)
  PROVE  PaidInOrder'
<1>1. /\ paid \in [Tasks -> Nat] /\ spent \in [Tasks -> Nat]
      /\ \A u \in Tasks : spent[u] <= paid[u]
      /\ \A c \in Clients : DecisionsPaid(c)
      /\ \A h \in Callers : AnswerPaid(h)
  BY DEF PaidInOrder, AdmissionsPaid
<1>2. PICK p \in Nat :
        /\ paid' = [paid EXCEPT ![t] = paid[t] + p] /\ spent' = spent /\ cost[t] \in Nat
        /\ ~open'[t] /\ reply'[t].verdict = "allowed" => p = cost[t]
  BY <1>1, CheckPays
<1>3. Types /\ RoomLeft /\ \A c \in Clients : IsSeq(due[c])
  BY DEF CoreInv, TypeOK, Types
<1>4. /\ open[t] /\ Owe(t) /\ call' = call /\ cost' = cost
      /\ \A u \in Tasks \ {t} : (open'[u] <=> open[u]) /\ reply'[u] = reply[u]
  BY <1>3, CheckEffect DEF http
<1>5. /\ paid' \in [Tasks -> Nat] /\ spent' \in [Tasks -> Nat]
      /\ paid'[t] = paid[t] + p /\ \A u \in Tasks \ {t} : paid'[u] = paid[u]
  <2>1. paid[t] + p \in Nat
    BY <1>1
  <2> QED
    BY <1>1, <1>2, <2>1
<1>6. AdmissionsPaid'
  <2>1. spent[t] <= paid[t] + p
    BY <1>1
  <2> QED
    BY <1>1, <1>2, <1>5, <2>1 DEF AdmissionsPaid
<1>7. ASSUME NEW c \in Clients PROVE DecisionsPaid(c)'
  <2>1. c \in Tasks
    BY DEF Tasks
  <2>2. CASE due'[c] = due[c]
    <3>1. paid'[c] \in Nat /\ paid[c] \in Nat /\ paid[c] <= paid'[c]
      <4>1. paid[t] <= paid[t] + p
        BY <1>1
      <4> QED
        BY <1>1, <1>5, <2>1, <4>1
    <3>2. \A i \in DOMAIN due[c] : SpentBefore(c, i)' = SpentBefore(c, i)
      BY <1>2, <2>2 DEF SpentBefore
    <3> QED
      BY <1>1, <2>2, <3>1, <3>2 DEF DecisionsPaid
  <2>3. CASE due'[c] # due[c]
    <3>1. c = t /\ ~open'[t] /\ due'[c] = Append(due[c], Owed(c))
      BY <1>3, <1>4, <2>3 DEF Owe, Types
    <3>2. IsSeq(due[c]) /\ DecisionsPaid(c) /\ spent[c] \in Nat /\ paid[c] \in Nat /\ cost[c] \in Nat
          /\ spent[c] <= paid[c] /\ spent'[c] = spent[c] /\ paid'[c] = paid[c] + p
          /\ (reply'[c].verdict = "allowed" => p = cost[c])
      BY <1>1, <1>2, <1>3, <1>5, <2>1, <3>1
    <3> QED
      BY <3>1, <3>2, OwedIsPaid
  <2> QED
    BY <2>2, <2>3
<1>8. ASSUME NEW h \in Callers PROVE AnswerPaid(h)'
  <2>1. h \in Tasks
    BY DEF Tasks
  <2>2. CASE h # t
    BY <1>1, <1>2, <1>4, <1>5, <2>1, <2>2 DEF AnswerPaid
  <2>3. CASE h = t
    <3>1. ~open'[h] /\ reply'[h].verdict = "allowed" => spent[t] + cost[t] <= paid[t] + p
      BY <1>1, <1>2, <2>3
    <3> QED
      BY <1>2, <1>4, <1>5, <2>3, <3>1 DEF AnswerPaid
  <2> QED
    BY <2>2, <2>3
<1> QED
  BY <1>5, <1>6, <1>7, <1>8 DEF PaidInOrder

(* A step that decides nothing and tells nobody keeps the accounts, if no  *)
(* handler is given a decision by it (http_server.rs l.123-127).           *)
LEMMA PaidKept ==
  ASSUME PaidInOrder, paid' = paid, spent' = spent,
         \A c \in Clients : due'[c] = due[c] \/ due'[c] = <<>>,
         \A h \in Callers : call'[h] = "checking" /\ ~open'[h] =>
           call[h] = "checking" /\ ~open[h] /\ reply'[h] = reply[h] /\ cost'[h] = cost[h]
  PROVE  PaidInOrder'
<1>1. paid' \in [Tasks -> Nat] /\ spent' \in [Tasks -> Nat] /\ AdmissionsPaid'
  BY DEF PaidInOrder, AdmissionsPaid
<1>2. ASSUME NEW c \in Clients PROVE DecisionsPaid(c)'
  <2>1. CASE due'[c] = due[c]
    BY <2>1 DEF PaidInOrder, DecisionsPaid, SpentBefore
  <2>2. CASE due'[c] = <<>>
    BY <2>2, EmptyQueue DEF DecisionsPaid
  <2> QED
    BY <2>1, <2>2
<1>3. \A h \in Callers : AnswerPaid(h)'
  BY DEF PaidInOrder, AnswerPaid
<1> QED
  BY <1>1, <1>2, <1>3 DEF PaidInOrder
(* A client that is told to go ahead spends what its oldest decision let   *)
(* in (middleware.py l.47-60, client.rs l.60-67).                          *)
LEMMA HearPaid ==
  ASSUME CoreInv, PaidInOrder, NEW c \in Clients, Hear(c)
  PROVE  PaidInOrder'
<1>1. /\ paid \in [Tasks -> Nat] /\ spent \in [Tasks -> Nat] /\ c \in Tasks
      /\ \A u \in Tasks : spent[u] <= paid[u]
      /\ \A d \in Clients : DecisionsPaid(d)
      /\ \A h \in Callers : AnswerPaid(h) /\ h \in Tasks /\ h # c
  BY ServiceAssumption DEF PaidInOrder, AdmissionsPaid, Tasks
<1>2. Types /\ Connection(c)
  BY InvariantByConnection DEF ByConnection
<1>3. /\ paid' = paid /\ open' = open /\ reply' = reply /\ call' = call /\ cost' = cost
      /\ due' = [due EXCEPT ![c] = Tail(due[c])] /\ down[c] # <<>>
      /\ spent' = [spent EXCEPT ![c] = spent[c] + (IF Told(c).allowed THEN Head(awaited[c]) ELSE 0)]
  BY DEF Hear, Receive, http, check
<1>4. IsSeq(awaited[c]) /\ IsSeq(due[c]) /\ IsSeq(down[c])
  BY <1>2 DEF Connection, Queues
<1>5. PICK m \in Nat : m + 1 = Len(down[c]) /\ DOMAIN down[c] = 1..(m + 1) /\ Head(down[c]) = down[c][1]
  BY <1>3, <1>4, ShorterQueue
<1>6. Len(down[c]) <= Len(due[c]) /\ Len(due[c]) <= Len(awaited[c])
  BY <1>2 DEF Connection, MatchOf
<1>7. PICK n \in Nat : /\ n + 1 = Len(due[c]) /\ DOMAIN due[c] = 1..(n + 1) /\ DOMAIN due'[c] = 1..n
                       /\ \A i \in 1..n : due'[c][i] = due[c][i + 1]
  <2>1. Len(due[c]) # 0
    BY <1>4, <1>5, <1>6, QueueLen
  <2>2. due[c] # <<>>
    BY <2>1, EmptyQueue
  <2>3. due'[c] = Tail(due[c])
    BY <1>2, <1>3 DEF Types
  <2> QED
    BY <1>4, <2>2, <2>3, ShorterQueue
<1>8. Head(awaited[c]) = awaited[c][1]
  <2>1. Len(awaited[c]) # 0
    BY <1>4, <1>6, <1>7, QueueLen
  <2>2. awaited[c] # <<>>
    BY <2>1, EmptyQueue
  <2> QED
    BY <1>4, <2>2, ShorterQueue
<1>9. Told(c) = due[c][1].shown /\ Head(awaited[c]) = due[c][1].cost
  <2>1. 1 \in 1..(m + 1) /\ 1 \in 1..(n + 1)
    OBVIOUS
  <2> QED
    BY <1>2, <1>5, <1>7, <1>8, <2>1 DEF Told, Connection, MatchOf
<1>10. \A i \in 1..(n + 1) :
         /\ Charge(due[c][i]) \in Nat /\ due[c][i].paid \in Nat /\ due[c][i].paid <= paid[c]
         /\ SpentBefore(c, i) + Charge(due[c][i]) <= due[c][i].paid
  BY <1>1, <1>7 DEF DecisionsPaid
<1>11. PICK f \in Nat : f = Charge(due[c][1])
  <2>1. 1 \in 1..(n + 1)
    OBVIOUS
  <2> QED
    BY <1>10, <2>1
<1>12. /\ spent' = [spent EXCEPT ![c] = spent[c] + f] /\ spent[c] \in Nat
       /\ spent[c] + f <= due[c][1].paid /\ due[c][1].paid \in Nat /\ due[c][1].paid <= paid[c]
  <2>1. 1 \in 1..(n + 1)
    OBVIOUS
  <2>2. SpentBefore(c, 1) = spent[c]
    BY DEF SpentBefore
  <2>3. (IF Told(c).allowed THEN Head(awaited[c]) ELSE 0) = f
    BY <1>9, <1>11 DEF Charge
  <2> QED
    BY <1>1, <1>3, <1>10, <1>11, <2>1, <2>2, <2>3
<1>13. spent' \in [Tasks -> Nat] /\ spent'[c] = spent[c] + f
       /\ \A u \in Tasks \ {c} : spent'[u] = spent[u]
  BY <1>1, <1>11, <1>12
<1>14. AdmissionsPaid'
  <2>1. PICK first \in Nat : first = due[c][1].paid
    BY <1>12
  <2>2. spent[c] + f <= paid[c]
    BY <1>1, <1>12, <2>1
  <2> QED
    BY <1>1, <1>3, <1>13, <2>2 DEF AdmissionsPaid
<1>15. DecisionsPaid(c)'
  <2> SUFFICES ASSUME NEW i \in 1..n
               PROVE  /\ Charge(due'[c][i]) \in Nat /\ due'[c][i].paid \in Nat
                      /\ due'[c][i].paid <= paid[c]
                      /\ SpentBefore(c, i)' + Charge(due'[c][i]) <= due'[c][i].paid
    BY <1>3, <1>7 DEF DecisionsPaid
  <2>1. i + 1 \in 1..(n + 1) /\ (i + 1) - 1 = i /\ i \in 1..(n + 1) /\ i + 1 # 1
    OBVIOUS
  <2>2. due'[c][i] = due[c][i + 1]
    BY <1>7
  <2>3. PICK g \in Nat : g = Charge(due[c][i + 1])
    BY <1>10, <2>1
  <2>4. PICK q \in Nat : q = due[c][i + 1].paid
    BY <1>10, <2>1
  <2>5. PICK b \in Nat : b = due[c][i].paid
    BY <1>10, <2>1
  <2>6. SpentBefore(c, i + 1) = b
    BY <2>1, <2>5 DEF SpentBefore
  <2>7. b + g <= q /\ q <= paid[c]
    BY <1>10, <2>1, <2>3, <2>4, <2>6
  <2>8. SpentBefore(c, i)' \in Nat /\ SpentBefore(c, i)' <= b
    <3>1. CASE i = 1
      <4>1. SpentBefore(c, i)' = spent[c] + f
        BY <1>13, <3>1 DEF SpentBefore
      <4>2. spent[c] + f <= b
        BY <1>12, <2>5, <3>1
      <4> QED
        BY <1>12, <4>1, <4>2
    <3>2. CASE i # 1
      <4>1. i - 1 \in 1..n /\ (i - 1) + 1 = i
        BY <3>2
      <4>2. SpentBefore(c, i)' = due'[c][i - 1].paid
        BY <3>2 DEF SpentBefore
      <4>3. due'[c][i - 1] = due[c][i]
        BY <1>7, <4>1
      <4>4. b <= b
        OBVIOUS
      <4> QED
        BY <2>5, <4>2, <4>3, <4>4
    <3> QED
      BY <3>1, <3>2
  <2>9. PICK a \in Nat : a = SpentBefore(c, i)'
    BY <2>8
  <2>10. a + g <= q
    BY <2>7, <2>8, <2>9
  <2> QED
    BY <2>2, <2>3, <2>4, <2>7, <2>9, <2>10
<1>16. ASSUME NEW d \in Clients \ {c} PROVE DecisionsPaid(d)'
  <2>1. due'[d] = due[d] /\ spent'[d] = spent[d] /\ paid' = paid
    BY <1>2, <1>3, <1>13 DEF Types, Tasks
  <2> QED
    BY <1>1, <2>1 DEF DecisionsPaid, SpentBefore
<1>17. \A h \in Callers : AnswerPaid(h)'
  BY <1>1, <1>3, <1>13 DEF AnswerPaid
<1> QED
  BY <1>1, <1>3, <1>13, <1>14, <1>15, <1>16, <1>17 DEF PaidInOrder

(* A caller that is answered by a status of 200 spends what its handler's  *)
(* decision let in (http_server.rs l.127-190).                             *)
LEMMA HttpAnswerPaid ==
  ASSUME CoreInv, PaidInOrder, AdviceInOrder, NEW h \in Callers, HttpAnswer(h)
  PROVE  PaidInOrder'
<1>1. /\ paid \in [Tasks -> Nat] /\ spent \in [Tasks -> Nat] /\ h \in Tasks
      /\ \A u \in Tasks : spent[u] <= paid[u]
      /\ \A d \in Clients : DecisionsPaid(d) /\ d \in Tasks /\ d # h
      /\ \A g \in Callers : AnswerPaid(g) /\ g \in Tasks
  BY ServiceAssumption DEF PaidInOrder, AdmissionsPaid, Tasks
<1>2. /\ open' = open /\ reply' = reply /\ cost' = cost /\ paid' = paid /\ due' = due
      /\ call[h] = "checking" /\ ~open[h] /\ call' = [call EXCEPT ![h] = "none"]
      /\ response'[h] = Response(reply[h], HmacSecret, 0)
      /\ spent' = [spent EXCEPT ![h] = spent[h] + (IF response'[h].status = 200 THEN cost[h] ELSE 0)]
  BY DEF HttpAnswer, Respond, check, AdviceInOrder
<1>3. response'[h].status = 200 <=> reply[h].verdict = "allowed"
  BY <1>2 DEF Response, Status
<1>4. PICK f : f = IF reply[h].verdict = "allowed" THEN cost[h] ELSE 0
  OBVIOUS
<1>5. spent' = [spent EXCEPT ![h] = spent[h] + f]
  BY <1>2, <1>3, <1>4
<1>6. f \in Nat /\ spent[h] + f <= paid[h]
  <2>1. CASE reply[h].verdict = "allowed"
    <3>1. cost[h] \in Nat /\ spent[h] + cost[h] <= paid[h]
      BY <1>1, <1>2, <2>1 DEF AnswerPaid
    <3> QED
      BY <1>4, <2>1, <3>1
  <2>2. CASE reply[h].verdict # "allowed"
    BY <1>1, <1>4, <2>2
  <2> QED
    BY <2>1, <2>2
<1>7. spent' \in [Tasks -> Nat] /\ spent'[h] = spent[h] + f
      /\ \A u \in Tasks \ {h} : spent'[u] = spent[u]
  BY <1>1, <1>5, <1>6
<1>8. AdmissionsPaid'
  BY <1>1, <1>2, <1>6, <1>7 DEF AdmissionsPaid
<1>9. ASSUME NEW d \in Clients PROVE DecisionsPaid(d)'
  <2>1. spent'[d] = spent[d]
    BY <1>1, <1>7
  <2> QED
    BY <1>1, <1>2, <2>1 DEF DecisionsPaid, SpentBefore
<1>10. DOMAIN call = Callers
  BY DEF CoreInv, TypeOK
<1>11. ASSUME NEW g \in Callers PROVE AnswerPaid(g)'
  <2>1. CASE g = h
    BY <1>2, <1>10, <2>1 DEF AnswerPaid
  <2>2. CASE g # h
    BY <1>1, <1>2, <1>7, <1>10, <2>2 DEF AnswerPaid
  <2> QED
    BY <2>1, <2>2
<1> QED
  BY <1>1, <1>2, <1>7, <1>8, <1>9, <1>11 DEF PaidInOrder

(* Every step of the service keeps the accounts (server.rs l.59-96,        *)
(* http_server.rs l.123-190, main.rs l.27-123).                            *)
LEMMA PaidNext ==
  ASSUME CoreInv, PaidInOrder, AdviceInOrder, [Next]_vars
  PROVE  PaidInOrder'
<1>1. /\ DOMAIN open = Tasks /\ DOMAIN call = Callers /\ DOMAIN due = Clients
      /\ \A c \in Clients : c \in Tasks /\ c \notin Callers
      /\ \A h \in Callers : h \in Tasks
      /\ DOMAIN reply = Tasks /\ DOMAIN cost = Tasks
  BY ServiceAssumption DEF CoreInv, TypeOK, Tasks
<1>2. CASE UNCHANGED vars
  BY <1>2, PaidKept DEF vars, http, check, account
<1>3. ASSUME NEW t \in Tasks, Check(t) PROVE PaidInOrder'
  BY <1>3, CheckPaid
<1>4. ASSUME NEW c \in Clients, Handle(c) PROVE PaidInOrder'
  <2>1. /\ paid' = paid /\ spent' = spent /\ due' = due /\ call' = call
        /\ \A h \in Callers : open'[h] = open[h] /\ reply'[h] = reply[h] /\ cost'[h] = cost[h]
    BY <1>1, <1>4 DEF Handle, account, http, check, Limiter!Ask
  <2> QED
    BY <2>1, PaidKept
<1>5. ASSUME NEW c \in Clients, Client(c) PROVE PaidInOrder'
  <2>1. CASE Hear(c)
    BY <2>1, HearPaid
  <2>2. CASE ~Hear(c)
    <3>1. /\ paid' = paid /\ spent' = spent /\ call' = call /\ open' = open /\ reply' = reply
          /\ cost' = cost /\ (due' = due \/ due' = [due EXCEPT ![c] = <<>>])
      BY <1>5, <2>2 DEF Client, Lose, Leave, account, http, check
    <3>2. \A d \in Clients : due'[d] = due[d] \/ due'[d] = <<>>
      BY <1>1, <3>1
    <3> QED
      BY <3>1, <3>2, PaidKept
  <2> QED
    BY <2>1, <2>2
<1>6. ASSUME NEW h \in Callers, HttpAsk(h) PROVE PaidInOrder'
  <2>1. /\ paid' = paid /\ spent' = spent /\ due' = due /\ open'[h]
        /\ \A g \in Callers \ {h} : /\ call'[g] = call[g] /\ open'[g] = open[g]
                                    /\ reply'[g] = reply[g] /\ cost'[g] = cost[g]
    BY <1>1, <1>6 DEF HttpAsk, Arrive, Limiter!Ask, account
  <2> QED
    BY <2>1, PaidKept
<1>7. ASSUME NEW h \in Callers, HttpAnswer(h) PROVE PaidInOrder'
  BY <1>7, HttpAnswerPaid
<1>8. ASSUME NEW h \in Callers, HttpDrop(h) PROVE PaidInOrder'
  <2>1. /\ paid' = paid /\ spent' = spent /\ due' = due /\ call'[h] = "none"
        /\ reply' = reply /\ cost' = cost
        /\ \A g \in Callers \ {h} : call'[g] = call[g] /\ open'[g] = open[g]
    BY <1>1, <1>8 DEF HttpDrop, Disconnect, account
  <2> QED
    BY <2>1, PaidKept
<1>9. CASE Start
  BY <1>9, PaidKept DEF Start, http, check, account
<1>10. CASE Exit
  <2>1. /\ paid' = paid /\ spent' = spent /\ due' = due
        /\ \A h \in Callers : call'[h] # "checking"
    BY <1>10 DEF Exit, account
  <2> QED
    BY <2>1, PaidKept
<1> QED
  BY <1>2, <1>3, <1>4, <1>5, <1>6, <1>7, <1>8, <1>9, <1>10 DEF Next
-----------------------------------------------------------------------------
(* Advice: when to come back.                                              *)

(* A caller keeps its advice and its standing through a step that leaves   *)
(* it, the entry and its version alone (http_server.rs l.123-190).         *)
LEMMA AdviceKept ==
  ASSUME NEW h \in Callers, AdviceOf(h), call'[h] = "checking" => call[h] = "checking",
         response'[h] = response[h], reply'[h] = reply[h], cost'[h] = cost[h],
         Remembered' => Remembered /\ entry' = entry /\ version' = version
  PROVE  AdviceOf(h)'
BY DEF AdviceOf, RetryAfter, ResetSecs, WholeSeconds

(* A decision takes the caller whose wait was that of the stored state out *)
(* of that position; the one that is denied by it comes in (limiter.rs     *)
(* l.29-32).                                                               *)
LEMMA ChargeAdvice ==
  ASSUME CoreInv, NEW h \in Callers, AdviceOf(h), NEW t \in Tasks, Limiter!Charge(t, 0),
         UNCHANGED <<http, process>>,
         \/ reply'[h] = reply[h]
         \/ /\ h = t
            /\ \/ reply'[h] = Answer(Limiter!Judgement(t, 0), version + 1)
               \/ reply'[h] = Contended(version + 1)
  PROVE  AdviceOf(h)'
<1> DEFINE out == Algorithm(State, 0, cost[t])
<1>1. /\ open[t] /\ version' = version + 1 /\ entry' = Limiter!Judgement(t, 0).state /\ cost' = cost
      /\ call' = call /\ response' = response /\ (Remembered' <=> Remembered)
  BY DEF Limiter!Charge, http, process, Remembered, Forgets
<1>2. version \in Nat /\ State \in StoredStates /\ cost[t] \in Costs
      /\ (h = t => call[h] = "checking")
  <2>1. version \in Nat /\ (version > 0 => entry \in StoredStates) /\ cost[t] \in Costs
        /\ (h = t => call[h] = "checking")
    BY <1>1 DEF CoreInv, TypeOK
  <2> QED
    BY <2>1, AlgorithmAssumption DEF State
<1>3. Limiter!Judgement(t, 0) = out
  BY DEF Limiter!Judgement, State
<1>4. out.allowed \in BOOLEAN
  BY <1>2, AlgorithmAssumption
<1>5. CASE reply'[h] = reply[h]
  <2>1. Remembered' => reply'[h].stamp <= version' /\ reply'[h].stamp # version'
    <3> SUFFICES ASSUME Remembered'
                 PROVE  reply[h].stamp <= version + 1 /\ reply[h].stamp # version + 1
      BY <1>1, <1>5
    <3>1. reply[h].stamp <= version
      BY <1>1 DEF AdviceOf
    <3>2. reply[h].stamp \in Nat
      BY DEF CoreInv, TypeOK, Tasks, Replies
    <3> QED
      BY <1>2, <3>1, <3>2
  <2> QED
    BY <1>1, <1>5, <2>1 DEF AdviceOf, RetryAfter, ResetSecs, WholeSeconds
<1>6. CASE h = t /\ reply'[h] = Answer(Limiter!Judgement(t, 0), version + 1)
  <2>1. /\ reply'[h].stamp = version + 1 /\ reply'[h].wait = out.wait
        /\ reply'[h].verdict = "denied" => ~out.allowed
    BY <1>3, <1>4, <1>6 DEF Answer, Reply
  <2>2. response'[h].retry_after = {}
    BY <1>1, <1>2, <1>6 DEF AdviceOf
  <2>3. version + 1 <= version + 1
    BY <1>2
  <2>4. reply'[h].verdict = "denied" =>
          \E s \in StoredStates :
            /\ cost'[h] \in Costs /\ ~Algorithm(s, 0, cost'[h]).allowed
            /\ entry' = Algorithm(s, 0, cost'[h]).state
            /\ reply'[h].wait = Algorithm(s, 0, cost'[h]).wait
    BY <1>1, <1>2, <1>3, <1>6, <2>1
  <2> QED
    BY <1>1, <2>1, <2>2, <2>3, <2>4 DEF AdviceOf
<1>7. CASE h = t /\ reply'[h] = Contended(version + 1)
  <2>1. reply'[h].stamp = version + 1 /\ reply'[h].verdict = "contended"
    BY <1>7 DEF Contended, Reply
  <2>2. response'[h].retry_after = {}
    BY <1>1, <1>2, <1>7 DEF AdviceOf
  <2>3. version + 1 <= version + 1
    BY <1>2
  <2> QED
    BY <1>1, <2>1, <2>2, <2>3 DEF AdviceOf
<1> QED
  BY <1>5, <1>6, <1>7

(* A step of a check keeps the advice in order (limiter.rs l.20-32).       *)
LEMMA CheckAdvice ==
  ASSUME CoreInv, AdviceInOrder, NEW t \in Tasks, Check(t)
  PROVE  AdviceInOrder'
<1>1. /\ DOMAIN reply = Tasks /\ version \in Nat /\ \A h \in Callers : h \in Tasks
      /\ UNCHANGED <<http, process>> /\ response' = response /\ call' = call
  BY DEF CoreInv, TypeOK, Check, http, Tasks
<1>2. ASSUME NEW h \in Callers PROVE AdviceOf(h)'
  <2>1. AdviceOf(h)
    BY DEF AdviceInOrder
  <2>2. CASE Limiter!Decide(t, 0)
    <3>1. /\ Limiter!Charge(t, 0)
          /\ reply'[h] = reply[h] \/ (h = t /\ reply'[h] = Answer(Limiter!Judgement(t, 0), version + 1))
      BY <1>1, <2>2, SameAnswers DEF Limiter!Decide
    <3> QED
      BY <1>1, <2>1, <3>1, ChargeAdvice
  <2>3. CASE Limiter!DecideUnseen(t, 0)
    BY <1>1, <2>1, <2>3, ChargeAdvice DEF Limiter!DecideUnseen
  <2>4. CASE Limiter!DecideUnseenAndRefuse(t, 0)
    <3>1. /\ Limiter!Charge(t, 0)
          /\ reply'[h] = reply[h] \/ (h = t /\ reply'[h] = Contended(version + 1))
      BY <1>1, <2>4, SameAnswers DEF Limiter!DecideUnseenAndRefuse
    <3> QED
      BY <1>1, <2>1, <3>1, ChargeAdvice
  <2>5. CASE Limiter!Refuse(t)
    <3>1. /\ open[t] /\ entry' = entry /\ version' = version /\ cost' = cost
          /\ reply' = [reply EXCEPT ![t] = Contended(version)]
          /\ (Remembered' <=> Remembered)
      BY <1>1, <2>5, SameAnswers DEF Limiter!Refuse, Remembered, Forgets, process
    <3>2. CASE h # t
      BY <1>1, <2>1, <3>1, <3>2, AdviceKept
    <3>3. CASE h = t
      <4>1. reply'[h].stamp = version /\ reply'[h].verdict = "contended"
        BY <1>1, <3>1, <3>3 DEF Contended, Reply
      <4>2. call[h] = "checking"
        BY <3>1, <3>3 DEF CoreInv, TypeOK
      <4>3. response'[h].retry_after = {} /\ version <= version
        BY <1>1, <2>1, <4>2 DEF AdviceOf
      <4> QED
        BY <3>1, <4>1, <4>3 DEF AdviceOf
    <3> QED
      BY <3>2, <3>3
  <2> QED
    BY <2>2, <2>3, <2>4, <2>5 DEF Check
<1> QED
  BY <1>1, <1>2 DEF AdviceInOrder

(* A new request has no advice yet, a finished one that of its decision    *)
(* (http_server.rs l.123-190).                                             *)
LEMMA HttpAdvice ==
  ASSUME CoreInv, AdviceInOrder, NEW h \in Callers, HttpAsk(h) \/ HttpAnswer(h) \/ HttpDrop(h)
  PROVE  AdviceInOrder'
<1>1. /\ DOMAIN reply = Tasks /\ DOMAIN cost = Tasks /\ DOMAIN call = Callers
      /\ DOMAIN response = Callers /\ version \in Nat /\ \A g \in Callers : g \in Tasks /\ AdviceOf(g)
  BY DEF CoreInv, TypeOK, Tasks, AdviceInOrder
<1>2. entry' = entry /\ version' = version /\ (Remembered' <=> Remembered)
  BY DEF HttpAsk, HttpAnswer, HttpDrop, Limiter!Ask, check, process, Remembered, Forgets
<1>3. CASE HttpAsk(h)
  <2>1. PICK k : Limiter!Ask(h, k)
    BY <1>3 DEF HttpAsk
  <2>2. /\ reply' = [reply EXCEPT ![h] = NoReply] /\ cost' = [cost EXCEPT ![h] = k]
        /\ response' = [response EXCEPT ![h] = NoResponse]
        /\ call' = [call EXCEPT ![h] = "checking"]
    BY <1>3, <2>1 DEF HttpAsk, Arrive, Limiter!Ask, Limiter!NoReply, NoReply, Limiter!Reply, Reply
  <2>3. response'[h].retry_after = {} /\ reply'[h].verdict = "none" /\ reply'[h].stamp = 0
    BY <1>1, <2>2 DEF NoResponse, NoReply, Reply
  <2>4. AdviceOf(h)'
    BY <1>1, <1>2, <2>3 DEF AdviceOf
  <2>5. \A g \in Callers \ {h} : AdviceOf(g)'
    BY <1>1, <1>2, <2>2, AdviceKept
  <2> QED
    BY <1>1, <2>2, <2>4, <2>5 DEF AdviceInOrder
<1>4. CASE HttpAnswer(h)
  <2>1. /\ reply' = reply /\ cost' = cost /\ call' = [call EXCEPT ![h] = "none"]
        /\ response' = [response EXCEPT ![h] = Response(reply[h], HmacSecret, 0)]
    BY <1>4 DEF HttpAnswer, Respond, check
  <2>2. response'[h].retry_after = RetryAfter(reply'[h]) /\ call'[h] = "none"
    BY <1>1, <2>1 DEF Response
  <2>3. AdviceOf(h)'
    BY <1>1, <1>2, <2>1, <2>2 DEF AdviceOf
  <2>4. \A g \in Callers \ {h} : AdviceOf(g)'
    BY <1>1, <1>2, <2>1, AdviceKept
  <2> QED
    BY <1>1, <2>1, <2>3, <2>4 DEF AdviceInOrder
<1>5. CASE HttpDrop(h)
  <2>1. /\ reply' = reply /\ cost' = cost /\ response' = response
        /\ call' = [call EXCEPT ![h] = "none"]
    BY <1>5 DEF HttpDrop, Disconnect
  <2>2. \A g \in Callers : AdviceOf(g)'
    BY <1>1, <1>2, <2>1, AdviceKept
  <2> QED
    BY <1>1, <2>1, <2>2 DEF AdviceInOrder
<1> QED
  BY <1>3, <1>4, <1>5

(* Every step keeps the advice in order; an exit may lose the state it     *)
(* rests on (http_server.rs l.123-190, main.rs l.46-59).                   *)
LEMMA AdviceNext ==
  ASSUME CoreInv, AdviceInOrder, [Next]_vars
  PROVE  AdviceInOrder'
<1>1. /\ DOMAIN reply = Tasks /\ DOMAIN cost = Tasks /\ exits \in Nat
      /\ \A c \in Clients : c \notin Callers
      /\ DOMAIN response = Callers /\ \A h \in Callers : h \in Tasks /\ AdviceOf(h)
  BY ServiceAssumption DEF CoreInv, TypeOK, Tasks, AdviceInOrder
<1>2. ASSUME response' = response,
             \A h \in Callers : /\ call'[h] = "checking" => call[h] = "checking"
                                /\ reply'[h] = reply[h] /\ cost'[h] = cost[h],
             Remembered' => Remembered /\ entry' = entry /\ version' = version
      PROVE  AdviceInOrder'
  <2>1. \A h \in Callers : AdviceOf(h)'
    BY <1>1, <1>2, AdviceKept
  <2> QED
    BY <1>1, <1>2, <2>1 DEF AdviceInOrder
<1>3. CASE UNCHANGED vars
  BY <1>2, <1>3 DEF vars, http, check, process, Remembered, Forgets
<1>4. ASSUME NEW t \in Tasks, Check(t) PROVE AdviceInOrder'
  BY <1>4, CheckAdvice
<1>5. ASSUME NEW c \in Clients, Handle(c) PROVE AdviceInOrder'
  <2>1. /\ response' = response /\ call' = call /\ entry' = entry /\ version' = version
        /\ UNCHANGED process /\ \A h \in Callers : reply'[h] = reply[h] /\ cost'[h] = cost[h]
    BY <1>1, <1>5 DEF Handle, http, check, Limiter!Ask
  <2> QED
    BY <1>2, <2>1 DEF process, Remembered, Forgets
<1>6. ASSUME NEW c \in Clients, Client(c) PROVE AdviceInOrder'
  <2>1. UNCHANGED <<http, check, process>>
    BY <1>6 DEF Client, Hear, Lose, Leave
  <2> QED
    BY <1>2, <2>1 DEF http, check, process, Remembered, Forgets
<1>7. ASSUME NEW h \in Callers, HttpAsk(h) \/ HttpAnswer(h) \/ HttpDrop(h) PROVE AdviceInOrder'
  BY <1>7, HttpAdvice
<1>8. CASE Start
  BY <1>2, <1>8 DEF Start, Advance, http, check, Remembered, Forgets
<1>9. CASE Exit
  <2>1. /\ response' = response /\ reply' = reply /\ cost' = cost
        /\ exits' = exits + 1 /\ config' = config
        /\ \A h \in Callers : call'[h] = "none"
        /\ ~Forgets => entry' = entry /\ version' = version
    BY <1>9 DEF Exit, End
  <2>2. Remembered' => ~Forgets
    BY <1>1, <2>1 DEF Remembered, Forgets
  <2>3. Remembered' => Remembered /\ entry' = entry /\ version' = version
    BY <2>1, <2>2 DEF Remembered
  <2> QED
    BY <1>2, <2>1, <2>3
<1> QED
  BY <1>3, <1>4, <1>5, <1>6, <1>7, <1>8, <1>9 DEF Next
-----------------------------------------------------------------------------
(* The whole invariant and what else follows from it.                      *)

(* Nothing is spent and nobody advised at first (main.rs l.27).            *)
LEMMA AccountsInit == Init => PaidInOrder /\ AdviceInOrder
<1> SUFFICES ASSUME Init PROVE PaidInOrder /\ AdviceInOrder
  OBVIOUS
<1>1. /\ due = [c \in Clients |-> <<>>] /\ call = [h \in Callers |-> "none"]
      /\ paid = [t \in Tasks |-> 0] /\ spent = [t \in Tasks |-> 0]
      /\ response = [h \in Callers |-> NoResponse] /\ version = 0
      /\ reply = [t \in Tasks |-> NoReply]
  BY DEF Init, WireInit, PeersInit, HttpInit, ProcessInit, Limiter!Init, Limiter!NoReply, NoReply,
         Limiter!Reply, Reply
<1>2. \A c \in Clients : DecisionsPaid(c)
  BY <1>1, EmptyQueue DEF DecisionsPaid
<1>3. PaidInOrder
  BY <1>1, <1>2 DEF PaidInOrder, AdmissionsPaid, AnswerPaid
<1>4. \A h \in Callers : AdviceOf(h)
  BY <1>1 DEF AdviceOf, NoResponse, NoReply, Reply, Tasks
<1> QED
  BY <1>1, <1>3, <1>4 DEF AdviceInOrder

(* Every state of the service satisfies the inductive invariant.           *)
THEOREM Invariance == Spec => []IInv
<1>1. Init => IInv
  BY CoreInit, AccountsInit DEF IInv
<1>2. IInv /\ [Next]_vars => IInv'
  BY CoreNext, PaidNext, AdviceNext DEF IInv
<1> QED
  BY <1>1, <1>2, PTL DEF Spec

(* Nothing goes ahead that was not let in (middleware.py l.47-60,          *)
(* http_server.rs l.127-135): each client spends at most what the limiter  *)
(* let in for that client, through lost connections, dropped handlers and  *)
(* exits of the process.                                                   *)
THEOREM SpentIsPaid == Spec => []AdmissionsPaid
<1>1. IInv => AdmissionsPaid
  BY DEF IInv, PaidInOrder
<1> QED
  BY <1>1, Invariance, PTL

(* The header is one second at least, and a second more is past the wait,  *)
(* by two seconds at most (http_server.rs l.149).                          *)
LEMMA SecondsPastWait ==
  ASSUME NEW wait \in Int, wait > 0
  PROVE  /\ WholeSeconds(wait) >= 1
         /\ (WholeSeconds(wait) + 1) * 1000 \in (wait + 1)..(wait + 2000)
BY DEF WholeSeconds

(* Retry-After (http_server.rs l.144-167): over an algorithm whose waits   *)
(* are long enough, a caller that was denied and comes back a second after *)
(* what the header says is let in, unless somebody came meanwhile.         *)
THEOREM RetryLeadsIn ==
  ASSUME WaitsSuffice
  PROVE  Spec => []RetryAfterLeadsIn
<1>1. IInv => RetryAfterLeadsIn
  <2> SUFFICES ASSUME IInv, NEW h \in Callers, NEW s \in response[h].retry_after
               PROVE  /\ s >= 1
                      /\ reply[h].verdict = "denied" /\ reply[h].stamp = version /\ Remembered
                           /\ cost[h] <= Quota => Algorithm(entry, (s + 1) * 1000, cost[h]).allowed
    BY DEF RetryAfterLeadsIn
  <2>1. AdviceOf(h) /\ reply[h].wait \in Int
    BY DEF IInv, CoreInv, TypeOK, AdviceInOrder, Tasks, Replies
  <2>2. s \in RetryAfter(reply[h])
    BY <2>1 DEF AdviceOf
  <2>3. reply[h].wait > 0 /\ s = WholeSeconds(reply[h].wait)
    BY <2>2 DEF RetryAfter, ResetSecs
  <2>4. s >= 1 /\ (s + 1) * 1000 \in (reply[h].wait + 1)..(reply[h].wait + 2000)
    BY <2>1, <2>3, SecondsPastWait
  <2>5. ASSUME reply[h].verdict = "denied", reply[h].stamp = version, Remembered, cost[h] <= Quota
        PROVE  Algorithm(entry, (s + 1) * 1000, cost[h]).allowed
    <3>1. PICK then : then = (s + 1) * 1000
      OBVIOUS
    <3>2. PICK S \in StoredStates : /\ cost[h] \in Costs /\ ~Algorithm(S, 0, cost[h]).allowed
                                    /\ entry = Algorithm(S, 0, cost[h]).state
                                    /\ reply[h].wait = Algorithm(S, 0, cost[h]).wait
      BY <2>1, <2>5 DEF AdviceOf
    <3>3. then \in (Algorithm(S, 0, cost[h]).wait + 1)..(Algorithm(S, 0, cost[h]).wait + 2000)
          /\ Algorithm(S, 0, cost[h]).wait > 0
      BY <2>3, <2>4, <3>1, <3>2
    <3>4. Algorithm(Algorithm(S, 0, cost[h]).state, then, cost[h]).allowed
      BY <2>5, <3>2, <3>3 DEF WaitsSuffice
    <3> QED
      BY <3>1, <3>2, <3>4
  <2> QED
    BY <2>4, <2>5
<1> QED
  BY <1>1, Invariance, PTL

-----------------------------------------------------------------------------
(* The signature and its verification.                                     *)

(* Every header was digested over the Display of a Rust bool.              *)
RustSigned ==
  /\ DOMAIN response = Callers
  /\ \A h \in Callers : \A mac \in response[h].mac : mac.v[2] \in {"true", "false"}

(* The headers of an answer are those Response makes of a decision         *)
(* (http_server.rs l.170-181); no other step gives a caller one.           *)
LEMMA SignedByRust ==
  ASSUME RustSigned, [Next]_vars
  PROVE  RustSigned'
<1>1. ASSUME NEW h \in Callers, NEW new, response' = [response EXCEPT ![h] = new],
             \A mac \in new.mac : mac.v[2] \in {"true", "false"}
      PROVE  RustSigned'
  BY <1>1 DEF RustSigned
<1>2. ASSUME UNCHANGED response PROVE RustSigned'
  BY <1>2 DEF RustSigned
<1>3. ASSUME NEW h \in Callers, HttpAsk(h) PROVE RustSigned'
  <2>1. response' = [response EXCEPT ![h] = NoResponse]
    BY <1>3 DEF HttpAsk, Arrive
  <2>2. NoResponse.mac = {}
    BY DEF NoResponse
  <2> QED
    BY <1>1, <2>1, <2>2
<1>4. ASSUME NEW h \in Callers, HttpAnswer(h) PROVE RustSigned'
  <2>1. response' = [response EXCEPT ![h] = Response(reply[h], HmacSecret, 0)]
    BY <1>4 DEF HttpAnswer, Respond
  <2>2. \A mac \in Response(reply[h], HmacSecret, 0).mac : mac.v[2] \in {"true", "false"}
    BY DEF Response, Mac, Hmac, RustText
  <2> QED
    BY <1>1, <2>1, <2>2
<1>5. ASSUME NEW h \in Callers, HttpDrop(h) PROVE RustSigned'
  BY <1>2, <1>5 DEF HttpDrop, Disconnect
<1>6. ASSUME NEW t \in Tasks, Check(t) PROVE RustSigned'
  BY <1>2, <1>6 DEF Check, http
<1>7. ASSUME NEW c \in Clients, Handle(c) PROVE RustSigned'
  BY <1>2, <1>7 DEF Handle, http
<1>8. ASSUME NEW c \in Clients, Client(c) PROVE RustSigned'
  BY <1>2, <1>8 DEF Client, Hear, Lose, Leave, http
<1>9. CASE Start
  BY <1>2, <1>9 DEF Start, http
<1>10. CASE Exit
  BY <1>2, <1>10 DEF Exit
<1>11. CASE UNCHANGED vars
  BY <1>2, <1>11 DEF vars, http
<1> QED
  BY <1>3, <1>4, <1>5, <1>6, <1>7, <1>8, <1>9, <1>10, <1>11 DEF Next

(* No header the server makes is ever accepted (http_server.rs l.170-181,  *)
(* hmac_utils.py l.67-78), whatever the key, the age allowed and the time  *)
(* of the check: the server digests true and false where the verifier      *)
(* digests True and False.                                                 *)
THEOREM NoMacVerifies ==
  Spec => [](\A h \in Callers : \A mac \in response[h].mac :
               \A secret, time, age : ~VerifyRateHmac(mac, secret, response[h].body, time, age))
<1>1. Init => RustSigned
  BY DEF Init, HttpInit, NoResponse, RustSigned
<1>2. RustSigned =>
        \A h \in Callers : \A mac \in response[h].mac :
          \A secret, time, age : ~VerifyRateHmac(mac, secret, response[h].body, time, age)
  BY DEF RustSigned, VerifyRateHmac, Hmac, PythonText
<1> QED
  BY <1>1, <1>2, SignedByRust, PTL DEF Spec
=============================================================================
