------------------------------ MODULE Service -------------------------------
(***************************************************************************)
(* The server process (src/main.rs) with its two servers, their clients,   *)
(* and the limiter they share, which decides a check in one step as        *)
(* AtomicLimiter says.  The process may end at any time and be started     *)
(* again: a limiter over etcd goes on with what is stored there, one over  *)
(* the local store begins with nothing.  The time is one instant: what     *)
(* time does to a limiter is the matter of the limiter's own module.       *)
(***************************************************************************)
EXTENDS TcpClients, HttpServer, Process

CONSTANTS
  MaxAttempts, Unreliable, Nothing,   \* of AtomicLimiter
  NewState(_), Algorithm(_, _, _),   \* its Fresh and Evaluate
  StoredStates, Room(_),   \* what the key may hold, and what it still lets in at an instant
  Quota,             \* what the first state lets in
  MaxVersion         \* bound: decisions whose callers may fail to learn of them

ASSUME ServiceAssumption == Clients \cap Callers = {} /\ Quota \in Nat /\ MaxExits \in Nat

ASSUME AlgorithmAssumption ==
  /\ NewState(0) \in StoredStates /\ Room(NewState(0)) <= Quota
  /\ \A s \in StoredStates : Room(s) \in Nat
  /\ \A s \in StoredStates, k \in Costs : LET out == Algorithm(s, 0, k) IN
       /\ out.state \in StoredStates /\ out.allowed \in BOOLEAN
       /\ out.remaining \in Int /\ out.wait \in Int
       /\ Room(out.state) + (IF out.allowed THEN k ELSE 0) <= Room(s)

VARIABLES
  entry, version, open, cost, reply, start, served,   \* of AtomicLimiter
  granted,     \* history: the cost the limiter let in
  paid,        \* history: paid[t], the part of it that t asked for
  spent,       \* history: spent[t], the cost of requests of t that went ahead
  due          \* history: due[c], decisions on the requests in awaited[c]

Tasks == Clients \cup Callers

Limiter == INSTANCE AtomicLimiter WITH
  Fresh <- NewState, Evaluate <- Algorithm, clock <- 0, MaxClock <- 0, Drift <- 0,
  RequestsPerTask <- MaxSends

check == <<entry, version, open, cost, reply, start, served>>
account == <<granted, paid, spent, due>>
vars == <<wire, peers, http, check, process, account>>

\* What a step of the limiter for task t lets in.
LetIn(t) == IF Limiter!Judgement(t, 0).allowed THEN cost[t] ELSE 0

Book(t) ==
  /\ granted' = granted + LetIn(t)
  /\ paid' = [paid EXCEPT ![t] = @ + LetIn(t)]
  /\ UNCHANGED spent

\* A decision for t, and what t had been let in for by then.
Owed(t) == [shown |-> Shown(reply'[t]), cost |-> cost[t], paid |-> paid'[t]]

\* The decision on a request is known, its answer not yet written.
Owe(t) ==
  due' = IF t \in Clients /\ ~open'[t] /\ link[t] = "up"
           THEN [due EXCEPT ![t] = Append(@, Owed(t))]
           ELSE due

Check(t) ==
  /\ \/ Limiter!Decide(t, 0) /\ Book(t)
     \/ version < MaxVersion /\ Limiter!DecideUnseen(t, 0) /\ Book(t)
     \/ version < MaxVersion /\ Limiter!DecideUnseenAndRefuse(t, 0) /\ Book(t)
     \/ Limiter!Refuse(t) /\ UNCHANGED <<granted, paid, spent>>
  /\ Owe(t)
  /\ UNCHANGED <<wire, peers, http, process>>

\* What handle_conn of client c does.
Handle(c) ==
  \/ /\ Listening /\ Accept(c)
     /\ UNCHANGED <<peers, http, check, process, account>>
  \/ /\ TakeRequest(c)
     /\ Limiter!Ask(c, ReadRequest(Head(up[c]).table).cost)
     /\ UNCHANGED <<peers, http, process, account>>
  \/ /\ RefuseFrame(c) \/ EndOfStream(c) \/ (~open[c] /\ WriteAnswer(c, reply[c]))
     /\ UNCHANGED <<peers, http, check, process, account>>

\* A request that is told to proceed does: middleware.py l.47-60 calls the route.
Hear(c) ==
  /\ Receive(c)
  /\ spent' = [spent EXCEPT ![c] = @ + (IF Told(c).allowed THEN Head(awaited[c]) ELSE 0)]
  /\ due' = [due EXCEPT ![c] = Tail(@)]
  /\ UNCHANGED <<http, check, process, granted, paid>>

\* An answer will not come.
Lose(c) ==
  /\ Fail(c)
  /\ due' = [due EXCEPT ![c] = <<>>]
  /\ UNCHANGED <<http, check, process, granted, paid, spent>>

Leave(c) ==
  /\ Quit(c)
  /\ due' = [due EXCEPT ![c] = <<>>]
  /\ UNCHANGED <<http, check, process, granted, paid, spent>>

Client(c) ==
  \/ /\ \/ Listening /\ Connect(c, exits)
        \/ \E k \in Costs, len \in Lengths : Send(c, k, len)
        \/ SendOther(c)
     /\ UNCHANGED <<http, check, process, account>>
  \/ Hear(c)
  \/ Lose(c)
  \/ Leave(c)

HttpAsk(h) ==
  /\ phase = "serving" /\ Arrive(h)
  /\ sends < MaxSends /\ sends' = sends + 1
  /\ \E k \in Costs : Limiter!Ask(h, k)
  /\ UNCHANGED <<wire, awaited, opened, longest, process, account>>

HttpAnswer(h) ==
  /\ ~open[h] /\ Respond(h, reply[h], HmacSecret, 0)
  /\ spent' = [spent EXCEPT ![h] = @ + (IF response'[h].status = 200 THEN cost[h] ELSE 0)]
  /\ UNCHANGED <<wire, peers, check, process, granted, paid, due>>

\* Deviation of HttpDrop: the check runs on, in a task of its own.
HttpDropDetached(h) ==
  /\ Disconnect(h)
  /\ UNCHANGED <<wire, peers, check, process, account>>

\* The handler is dropped, and check() with it.
HttpDrop(h) ==
  /\ Disconnect(h)
  /\ open' = [open EXCEPT ![h] = FALSE]
  /\ UNCHANGED <<wire, peers, process, account>>
  /\ UNCHANGED <<entry, version, cost, reply, start, served>>

Start == Advance /\ UNCHANGED <<wire, peers, http, check, account>>

\* The process ends, and with it its sockets, tasks and checks.
Exit ==
  /\ End
  /\ task' = [c \in Clients |-> "none"]
  /\ link' = [c \in Clients |-> CASE link[c] = "up" -> "cut" [] link[c] = "half" -> "none"
                                  [] OTHER -> link[c]]
  /\ up' = [c \in Clients |-> <<>>]
  /\ \/ UNCHANGED down
     \/ down' = [c \in Clients |-> <<>>]
  /\ call' = [h \in Callers |-> "none"]
  /\ open' = [t \in Tasks |-> FALSE]
  /\ IF Forgets THEN entry' = Nothing /\ version' = 0 ELSE UNCHANGED <<entry, version>>
  /\ UNCHANGED <<peers, response, cost, reply, start, served, account>>

Init ==
  /\ WireInit /\ PeersInit /\ HttpInit /\ ProcessInit /\ Limiter!Init
  /\ granted = 0 /\ paid = [t \in Tasks |-> 0] /\ spent = [t \in Tasks |-> 0]
  /\ due = [c \in Clients |-> <<>>]

Next ==
  \/ \E t \in Tasks : Check(t)
  \/ \E c \in Clients : Handle(c) \/ Client(c)
  \/ \E h \in Callers : HttpAsk(h) \/ HttpAnswer(h) \/ HttpDrop(h)
  \/ Start \/ Exit

Spec == Init /\ [][Next]_vars

\* Tokio runs a task that is ready, a check ends, and a client reads what there is.
Fairness ==
  /\ \A c \in Clients : WF_vars(Handle(c) \/ Check(c)) /\ WF_vars(Hear(c) \/ Lose(c))
  /\ \A h \in Callers : WF_vars(Check(h) \/ HttpAnswer(h))

FairSpec == Spec /\ Fairness

-----------------------------------------------------------------------------
IsSeq(s) == s \in Seq({s[i] : i \in DOMAIN s})

\* Every variable has its type; a task has a check under way only while it waits for it.
TypeOK ==
  /\ link \in [Clients -> {"none", "up", "half", "cut"}]
  /\ task \in [Clients -> {"none", "reading", "checking"}]
  /\ call \in [Callers -> {"none", "checking"}]
  /\ phase \in {"down", "built", "bound", "serving"} /\ exits \in 0..MaxExits
  /\ open \in [Tasks -> BOOLEAN] /\ reply \in [Tasks -> Replies]
  /\ DOMAIN cost = Tasks /\ \A t \in Tasks : open[t] => cost[t] \in Costs
  /\ version \in Nat /\ (version > 0 => entry \in StoredStates) /\ granted \in Nat
  /\ DOMAIN up = Clients /\ DOMAIN down = Clients
  /\ DOMAIN awaited = Clients /\ DOMAIN due = Clients
  /\ DOMAIN opened = Clients /\ DOMAIN longest = Clients
  /\ \A c \in Clients : opened[c] \in 0..exits /\ longest[c] \in Nat
  /\ \A c \in Clients : IsSeq(up[c]) /\ IsSeq(down[c]) /\ IsSeq(awaited[c]) /\ IsSeq(due[c])
  /\ \A c \in Clients : open[c] => task[c] = "checking"
  /\ \A h \in Callers : open[h] => call[h] = "checking"
  /\ \A c \in Clients : task[c] # "none" => Listening /\ link[c] \in {"up", "half"}

(* An answer is the decision on the request it is read for, field by field *)
(* and charged at the cost that was asked: with requests sent ahead, after *)
(* lost connections and restarts (server.rs l.59-96, flatbuf/mod.rs).      *)
AnswersMatch ==
  \A c \in Clients :
    /\ Len(down[c]) <= Len(due[c]) /\ Len(due[c]) <= Len(awaited[c])
    /\ \A i \in DOMAIN down[c] : ReadResponse(down[c][i]) = due[c][i].shown
    /\ \A i \in DOMAIN due[c] : due[c][i].cost = awaited[c][i]

(* Whatever goes ahead, told so over TCP, by the middleware or by a status *)
(* of 200, was let in by the limiter first, for the same client: no answer *)
(* is used twice, goes to another, or stands for a check that a lost       *)
(* connection or an exit cut short.                                        *)
AdmissionsPaid == \A t \in Tasks : spent[t] <= paid[t]

(* The limit outlives the process if the state does: an exit grants the    *)
(* quota anew only where the store was local (main.rs l.46-59).            *)
QuotaPerState == granted <= Quota * (1 + (IF config.etcd THEN 0 ELSE exits))

(* A client of this repository is cut off for one of two reasons: the      *)
(* server it connected to has ended, or it wrote a frame longer than       *)
(* MAX_MSG_BYTES to this very connection, which no client checks           *)
(* (server.rs l.69-72, client.py l.96-98).  Up to that length, whatever it *)
(* sends is taken, and no frame of an earlier connection counts.           *)
CutForCause ==
  \A c \in Clients \ Foreign :
    link[c] = "cut" => exits > opened[c] \/ longest[c] > MaxMsgBytes

\* Of a connection that is closed at one end, nothing is left at that end.
ClosedEnds ==
  \A c \in Clients :
    /\ link[c] \in {"none", "half"} => awaited[c] = <<>> /\ due[c] = <<>> /\ down[c] = <<>>
    /\ link[c] \in {"none", "cut"} => up[c] = <<>>

\* Frames that are taken ask for a cost there is; those of this repository's clients are
\* taken unless they are too long.
FramesFit ==
  \A c \in Clients : \A i \in DOMAIN up[c] :
    /\ Acceptable(up[c][i]) => ReadRequest(up[c][i].table).cost \in Costs
    /\ c \notin Foreign /\ longest[c] <= MaxMsgBytes => Acceptable(up[c][i])

\* What waits on the server: a request under check, or a decision to be written.
Checked(c) == IF open[c] THEN 1 ELSE 0
Unwritten(c) == IF task[c] = "checking" /\ ~open[c] THEN 1 ELSE 0

\* A living connection holds, in order: answers, one decision or check, frames.
RequestsInOrder ==
  \A c \in Clients : link[c] = "up" =>
    /\ Len(due[c]) = Len(down[c]) + Unwritten(c)
    /\ Unwritten(c) = 1 => due[c][Len(due[c])].shown = Shown(reply[c])
    /\ Len(awaited[c]) = Len(due[c]) + Checked(c) + Len(up[c])
    /\ open[c] => awaited[c][Len(due[c]) + 1] = cost[c]
    /\ \A i \in DOMAIN up[c] : Acceptable(up[c][i]) =>
         awaited[c][Len(due[c]) + Checked(c) + i] = ReadRequest(up[c][i].table).cost

\* What was let in and what may still be is no more than the exits account for.
RoomLeft ==
  granted + Room(IF version = 0 THEN NewState(0) ELSE entry)
    <= Quota * (1 + (IF config.etcd THEN 0 ELSE exits))

\* What had been let in for c and is not yet spent pays for each decision c is to hear.
Charge(decision) == IF decision.shown.allowed THEN decision.cost ELSE 0
SpentBefore(c, i) == IF i = 1 THEN spent[c] ELSE due[c][i - 1].paid

DecisionsPaid(c) ==
  \A i \in DOMAIN due[c] :
    /\ Charge(due[c][i]) \in Nat /\ due[c][i].paid \in Nat /\ due[c][i].paid <= paid[c]
    /\ SpentBefore(c, i) + Charge(due[c][i]) <= due[c][i].paid

\* What was let in for h pays for the answer its handler is about to give.
AnswerPaid(h) ==
  call[h] = "checking" /\ ~open[h] /\ reply[h].verdict = "allowed" =>
    cost[h] \in Nat /\ spent[h] + cost[h] <= paid[h]

PaidInOrder ==
  /\ paid \in [Tasks -> Nat] /\ spent \in [Tasks -> Nat]
  /\ AdmissionsPaid
  /\ \A c \in Clients : DecisionsPaid(c)
  /\ \A h \in Callers : AnswerPaid(h)

\* The state has not been lost since the process was first started.
Remembered == Forgets => exits = 0

(* What h holds is the advice of its last answer; and that is the wait of   *)
(* the stored state, if its check was the last to be decided.              *)
AdviceOf(h) ==
  /\ call[h] = "checking" => response[h].retry_after = {}
  /\ response[h].retry_after \subseteq RetryAfter(reply[h])
  /\ Remembered => reply[h].stamp <= version
  /\ Remembered /\ reply[h].verdict = "denied" /\ reply[h].stamp = version =>
       \E s \in StoredStates : LET out == Algorithm(s, 0, cost[h]) IN
         /\ cost[h] \in Costs /\ ~out.allowed
         /\ entry = out.state /\ reply[h].wait = out.wait

AdviceInOrder == DOMAIN response = Callers /\ \A h \in Callers : AdviceOf(h)

\* What connections, their tasks and the limit rest on.
CoreInv ==
  /\ TypeOK
  /\ ClosedEnds
  /\ FramesFit
  /\ RequestsInOrder
  /\ AnswersMatch
  /\ CutForCause
  /\ RoomLeft

(* The inductive invariant the theorems rest on.                           *)
IInv == CoreInv /\ PaidInOrder /\ AdviceInOrder

(* What an algorithm that advises waits has to see to, in the two seconds  *)
(* after its wait, within which a caller that minds Retry-After is back.   *)
WaitsSuffice ==
  \A s \in StoredStates, k \in Costs : LET out == Algorithm(s, 0, k) IN
    ~out.allowed /\ out.wait > 0 /\ k <= Quota =>
      \A n \in (out.wait + 1)..(out.wait + 2000) : Algorithm(out.state, n, k).allowed

(* A caller that is denied by status 429 and comes back a second after its *)
(* Retry-After is let in, if nobody came meanwhile and its cost fits at    *)
(* all: the header is short of the wait by less than that second, which    *)
(* http_server.rs l.149 cuts off, and never says "now" (l.144).            *)
RetryAfterLeadsIn ==
  \A h \in Callers : \A s \in response[h].retry_after :
    /\ s >= 1
    /\ reply[h].verdict = "denied" /\ reply[h].stamp = version /\ Remembered /\ cost[h] <= Quota =>
         Algorithm(entry, (s + 1) * 1000, cost[h]).allowed

(* Every request ends, with an answer or an error, whatever the server, the *)
(* limiter and the other clients do.                                        *)
EveryRequestEnds ==
  /\ \A c \in Clients : awaited[c] # <<>> ~> awaited[c] = <<>>
  /\ \A h \in Callers : call[h] = "checking" ~> call[h] = "none"

(* "Return True iff the X-RateLimit-Mac header is authentic and fresh"     *)
(* (hmac_utils.py l.46): a header the server made verifies at once.        *)
GenuineMacVerifies ==
  \A h \in Callers : \A mac \in response[h].mac : \A s \in Secrets :
    VerifyRateHmac(mac, s, response[h].body, mac.t, 60000)
=============================================================================
