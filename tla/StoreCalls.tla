----------------------------- MODULE StoreCalls -----------------------------
(***************************************************************************)
(* Calls of the trait StateStore (src/store/mod.rs) and the map of         *)
(* versioned entries that every store keeps.  A caller makes one call at a *)
(* time: the call is entered, takes effect at some later instant, and      *)
(* returns.  StateStore says what a store promises; LocalStore and         *)
(* EtcdStore are the two stores.                                           *)
(***************************************************************************)
EXTENDS Naturals, FiniteSets

CONSTANTS
  Callers,         \* tasks that call the store
  Keys, Values,
  Nothing,         \* the value of an absent key, and of answers without one
  MaxCalls   \* bound: calls made by all callers together

\* A process runs finitely many tasks; the value of an absent key is none that
\* is stored.
ASSUME StoreAssumption ==
  IsFiniteSet(Callers) /\ Nothing \notin Values /\ MaxCalls \in Nat

VARIABLES
  data,     \* data[k]: the entry of key k
  written,  \* history: every version that ever was in the map
  request,  \* request[c]: the call c is in, or Idle
  reply,    \* reply[c]: the answer to that call as far as it is known
  calls     \* number of calls made so far

callVars == <<data, written, request, reply, calls>>

\* Version 0 stands for None: no version in use is 0.
Absent == [value |-> Nothing, version |-> 0]

Entries == [value : Values, version : Nat \ {0}] \cup {Absent}

Idle == [op |-> "idle"]
Ping == [op |-> "ping"]
Gets == [op : {"get"}, key : Keys]
Puts == [op : {"put"}, key : Keys, value : Values]

\* expected = 0 is None.  A caller knows versions from answers of the store only.
Swaps(known) == [op : {"cas"}, key : Keys, value : Values, expected : {0} \cup known]

Requests(known) == {Ping} \cup Gets \cup Puts \cup Swaps(known)

Writing(r) == r.op \in {"put", "cas"}

\* The comparison of local.rs l.48-52, and of the transaction of etcd.rs l.56-59.
Matches(r, entry) == r.op = "put" \/ r.expected = entry.version

(***************************************************************************)
(* Answers.  "ok": a present key, a write that happened, a good ping.      *)
(* "no": an absent key, a conflict, a call that failed.  "pending" and     *)
(* "unheard" are answers still to come, the second after the transaction   *)
(* of a cas was lost.                                                      *)
(***************************************************************************)
Reply(status, value, version) == [status |-> status, value |-> value, version |-> version]

Pending == Reply("pending", Nothing, 0)

Replies == [status : {"pending", "unheard", "ok", "no"}, value : Values \cup {Nothing}, version : Nat]

\* What a call that reads, or a cas that does not match, answers.
Found(r, entry) ==
  IF r.op = "ping" THEN Reply("ok", Nothing, 0)
  ELSE IF r.op = "cas" THEN Reply("no", Nothing, entry.version)
  ELSE Reply(IF entry = Absent THEN "no" ELSE "ok", entry.value, entry.version)

EntryOf(r) == IF r = Ping THEN Absent ELSE data[r.key]

\* The write of a call, under version v.
Install(r, v) ==
  /\ data' = [data EXCEPT ![r.key] = [value |-> r.value, version |-> v]]
  /\ written' = written \cup {v}

CallsInit ==
  /\ data = [k \in Keys |-> Absent]
  /\ written = {}
  /\ request = [c \in Callers |-> Idle]
  /\ reply = [c \in Callers |-> Pending]
  /\ calls = 0

Call(c) ==
  /\ request[c] = Idle
  /\ calls < MaxCalls
  /\ \E r \in Requests(written) : request' = [request EXCEPT ![c] = r]
  /\ calls' = calls + 1
  /\ UNCHANGED <<data, written, reply>>

Answer(c, a) == reply' = [reply EXCEPT ![c] = a]

\* The call is over, for its caller at least.
Leave(c) ==
  /\ request' = [request EXCEPT ![c] = Idle]
  /\ Answer(c, Pending)
  /\ UNCHANGED <<data, written, calls>>

Return(c) == reply[c].status \in {"ok", "no"} /\ Leave(c)

CallsTypeOK ==
  /\ data \in [Keys -> Entries]
  /\ written \subseteq Nat \ {0}
  /\ \A k \in Keys : data[k] # Absent => data[k].version \in written
  /\ request \in [Callers -> {Idle} \cup Requests(written)]
  /\ reply \in [Callers -> Replies]
  /\ calls \in 0..MaxCalls
=============================================================================
