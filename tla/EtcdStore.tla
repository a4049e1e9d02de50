------------------------------ MODULE EtcdStore ------------------------------
(***************************************************************************)
(* The shared store, src/store/etcd.rs.  The tasks of a replica share one  *)
(* client behind an asynchronous mutex, which a call holds from its first  *)
(* RPC to its last answer (l.33, l.41, l.52, l.86); the mutex is handed on *)
(* in order of arrival.  A call is one RPC, and a cas whose transaction    *)
(* did not succeed, or was not answered, one more (l.70-78).               *)
(*                                                                         *)
(* External: etcd executes an RPC in one instant and gives every write the *)
(* next revision; a call of a task in Lossy may be dropped with its caller *)
(* or fail on either side of that instant, and a request that nobody waits *)
(* for may still be executed.                                              *)
(***************************************************************************)
EXTENDS StoreCalls, Sequences, SequencesExt

CONSTANTS
  Replicas,
  Home,      \* Home[c]: the replica of c
  Lossy

ASSUME ReplicaAssumption == Home \in [Callers -> Replicas] /\ Lossy \subseteq Callers

VARIABLES
  queue,     \* queue[r]: who holds the mutex of r, and who waits for it
  rpc,       \* rpc[c]: where the RPC of c stands
  outcome,   \* outcome[c]: what etcd answered, or will
  revision,  \* revision of the cluster
  late       \* writes nobody waits for: <<caller, number, request>>

etcdVars == <<queue, rpc, outcome, revision, late>>
vars == <<callVars, etcdVars>>

\* Not sent; sent; executed; the same of the second get of a cas.
Stages == {"unsent", "sent", "executed", "resent", "read"}

Init ==
  /\ CallsInit
  /\ queue = [r \in Replicas |-> <<>>]
  /\ rpc = [c \in Callers |-> "unsent"]
  /\ outcome = [c \in Callers |-> Pending]
  /\ revision = 1
  /\ late = {}

Line(c) == queue[Home[c]]

Move(c, stage) == rpc' = [rpc EXCEPT ![c] = stage]

Learn(c, a) == outcome' = [outcome EXCEPT ![c] = a]

Place(c) == CHOOSE i \in DOMAIN Line(c) : Line(c)[i] = c

\* The bug of a mutex that stays locked on the path of a failed cas.
UnlockUnlessRead(c) ==
  /\ queue' = [queue EXCEPT ![Home[c]] = IF rpc[c] = "read" THEN @ ELSE RemoveAt(@, Place(c))]
  /\ Move(c, "unsent")
  /\ Learn(c, Pending)

\* The guard of the mutex goes out of scope, or the wait for it is given up.
Unlock(c) ==
  /\ queue' = [queue EXCEPT ![Home[c]] = RemoveAt(@, Place(c))]
  /\ Move(c, "unsent")
  /\ Learn(c, Pending)

Enter(c) ==
  /\ Call(c)
  /\ queue' = [queue EXCEPT ![Home[c]] = Append(@, c)]
  /\ UNCHANGED <<rpc, outcome, revision, late>>

\* The mutex is free for the first of the line, which sends its RPC.
Send(c) ==
  /\ Line(c) # <<>> /\ Head(Line(c)) = c
  /\ rpc[c] = "unsent"
  /\ Move(c, "sent")
  /\ UNCHANGED <<callVars, queue, outcome, revision, late>>

\* The bug of a transaction that compares nothing when the key should not exist.
HoldsForAny(r) == r.expected = 0 \/ Matches(r, EntryOf(r))

\* l.56-59: the comparison of the transaction.
Holds(r) == Matches(r, EntryOf(r))

Succeeds(r) == r.op = "put" \/ (r.op = "cas" /\ Holds(r))

\* etcd executes a write.
Execute(r) ==
  IF Succeeds(r)
  THEN Install(r, revision + 1) /\ revision' = revision + 1
  ELSE UNCHANGED <<data, written, revision>>

ExecuteSent(c) ==
  /\ rpc[c] = "sent"
  /\ Execute(request[c])
  /\ Learn(c, IF Succeeds(request[c]) THEN Reply("ok", Nothing, revision + 1)
              ELSE Found(request[c], EntryOf(request[c])))
  /\ Move(c, "executed")
  /\ UNCHANGED <<request, reply, calls, queue, late>>

\* The second get reads the version as it is by then (l.72-77).
ExecuteGet(c) ==
  /\ rpc[c] = "resent"
  /\ Learn(c, Found(request[c], EntryOf(request[c])))
  /\ Move(c, "read")
  /\ UNCHANGED <<callVars, queue, revision, late>>

\* The answer of the call goes to its caller.
Finish(c, a) == Answer(c, a) /\ Unlock(c) /\ UNCHANGED <<data, written, request, calls, revision>>

\* The bug of a store that sends the same transaction again.
RetrySame(c, a) ==
  /\ Move(c, "sent") /\ Learn(c, a)
  /\ UNCHANGED <<callVars, queue, revision>>

\* The second RPC of a cas, l.72.
Retry(c, a) ==
  /\ Move(c, "resent") /\ Learn(c, a)
  /\ UNCHANGED <<callVars, queue, revision>>

\* l.65: the transaction was executed and did not succeed.
Refused(c) == rpc[c] = "executed" /\ request[c].op = "cas" /\ outcome[c].status = "no"

\* l.34-36, l.42-47, l.65-69, l.78, l.90: an answer arrives.
Receive(c) ==
  /\ rpc[c] \in {"executed", "read"}
  /\ IF Refused(c)
     THEN Retry(c, Pending)
     ELSE Finish(c, outcome[c])
  /\ UNCHANGED late

\* A write that is sent and not executed may be executed later, or never.
Orphan(c) ==
  \/ UNCHANGED late
  \/ /\ rpc[c] = "sent" /\ Writing(request[c])
     /\ late' = late \cup {<<c, calls, request[c]>>}

\* l.34, l.45-47, l.70, l.75-77, l.90: an RPC returns an error.
Break(c) ==
  /\ c \in Lossy /\ rpc[c] # "unsent"
  /\ IF rpc[c] \in {"sent", "executed"} /\ request[c].op = "cas"
     THEN Retry(c, Reply("unheard", Nothing, 0))
     ELSE Finish(c, Reply("no", Nothing, 0))
  /\ Orphan(c)

\* The caller is dropped while it waits for the mutex or for etcd.
Drop(c) ==
  /\ c \in Lossy /\ c \in Range(Line(c))
  /\ Leave(c) /\ Unlock(c) /\ Orphan(c)
  /\ UNCHANGED revision

ExecuteLate ==
  \E l \in late :
    /\ late' = late \ {l}
    /\ Execute(l[3])
    /\ UNCHANGED <<request, reply, calls, queue, rpc, outcome>>

Back(c) == Return(c) /\ UNCHANGED etcdVars

Progress(c) == Send(c) \/ ExecuteSent(c) \/ ExecuteGet(c) \/ Receive(c) \/ Back(c)

Next ==
  \/ \E c \in Callers : Enter(c) \/ Progress(c) \/ Break(c) \/ Drop(c)
  \/ ExecuteLate

Spec == Init /\ [][Next]_vars

\* Tokio runs what is ready, and every RPC is answered or fails.
FairSpec == Spec /\ \A c \in Callers : WF_vars(Progress(c))

-----------------------------------------------------------------------------
\* One RPC at a time and replica, that of the first of the line; a task is in
\* its line as long as its call has no answer; revisions are given once.
TypeOK ==
  /\ CallsTypeOK
  /\ rpc \in [Callers -> Stages] /\ outcome \in [Callers -> Replies]
  /\ revision \in Nat \ {0}
  /\ \A v \in written : v <= revision
  /\ late \subseteq Lossy \X (0..MaxCalls) \X (Puts \cup Swaps(written))
  /\ queue \in [Replicas -> Seq(Callers)]
  /\ \A r \in Replicas : IsInjective(queue[r])
  /\ \A c \in Callers :
       /\ c \in Range(Line(c)) <=> request[c] # Idle /\ reply[c] = Pending
       /\ request[c] = Idle => reply[c] = Pending
       /\ rpc[c] # "unsent" => Line(c) # <<>> /\ Head(Line(c)) = c

\* Calls whose write etcd has still to execute.
Owing ==
  {c \in Callers : /\ request[c] # Idle /\ reply[c] = Pending /\ Writing(request[c])
                   /\ rpc[c] \in {"unsent", "sent"}}

\* No call is executed twice, by itself or by the request it left behind.
OneWriteACall ==
  IsFiniteSet(late) /\ revision + Cardinality(Owing) + Cardinality(late) <= calls + 1

\* A cas that did not succeed cannot succeed any more while it asks why.
LostForGood ==
  \A c \in Callers :
    /\ rpc[c] \in {"resent", "read"} => request[c].op = "cas"
    /\ rpc[c] = "executed" =>
         \/ outcome[c].status = "ok"
         \/ outcome[c].status = "no" /\ (Refused(c) => ~Matches(request[c], EntryOf(request[c])))
    /\ rpc[c] = "resent" =>
         \/ outcome[c] = Pending /\ ~Matches(request[c], EntryOf(request[c]))
         \/ outcome[c].status = "unheard" /\ c \in Lossy
    /\ rpc[c] = "read" => outcome[c].status = "no"

IInv == TypeOK /\ OneWriteACall /\ LostForGood

\* A write is done for its store when etcd has executed it, a failed cas when
\* its second get has been.
ReplyOf(c) ==
  CASE rpc[c] \in {"unsent", "sent"} -> reply[c]
    [] Refused(c) -> Pending
    [] OTHER -> outcome[c]

Promise == INSTANCE StateStore WITH
  reply <- [c \in Callers |-> ReplyOf(c)],
  Versions <- 2..(MaxCalls + 1)

\* Replicas race, calls fail half way and leave writes behind, and a conflict
\* is told by a second RPC, after the world has moved on: the store still
\* behaves as if every call took effect at most once, at one instant, and what
\* a conflict reports is never the version the caller came with.
IsStateStore == Promise!Spec

\* No call waits for the mutex, or for an answer, for ever.
EveryCallReturns == \A c \in Callers : request[c] # Idle ~> request[c] = Idle
=============================================================================
