------------------------------ MODULE CheckLoop ------------------------------
(***************************************************************************)
(* The optimistic loop every limiter of src/algorithms/ runs in check():   *)
(*                                                                         *)
(*    for attempt in 0..5 {                                                *)
(*        if attempt > 0 { sleep(2^attempt ms) }                           *)
(*        now   = wall clock                                               *)
(*        entry = store.get(key)            -- an await                    *)
(*        evaluate the request against entry, as of now                    *)
(*        if store.cas(key, version, new entry).success { return decision }*)
(*    }                                     -- the cas is an await too     *)
(*    deny: "concurrent update, retry in 100ms"                            *)
(*                                                                         *)
(* Several tasks (Tokio tasks of one server, or of replicas that share an  *)
(* etcd) run it against ONE key: the loop never touches a second key, so   *)
(* keys do not interact.  What a limiter keeps under the key and how it    *)
(* decides are the parameters `fresh' and `out' of the actions; the module *)
(* of a limiter supplies them, and extends this one.                       *)
(***************************************************************************)
EXTENDS Integers, Decision

CONSTANTS
  Tasks,            \* the concurrent callers of check() on the key
  Costs,            \* the costs a request may carry
  MaxAttempts,      \* rounds of the loop; 5 in the code
  Drift,            \* how far behind the true time a wall clock may read
  Unreliable,       \* the tasks whose calls of an etcd, or whose callers, may be lost
  MaxClock,         \* bound: the model's time stops here
  RequestsPerTask   \* bound: requests one task makes

ASSUME CostsAssumption    == Costs \subseteq Nat
ASSUME AttemptsAssumption == MaxAttempts \in Nat \ {0}
ASSUME DriftAssumption    == Drift \in Nat
ASSUME FaultAssumption    == Unreliable \subseteq Tasks
ASSUME BoundsAssumption   == MaxClock \in Nat /\ RequestsPerTask \in Nat

VARIABLES
  clock,      \* the true time, in the unit the limiter reads it in
  entry,      \* the state stored under the key (meaningless while absent)
  version,    \* its version; 0 while the key is absent
  pc,         \* where each task stands in check()
  attempt,    \* rounds the current check has lost
  now,        \* the clock reading of the current round
  cost,       \* the cost of the current request
  snap,       \* the state the current round evaluates
  expected,   \* the version it was read with; 0 stands for None
  reply,      \* the Decision last returned to each task
  start,      \* history: time and version when the current check began
  served      \* requests each task has begun

store == <<entry, version>>
local == <<pc, attempt, now, cost, snap, expected>>
loopVars == <<clock, store, local, reply, start, served>>

Labels == {"idle", "get", "cas", "backoff"}

\* What the wall clock of some host may show.
Readings == {n \in 0..clock : clock <= n + Drift}

\* A request of some client reaches check(), which reads the clock for its first round.
Begin(t, c) ==
  /\ pc[t] = "idle"
  /\ served[t] < RequestsPerTask
  /\ served' = [served EXCEPT ![t] = @ + 1]
  /\ start' = [start EXCEPT ![t] = [clock |-> clock, version |-> version]]
  /\ cost' = [cost EXCEPT ![t] = c]
  /\ attempt' = [attempt EXCEPT ![t] = 0]
  /\ reply' = [reply EXCEPT ![t] = NoReply]
  /\ \E n \in Readings : now' = [now EXCEPT ![t] = n]
  /\ pc' = [pc EXCEPT ![t] = "get"]
  /\ UNCHANGED <<clock, store, snap, expected>>

\* Deviation of Wake: the next round repeats the cas without a new get.
WakeWithoutGet(t) ==
  /\ pc[t] = "backoff"
  /\ pc' = [pc EXCEPT ![t] = "cas"]
  /\ UNCHANGED <<clock, store, attempt, now, cost, snap, expected, reply, start, served>>

\* The sleep of a lost round ends and the next round reads the clock again.
Wake(t) ==
  /\ pc[t] = "backoff"
  /\ \E n \in Readings : now' = [now EXCEPT ![t] = n]
  /\ pc' = [pc EXCEPT ![t] = "get"]
  /\ UNCHANGED <<clock, store, attempt, cost, snap, expected, reply, start, served>>

\* store.get answers.  An etcd call that fails reads as an absent key.
Get(t, fresh) ==
  /\ pc[t] = "get"
  /\ \/ /\ version > 0
        /\ snap' = [snap EXCEPT ![t] = entry]
        /\ expected' = [expected EXCEPT ![t] = version]
     \/ /\ version = 0 \/ t \in Unreliable
        /\ snap' = [snap EXCEPT ![t] = fresh]
        /\ expected' = [expected EXCEPT ![t] = 0]
  /\ pc' = [pc EXCEPT ![t] = "cas"]
  /\ UNCHANGED <<clock, store, attempt, now, cost, reply, start, served>>

\* Deviation of Write: a put where the code has a cas.
WriteUnguarded(t, out) ==
  /\ pc[t] = "cas"
  /\ entry' = out.state
  /\ version' = version + 1

\* store.cas finds the version it expects and writes.
Write(t, out) ==
  /\ pc[t] = "cas"
  /\ expected[t] = version
  /\ entry' = out.state
  /\ version' = version + 1

\* The cas succeeded and the task knows: check() returns the decision.
Commit(t, out) ==
  /\ Write(t, out)
  /\ reply' = [reply EXCEPT ![t] = Answer(out, version + 1)]
  /\ pc' = [pc EXCEPT ![t] = "idle"]
  /\ UNCHANGED <<clock, attempt, now, cost, snap, expected, start, served>>

\* Deviation of LoseRound: the round is not counted.
LoseRoundUncounted(t, v) ==
  /\ pc' = [pc EXCEPT ![t] = "backoff"]
  /\ UNCHANGED <<clock, attempt, now, cost, snap, expected, reply, start, served>>

\* The round is lost, with the key at version v: sleep and start another, or give up.
LoseRound(t, v) ==
  /\ attempt' = [attempt EXCEPT ![t] = @ + 1]
  /\ IF attempt[t] + 1 < MaxAttempts
       THEN /\ pc' = [pc EXCEPT ![t] = "backoff"]
            /\ UNCHANGED reply
       ELSE /\ pc' = [pc EXCEPT ![t] = "idle"]
            /\ reply' = [reply EXCEPT ![t] = Contended(v)]
  /\ UNCHANGED <<clock, now, cost, snap, expected, start, served>>

\* The cas finds another version, or etcd fails before the transaction is applied.
Conflict(t) ==
  /\ pc[t] = "cas"
  /\ expected[t] # version \/ t \in Unreliable
  /\ LoseRound(t, version)
  /\ UNCHANGED store

\* etcd applies the transaction but its answer is lost: cas reports a failure.
CommitUnseen(t, out) ==
  /\ t \in Unreliable
  /\ Write(t, out)
  /\ LoseRound(t, version + 1)

\* The HTTP client hangs up and the handler is dropped at one of its awaits.
Abandon(t) ==
  /\ t \in Unreliable
  /\ pc[t] # "idle"
  /\ pc' = [pc EXCEPT ![t] = "idle"]
  /\ UNCHANGED <<clock, store, attempt, now, cost, snap, expected, reply, start, served>>

Tick ==
  /\ clock < MaxClock
  /\ clock' = clock + 1
  /\ UNCHANGED <<store, local, reply, start, served>>

LoopInit(nothing) ==
  /\ clock = 0
  /\ entry = nothing
  /\ version = 0
  /\ pc = [t \in Tasks |-> "idle"]
  /\ attempt = [t \in Tasks |-> 0]
  /\ now = [t \in Tasks |-> 0]
  /\ cost = [t \in Tasks |-> 0]
  /\ snap = [t \in Tasks |-> nothing]
  /\ expected = [t \in Tasks |-> 0]
  /\ reply = [t \in Tasks |-> NoReply]
  /\ start = [t \in Tasks |-> [clock |-> 0, version |-> 0]]
  /\ served = [t \in Tasks |-> 0]

\* Every variable has its type, S being the states the limiter stores.
LoopTypeOK(S) ==
  /\ clock \in Nat
  /\ entry \in S
  /\ version \in Nat
  /\ pc \in [Tasks -> Labels]
  /\ attempt \in [Tasks -> 0..MaxAttempts]
  /\ now \in [Tasks -> Nat]
  /\ cost \in [Tasks -> Nat]
  /\ snap \in [Tasks -> S]
  /\ expected \in [Tasks -> Nat]
  /\ reply \in [Tasks -> Replies]
  /\ start \in [Tasks -> [clock : Nat, version : Nat]]
  /\ served \in [Tasks -> Nat]

\* What a round knows of the past: its reading is at most Drift older than the
\* check itself, and every round lost so far was lost to another writer.
RoundsInOrder ==
  \A t \in Tasks :
    /\ now[t] <= clock
    /\ start[t].clock <= clock /\ start[t].version <= version
    /\ pc[t] # "idle" => start[t].clock <= now[t] + Drift
    /\ pc[t] \in {"get", "cas", "backoff"} => attempt[t] < MaxAttempts
    /\ pc[t] = "cas" => expected[t] <= version
    /\ t \notin Unreliable =>
         /\ attempt[t] + start[t].version <= version
         /\ pc[t] = "cas" => attempt[t] + start[t].version <= expected[t]

(* A check is refused for contention only if MaxAttempts others wrote the  *)
(* key while it ran (fixed_window.rs l.98-104): a task whose calls are     *)
(* answered never loses a round to nobody.                                 *)
ContentionHasCause ==
  \A t \in Tasks :
    reply[t].verdict = "contended" /\ t \notin Unreliable
      => start[t].version + MaxAttempts <= reply[t].stamp
=============================================================================
