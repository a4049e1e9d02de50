----------------------------- MODULE LocalStore -----------------------------
(***************************************************************************)
(* The in-process store, src/store/local.rs: a map behind a mutex and an   *)
(* atomic counter that hands out versions.  get and cas hold the mutex     *)
(* from beginning to end; put takes its version before it locks (l.39-40), *)
(* so other calls may come between.                                        *)
(***************************************************************************)
EXTENDS StoreCalls

VARIABLES
  counter,   \* next version
  stamp      \* stamp[c]: version a put of c has taken and not yet stored, or 0

vars == <<callVars, counter, stamp>>

Init ==
  /\ CallsInit
  /\ counter = 1
  /\ stamp = [c \in Callers |-> 0]

Waits(c) == request[c] # Idle /\ reply[c] = Pending

\* The bug of a counter that is read and not advanced.
CountStays == counter' = counter

\* fetch_add of next_version (l.27-29, l.55).
CountUp == counter' = counter + 1

Get(c) ==
  /\ Waits(c) /\ request[c].op = "get"
  /\ Answer(c, Found(request[c], EntryOf(request[c])))
  /\ UNCHANGED <<data, written, request, calls, counter, stamp>>

\* The default of the trait.
PingHere(c) ==
  /\ Waits(c) /\ request[c].op = "ping"
  /\ Answer(c, Reply("ok", Nothing, 0))
  /\ UNCHANGED <<data, written, request, calls, counter, stamp>>

\* l.39
PutStamp(c) ==
  /\ Waits(c) /\ request[c].op = "put" /\ stamp[c] = 0
  /\ stamp' = [stamp EXCEPT ![c] = counter]
  /\ CountUp
  /\ UNCHANGED callVars

\* l.40-41
PutInsert(c) ==
  /\ stamp[c] # 0
  /\ Install(request[c], stamp[c])
  /\ Answer(c, Reply("ok", Nothing, stamp[c]))
  /\ stamp' = [stamp EXCEPT ![c] = 0]
  /\ UNCHANGED <<request, calls, counter>>

\* The bug of a None that is taken for "whatever is there".
AgreesWithAny(r) == r.expected = 0 \/ Matches(r, EntryOf(r))

\* l.48-52
Agrees(r) == Matches(r, EntryOf(r))

\* l.54-57
CasStore(c) ==
  /\ Waits(c) /\ request[c].op = "cas" /\ Agrees(request[c])
  /\ Install(request[c], counter)
  /\ CountUp
  /\ Answer(c, Reply("ok", Nothing, counter))
  /\ UNCHANGED <<request, calls, stamp>>

\* l.58-60
CasRefuse(c) ==
  /\ Waits(c) /\ request[c].op = "cas" /\ ~Agrees(request[c])
  /\ Answer(c, Found(request[c], EntryOf(request[c])))
  /\ UNCHANGED <<data, written, request, calls, counter, stamp>>

Next ==
  \E c \in Callers :
    \/ Call(c) /\ UNCHANGED <<counter, stamp>>
    \/ Return(c) /\ UNCHANGED <<counter, stamp>>
    \/ Get(c)
    \/ PingHere(c)
    \/ PutStamp(c)
    \/ PutInsert(c)
    \/ CasStore(c)
    \/ CasRefuse(c)

Spec == Init /\ [][Next]_vars

-----------------------------------------------------------------------------
\* Versions come from the counter, each for one write, stored or about to be.
TypeOK ==
  /\ CallsTypeOK
  /\ counter \in Nat \ {0}
  /\ stamp \in [Callers -> Nat]
  /\ \A v \in written : v < counter
  /\ \A c \in Callers : stamp[c] # 0 =>
       /\ stamp[c] < counter /\ stamp[c] \notin written
       /\ request[c].op = "put" /\ reply[c] = Pending
  /\ \A c, d \in Callers : stamp[c] # 0 /\ stamp[c] = stamp[d] => c = d

\* Calls that have still to take the version of their write.
Owing == {c \in Callers : Waits(c) /\ Writing(request[c]) /\ stamp[c] = 0}

\* No call takes two versions, however it meets the others.
IInv == TypeOK /\ counter + Cardinality(Owing) <= calls + 1

Promise == INSTANCE StateStore WITH
  Lossy <- {}, late <- {}, Versions <- 1..MaxCalls

\* Whatever order threads take the mutex in, the store behaves as if every
\* call took effect at once, with versions that no two writes share: no cas
\* of a limiter writes over an entry it has not read.
IsStateStore == Promise!Spec
=============================================================================
