----------------------------- MODULE StateStore -----------------------------
(***************************************************************************)
(* What the limiters rely on when they call a store (src/store/mod.rs      *)
(* l.15-41): every call takes effect in one instant between its entry and  *)
(* its return, a write gives its key a version no entry had before, and a  *)
(* cas writes only over the entry whose version it names.                  *)
(*                                                                         *)
(* Calls of callers in Lossy may be dropped or fail.  Such a call answers  *)
(* as if nothing was there, may have taken effect all the same, and may    *)
(* still do so when its caller has long gone on; it does so at most once.  *)
(***************************************************************************)
EXTENDS StoreCalls

CONSTANTS
  Lossy,     \* callers whose calls may fail
  Versions   \* the versions a store hands out

VARIABLE late   \* writes under way whose callers no longer wait: <<caller, number, request>>

vars == <<callVars, late>>

Init == CallsInit /\ late = {}

Waits(c) == request[c] # Idle /\ reply[c] = Pending

Read(c) ==
  /\ Waits(c)
  /\ Writing(request[c]) => ~Matches(request[c], EntryOf(request[c]))
  /\ Answer(c, Found(request[c], EntryOf(request[c])))
  /\ UNCHANGED <<data, written, request, calls, late>>

Write(c) ==
  /\ Waits(c)
  /\ Writing(request[c]) /\ Matches(request[c], EntryOf(request[c]))
  /\ \E v \in Versions \ written :
       /\ Install(request[c], v)
       /\ Answer(c, Reply("ok", Nothing, v))
  /\ UNCHANGED <<request, calls, late>>

\* A write that had no effect yet may have it later, or never.
Forget(c) ==
  \/ UNCHANGED late
  \/ /\ Waits(c) /\ Writing(request[c])
     /\ late' = late \cup {<<c, calls, request[c]>>}

\* The answer is lost, or will not come.  A cas asks for the current version.
Fail(c) ==
  /\ c \in Lossy /\ request[c] # Idle
  /\ \E s \in {"unheard", "no"}, v \in {0, EntryOf(request[c]).version} :
       /\ v # 0 => request[c].op = "cas"
       /\ Answer(c, Reply(s, Nothing, v))
  /\ Forget(c)
  /\ UNCHANGED <<data, written, request, calls>>

Drop(c) == c \in Lossy /\ request[c] # Idle /\ Leave(c) /\ Forget(c)

LateWrite ==
  \E l \in late :
    /\ late' = late \ {l}
    /\ IF Matches(l[3], EntryOf(l[3]))
       THEN \E v \in Versions \ written : Install(l[3], v)
       ELSE UNCHANGED <<data, written>>
    /\ UNCHANGED <<request, reply, calls>>

Next ==
  \/ \E c \in Callers :
       \/ Call(c) /\ UNCHANGED late
       \/ Return(c) /\ UNCHANGED late
       \/ Read(c)
       \/ Write(c)
       \/ Fail(c)
       \/ Drop(c)
  \/ LateWrite

Spec == Init /\ [][Next]_vars
=============================================================================
