------------------------------ MODULE Messages ------------------------------
(***************************************************************************)
(* The FlatBuffers messages of the TCP protocol (src/flatbuf/mod.rs).  A   *)
(* table on the wire has a slot for each field that was written: a builder *)
(* leaves a number or a flag out when it has its default, and a reader     *)
(* gives the default of a field it does not find.  Names of resources and  *)
(* the wording of `reason' are left out.                                   *)
(***************************************************************************)
EXTENDS Decision

\* push_slot leaves a default out, push_slot_always has none to leave out.
Build(message, defaults) ==
  LET written == {f \in DOMAIN message : f \in DOMAIN defaults => message[f] # defaults[f]}
  IN  [f \in written |-> message[f]]

Read(table, defaults) ==
  [f \in DOMAIN defaults |-> IF f \in DOMAIN table THEN table[f] ELSE defaults[f]]

Request(id, c) == [client_id |-> id, cost |-> c]

BuildRequest(q) == Build(q, [cost |-> 1])

\* The verifier of a request: client_id is required (l.96-118).
Verifies(table) == "client_id" \in DOMAIN table

\* With the fallbacks of server.rs l.79-81.
ReadRequest(table) == Read(table, [client_id |-> "unknown", cost |-> 1])

\* The part of a decision its caller is told.
Shown(d) ==
  [allowed |-> d.verdict = "allowed", remaining |-> d.remaining, retry_after_ms |-> d.wait]

BuildResponse(d) ==
  Build(Shown(d), [allowed |-> FALSE, remaining |-> 0, retry_after_ms |-> 0])

\* Deviation of ReadResponse: an answer without a flag is taken for an allowed one.
ReadResponseAsAllowed(table) ==
  Read(table, [allowed |-> TRUE, remaining |-> 0, retry_after_ms |-> 0])

\* The verifier of a response requires no field (l.263-278).
ReadResponse(table) ==
  Read(table, [allowed |-> FALSE, remaining |-> 0, retry_after_ms |-> 0])
=============================================================================
