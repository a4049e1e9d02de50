----------------------------- MODULE TcpServer ------------------------------
(***************************************************************************)
(* The TCP server (src/server.rs): one task per connection, which reads a  *)
(* frame, has it checked, writes the answer, and reads the next.  An       *)
(* action is what the task does between two awaits that others can tell    *)
(* apart: the two reads of a frame share nothing with anybody, and a frame *)
(* whose sender closed before its end is as good as none (l.64, l.75).     *)
(* The check itself is the limiter's; Service puts the two together.       *)
(***************************************************************************)
EXTENDS Messages, Sequences

CONSTANTS
  Clients,       \* TCP peers, each with one connection at a time
  MaxMsgBytes    \* MAX_MSG_BYTES

ASSUME FrameAssumption == MaxMsgBytes \in Nat \ {0}

VARIABLES
  link,   \* link[c]: "none"; "up"; "half", the client closed; "cut", the server did
  task,   \* task[c]: what handle_conn does for c; "none" before accept and after
  up,     \* up[c]: frames written by c and not yet read
  down    \* down[c]: tables of answers written to c and not yet read

wire == <<link, task, up, down>>

\* len, the length prefix, and the table the body holds.
Frame(len, table) == [len |-> len, table |-> table]

\* Deviation of Acceptable: the largest length is refused too.
AcceptableBelowMax(frame) ==
  frame.len \in 1..(MaxMsgBytes - 1) /\ Verifies(frame.table)

\* l.69 and l.77
Acceptable(frame) == frame.len \in 1..MaxMsgBytes /\ Verifies(frame.table)

\* handle_conn returns and drops its stream.  A reset may overtake answers.
HangUp(c) ==
  /\ task' = [task EXCEPT ![c] = "none"]
  /\ link' = [link EXCEPT ![c] = IF @ = "half" THEN "none" ELSE "cut"]
  /\ up' = [up EXCEPT ![c] = <<>>]
  /\ \E kept \in {down[c], <<>>} : down' = [down EXCEPT ![c] = kept]

\* The spawn of l.47.
Accept(c) ==
  /\ link[c] \in {"up", "half"} /\ task[c] = "none"
  /\ task' = [task EXCEPT ![c] = "reading"]
  /\ UNCHANGED <<link, up, down>>

\* Deviation of TakeRequest: the next frame is read while one is checked.
TakeRequestEarly(c) ==
  /\ task[c] \in {"reading", "checking"} /\ up[c] # <<>> /\ Acceptable(Head(up[c]))
  /\ task' = [task EXCEPT ![c] = "checking"]
  /\ up' = [up EXCEPT ![c] = Tail(@)]
  /\ UNCHANGED <<link, down>>

\* l.61-83: a request arrives whole, and its check begins.
TakeRequest(c) ==
  /\ task[c] = "reading" /\ up[c] # <<>> /\ Acceptable(Head(up[c]))
  /\ task' = [task EXCEPT ![c] = "checking"]
  /\ up' = [up EXCEPT ![c] = Tail(@)]
  /\ UNCHANGED <<link, down>>

\* Deviation of RefuseFrame: the frame is skipped and the connection stays.
SkipFrame(c) ==
  /\ task[c] = "reading" /\ up[c] # <<>> /\ ~Acceptable(Head(up[c]))
  /\ up' = [up EXCEPT ![c] = Tail(@)]
  /\ UNCHANGED <<link, task, down>>

\* l.69-72 and l.86-89
RefuseFrame(c) ==
  /\ task[c] = "reading" /\ up[c] # <<>> /\ ~Acceptable(Head(up[c]))
  /\ HangUp(c)

\* l.64-65 and l.75
EndOfStream(c) ==
  /\ task[c] = "reading" /\ up[c] = <<>> /\ link[c] = "half"
  /\ HangUp(c)

\* l.84 and l.92-94, with decision d; a client that is gone may make the write fail.
WriteAnswer(c, d) ==
  /\ task[c] = "checking"
  /\ \/ /\ task' = [task EXCEPT ![c] = "reading"]
        /\ down' = [down EXCEPT ![c] = IF link[c] = "up" THEN Append(@, BuildResponse(d)) ELSE @]
        /\ UNCHANGED <<link, up>>
     \/ link[c] = "half" /\ HangUp(c)

WireInit ==
  /\ link = [c \in Clients |-> "none"]
  /\ task = [c \in Clients |-> "none"]
  /\ up = [c \in Clients |-> <<>>]
  /\ down = [c \in Clients |-> <<>>]
=============================================================================
