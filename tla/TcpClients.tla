----------------------------- MODULE TcpClients -----------------------------
(***************************************************************************)
(* The TCP peers of the server.  A command-line client (src/bin/client.rs) *)
(* sends a request, reads its answer, sends the next, and ends at the      *)
(* first error.  An application (clients/python: client.py under           *)
(* middleware.py) does the same for the requests it is asked to serve, one *)
(* at a time since check() blocks its event loop, but goes on after an     *)
(* error and never replaces its connection.  A peer of other make may send *)
(* a second request ahead, and frames that are none.                       *)
(***************************************************************************)
EXTENDS TcpServer

CONSTANTS
  Apps,       \* clients that are Python applications
  Foreign,    \* peers that are not of this repository
  Costs,      \* costs a request may carry
  MaxSends    \* bound: requests made, over TCP and HTTP

ASSUME PeerAssumption ==
  Apps \subseteq Clients /\ Foreign \subseteq Clients \ Apps /\ Costs \subseteq Nat

VARIABLES
  awaited,   \* awaited[c]: the costs of the requests c waits to have answered
  sends,     \* requests made so far, by all clients
  opened,    \* history: opened[c], the exits of the server before c connected to it
  longest    \* history: longest[c], the longest frame c has written to its connection

peers == <<awaited, sends, opened, longest>>

\* No client looks at the length of a frame: the last that is taken, and the first that is not.
Lengths == {MaxMsgBytes, MaxMsgBytes + 1}

Ahead(c) == IF c \in Foreign THEN 2 ELSE 1

\* client.rs l.32, client.py l.93, to a server that ended n times before; the kernel
\* completes it before the server accepts.
Connect(c, n) ==
  /\ link[c] = "none"
  /\ link' = [link EXCEPT ![c] = "up"]
  /\ opened' = [opened EXCEPT ![c] = n]
  /\ longest' = [longest EXCEPT ![c] = 0]
  /\ UNCHANGED <<task, up, down, awaited, sends>>

\* A write to a connection the server has dropped goes nowhere.
Post(c, frame, k) ==
  /\ link[c] \in {"up", "cut"}
  /\ Len(awaited[c]) < Ahead(c) /\ sends < MaxSends
  /\ sends' = sends + 1
  /\ awaited' = [awaited EXCEPT ![c] = Append(@, k)]
  /\ up' = [up EXCEPT ![c] = IF link[c] = "up" THEN Append(@, frame) ELSE @]
  /\ longest' = [longest EXCEPT ![c] = IF link[c] = "up" /\ frame.len > @ THEN frame.len ELSE @]
  /\ UNCHANGED <<link, task, down, opened>>

\* client.rs l.41-57, client.py l.97-98
Send(c, k, len) == Post(c, Frame(len, BuildRequest(Request(c, k))), k)

\* An empty frame, and one that does not verify.
SendOther(c) ==
  /\ c \in Foreign
  /\ \E frame \in {Frame(0, BuildRequest(Request(c, 1))),
                   Frame(MaxMsgBytes, [cost |-> 2])} : Post(c, frame, 1)

\* What c learns of its oldest request.
Told(c) == ReadResponse(Head(down[c]))

\* client.rs l.60-67, client.py l.99-100
Receive(c) ==
  /\ down[c] # <<>>
  /\ awaited' = [awaited EXCEPT ![c] = Tail(@)]
  /\ down' = [down EXCEPT ![c] = Tail(@)]
  /\ UNCHANGED <<link, task, up, sends, opened, longest>>

\* A read or write finds the connection closed: client.rs l.56-65, client.py l.83-84.
Fail(c) ==
  /\ link[c] = "cut" /\ down[c] = <<>> /\ awaited[c] # <<>>
  /\ link' = [link EXCEPT ![c] = IF c \in Apps THEN "cut" ELSE "none"]
  /\ awaited' = [awaited EXCEPT ![c] = <<>>]
  /\ UNCHANGED <<task, up, down, sends, opened, longest>>

\* The client ends, in the middle of a request or not; the system closes its socket.
Quit(c) ==
  /\ link[c] \in {"up", "cut"}
  /\ link' = [link EXCEPT ![c] = IF @ = "up" THEN "half" ELSE "none"]
  /\ awaited' = [awaited EXCEPT ![c] = <<>>]
  /\ down' = [down EXCEPT ![c] = <<>>]
  /\ UNCHANGED <<task, up, sends, opened, longest>>

PeersInit ==
  /\ awaited = [c \in Clients |-> <<>>]
  /\ sends = 0
  /\ opened = [c \in Clients |-> 0]
  /\ longest = [c \in Clients |-> 0]
=============================================================================
