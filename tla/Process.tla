------------------------------ MODULE Process -------------------------------
(***************************************************************************)
(* The life of the server process (src/main.rs): configuration, store and  *)
(* limiter, the TCP socket, then the HTTP socket beside the TCP server in  *)
(* one select, which the first of the two to end takes the process with.   *)
(***************************************************************************)
EXTENDS Naturals

CONSTANTS
  Configs,    \* configurations: etcd or none, strict_security or not
  Secrets,    \* RATE_LIMIT_HMAC_SECRET, if it is set and not empty
  MaxExits    \* bound: ends of the process

VARIABLES
  config,   \* what config.yaml says
  phase,    \* how far main has come
  exits     \* ends of the process so far

process == <<config, phase, exits>>

Phases == {"down", "built", "bound", "serving"}

\* The kernel completes connections from l.97 on, tasks for them run from l.120 on.
Listening == phase \in {"bound", "serving"}

\* l.102-118
HmacSecret == IF config.strict_security THEN Secrets ELSE {}

\* Deviation of Forgets: what is stored in etcd is lost as well.
ForgetsAll == TRUE

\* The local store is in the process (l.46-59).
Forgets == ~config.etcd

\* Store and limiter (l.40-91), the TCP socket (l.97), the HTTP socket (l.120-122).
Advance ==
  /\ \/ phase = "down" /\ phase' = "built"
     \/ phase = "built" /\ phase' = "bound"
     \/ phase = "bound" /\ phase' = "serving"
  /\ UNCHANGED <<config, exits>>

\* An error of main or of a server, or a kill; the deployment starts it again.
End ==
  /\ phase # "down" /\ exits < MaxExits
  /\ phase' = "down" /\ exits' = exits + 1
  /\ UNCHANGED config

ProcessInit == config \in Configs /\ phase = "down" /\ exits = 0
=============================================================================
