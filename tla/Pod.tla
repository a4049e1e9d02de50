-------------------------------- MODULE Pod ---------------------------------
(***************************************************************************)
(* A replica in Kubernetes (k8s/rate-limiter-statefulset.yaml, the same in *)
(* helm/): the server process, an etcd that comes and goes, and a kubelet  *)
(* that probes the process and sends it traffic while it is ready.         *)
(***************************************************************************)
EXTENDS Process, Sequences

CONSTANT ReadinessRoute   \* method and path of the readinessProbe

VARIABLES
  reachable,   \* external: etcd answers
  endpoint     \* whether the pod is among the endpoints of its Service

vars == <<process, reachable, endpoint>>

\* EtcdStore::ping; a local store answers always.
StorePing == config.etcd => reachable

\* The routes of http_server.rs l.200-205 and their probes (l.102-121); a path
\* that is there for another method is answered 405.
Status(method, path) ==
  CASE path \in {"/health/startup", "/health/live"} /\ method = "GET" -> 200
    [] path = "/health/ready" /\ method = "GET" -> IF StorePing THEN 200 ELSE 503
    [] path = "/check" /\ method = "GET" -> 405
    [] OTHER -> 404

Start == Advance /\ UNCHANGED <<reachable, endpoint>>

Exit == End /\ endpoint' = "unprobed" /\ UNCHANGED reachable

ProbeReadiness ==
  /\ phase = "serving"
  /\ endpoint' = IF Status(ReadinessRoute[1], ReadinessRoute[2]) = 200 THEN "in" ELSE "out"
  /\ UNCHANGED <<process, reachable>>

Partition == reachable' = ~reachable /\ UNCHANGED <<process, endpoint>>

Init == ProcessInit /\ reachable = TRUE /\ endpoint = "unprobed"

Next == Start \/ Exit \/ ProbeReadiness \/ Partition

Spec == Init /\ [][Next]_vars

(* "/health/ready: 200 when the backing store is reachable; 503 otherwise. *)
(* Maps to k8s readinessProbe" (http_server.rs l.17-19): a probe makes the *)
(* pod an endpoint if its store answers, and only then.                    *)
ReadinessFollowsStore ==
  [][ProbeReadiness => (endpoint' = "in" <=> StorePing)]_vars
=============================================================================
