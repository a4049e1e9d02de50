---------------------------- MODULE MCEtcdStore -----------------------------
(* Three tasks of two replicas, for TLC. *)
EXTENDS EtcdStore

CONSTANTS t1, t2, t3, r1, r2

\* t1 and t2 share a client.
Homes == [c \in Callers |-> IF c = t3 THEN r2 ELSE r1]
=============================================================================
