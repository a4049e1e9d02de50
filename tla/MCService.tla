----------------------------- MODULE MCService ------------------------------
(***************************************************************************)
(* A small instance of Service for TLC: the limiter is a token bucket of   *)
(* Capacity units, of which only the operators are taken.                  *)
(***************************************************************************)
EXTENDS Service

CONSTANTS Capacity, Rate, Unit

Bucket == INSTANCE TokenBucket WITH
  Drift <- 0, MaxClock <- 0, RequestsPerTask <- 0, clock <- 0,
  pc <- 0, attempt <- 0, now <- 0, snap <- 0, expected <- 0,
  base <- 0, rewound <- 0, charged <- 0

BucketNothing == Bucket!Fresh(0)
BucketFresh(n) == Bucket!Fresh(n)
BucketEvaluate(s, n, c) == Bucket!Evaluate(s, n, c)

\* No time passes, and tokens are taken whole.
BucketStates == [tokens : {n * Unit : n \in 0..(Capacity \div Unit)}, last : {0}]
BucketRoom(s) == s.tokens \div Unit

\* A bucket's waits are long enough.
ASSUME WaitsSuffice

AllConfigs == {[etcd |-> TRUE, strict_security |-> TRUE], [etcd |-> FALSE, strict_security |-> FALSE]}
=============================================================================
