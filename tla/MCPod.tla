------------------------------- MODULE MCPod --------------------------------
(* The configuration and the probe of the manifests, for TLC. *)
EXTENDS Pod

ManifestConfigs == {[etcd |-> TRUE, strict_security |-> TRUE]}
ManifestRoute == <<"GET", "/check">>
=============================================================================
