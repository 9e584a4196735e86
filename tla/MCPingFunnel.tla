---------------------------- MODULE MCPingFunnel ----------------------------
(* Instances of PingFunnel: two sessions of requests, at most two steps. *)
EXTENDS PingFunnel, TLC

CONSTANTS r1, r2

Symmetry == Permutations({r1, r2})
=============================================================================
