---------------------------- MODULE MCThreadPool ----------------------------
(* Pools of one and of two workers, and two unlike producers, for TLC. *)
EXTENDS ThreadPool, TLC

CONSTANTS p1, p2, w1, w2

MCMaxPosts == <<3, 2>>
MCPools    == {{w1}, {w1, w2}}
MCPolicies == (p1 :> {"block", "overrun_oldest"}) @@ (p2 :> {"block", "discard_new"})
MCCalls    == (p1 :> {"log"}) @@ (p2 :> {"urgent", "flush"})
=============================================================================
