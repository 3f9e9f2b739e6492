----------------------------- MODULE MCDialFork -----------------------------
(* Two SIP branches that ring together, then one in a sequential tier.      *)
EXTENDS DialFork, TLC

CONSTANTS b1, b2, b3

MCTwoTiers == (b1 :> 1) @@ (b2 :> 1) @@ (b3 :> 2)
MCRank == (b1 :> 1) @@ (b2 :> 2) @@ (b3 :> 3)
=============================================================================
