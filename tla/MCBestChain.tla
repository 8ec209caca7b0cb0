---------------------------- MODULE MCBestChain ----------------------------
(* An instance of BestChain for TLC: g <- a1 <- a2, g <- a1 <- c2, g <- b1. *)
EXTENDS BestChain, TLC

CONSTANTS g, a1, a2, b1, c2, t1, t2

MCBlock == {g, a1, a2, b1, c2}
MCPrev == a1 :> g @@ a2 :> a1 @@ c2 :> a1 @@ b1 :> g
MCProof == [b \in MCBlock |-> IF b \in {a2, b1} THEN 2 ELSE 1]
MCAddress == g :> 1 @@ a1 :> 3 @@ a2 :> 2 @@ b1 :> 4 @@ c2 :> 5
MCMinSequenceId == -2
AllValid == [b \in MCBlock |-> "valid"]
MCVerdict ==
    {AllValid, [AllValid EXCEPT ![a2] = "invalid"],
     [AllValid EXCEPT ![a1] = "malformed"], [AllValid EXCEPT ![b1] = "invalid"]}

\* The threads make the same calls.
ThreadSymmetry == Permutations({t1, t2})
=============================================================================
