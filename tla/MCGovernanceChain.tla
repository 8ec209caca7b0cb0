------------------------- MODULE MCGovernanceChain --------------------------
(* Small instances of GovernanceChain. *)
EXTENDS GovernanceChain

CONSTANTS s1, s2

MCInitCost == [t \in CostType |-> 1]

Cost(t, a) == [kind |-> "COST", type |-> t, amount |-> a]
Fee(s) == [kind |-> "FEE", script |-> s]
Freeze(s) == [kind |-> "FREEZE", script |-> s]
Unfreeze(s) == [kind |-> "UNFREEZE", script |-> s]
Authorize(s) == [kind |-> "AUTHORIZATION", script |-> s]
Unauthorize(s) == [kind |-> "UNAUTHORIZATION", script |-> s]
Plain(vout) == [coinstake |-> FALSE, vout |-> vout]
Stake(vout) == [coinstake |-> TRUE, vout |-> vout]

\* Two blocks that share scripts, cost types and heights: two updates of one
\* type in a block, a type UpdateCost refuses, a fee script, opposite outputs on
\* one script in one transaction and in one block, outputs that repeat the other
\* block's, the master key, a coinstake.
Blocks ==
    { <<Plain(<<Freeze(s2), Authorize(s2), Unfreeze(MasterKey), Cost("root", 2)>>),
        Plain(<<Cost("root", 1)>>)>>,
      <<Stake(<<Authorize(s2)>>),
        Plain(<<Unfreeze(s2), Cost("msg_channel", 2), Fee(s2)>>),
        Plain(<<Unauthorize(s2), Freeze(s2)>>)>> }

=============================================================================
