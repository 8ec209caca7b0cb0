---------------------------- MODULE MCCoinsFlush ----------------------------
(***************************************************************************)
(* CoinsFlush for TLC.  The first coinbase pays two rival transactions t1  *)
(* and t2, and t3 spends an output of t1, in the same block or later.      *)
(***************************************************************************)
EXTENDS CoinsFlush

CONSTANTS c1, c2, c3, t1, t2, t3

MCTx == {c1, c2, c3, t1, t2, t3}
MCIns == [t \in MCTx |-> CASE t \in {t1, t2} -> {c1}
                           [] t = t3 -> {t1}
                           [] OTHER -> {}]
\* Each transaction has one output, named after it.
MCOuts == [t \in MCTx |-> {t}]
MCCoinbase == [h \in 1..MaxHeight |-> CASE h = 1 -> c1 [] h = 2 -> c2 [] OTHER -> c3]
MCBody == {<<>>, <<t1>>, <<t2>>, <<t3>>, <<t1, t3>>}
=============================================================================
