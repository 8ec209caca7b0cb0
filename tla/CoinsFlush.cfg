\* Chains of up to three blocks above genesis, any number of crashes.
CONSTANTS
    c1 = c1
    c2 = c2
    c3 = c3
    t1 = t1
    t2 = t2
    t3 = t3
    Outpoint <- MCTx
    Tx <- MCTx
    Ins <- MCIns
    Outs <- MCOuts
    Coinbase <- MCCoinbase
    Body <- MCBody
    MaxHeight = 3
    Null = Null
SPECIFICATION FairSpec
INVARIANTS DatabaseExact CoinsExact DisconnectsCleanly ReplaysToSameHead
PROPERTIES EventuallyConsistent
