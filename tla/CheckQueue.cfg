SPECIFICATION FairSpec

CONSTANTS
    Worker = {w1, w2}
    Master = {m1}
    Check = {c1, c2, c3, c4}
    Bad = {c4}
    nBatchSize = 2
    None = None

INVARIANTS FinishedBeforeContinuing ResultExact 
PROPERTIES WaitReturns
