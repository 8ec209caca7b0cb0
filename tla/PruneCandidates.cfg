SPECIFICATION Spec
CONSTANTS
    g = g
    a1 = a1
    a2 = a2
    b1 = b1
    c2 = c2
    None = None
    Out = Out
    Block <- MCBlock
    Genesis = g
    Prev <- MCPrev
    Proof <- MCProof
    Address <- MCAddress
    Verdict <- MCVerdict
    Thread = {t1, t2}
    t1 = t1
    t2 = t2
    MinSequenceId <- MCMinSequenceId
    MaxCalls = 1
INVARIANTS
    NeverAborts
