SPECIFICATION Spec
CONSTANTS
    tag = tag
    subtag = subtag
    A = A
    U = U
    v1 = v1
    v2 = v2
    None = None
    Gone = Gone
    Key <- MCKey
    Root <- MCRoot
    Name = {A, U}
    Username = {U}
    Verifier = {v1, v2}
    Data <- MCData
    Block <- MCBlock
    MaxHeight = 3
INVARIANTS
    TypeOK
    FlagsExact
    
    
    VerifierExact
    LruCoherent
    
