SPECIFICATION Spec
CONSTANTS
    tag = tag
    subtag = subtag
    A = A
    U = U
    v1 = v1
    v2 = v2
    None = None
    Gone = Gone
    Key <- MCKey
    Root <- MCRoot
    Name = {A}
    Username = {}
    Verifier = {v1, v2}
    Data <- MCData
    Block <- QualifierBlock
    MaxHeight = 3
INVARIANT RootQualifierExact
