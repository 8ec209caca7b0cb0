SPECIFICATION Spec

CONSTANTS
    s1 = s1
    s2 = s2
    Dummy = dummy
    MasterKey = s1
    BeforeDummy = {}
    InitAuthorized = {s1}
    InitFee = s1
    Script = {s1, s2, dummy}
    UpdatableCost = {"root"}
    FixedCost = {"msg_channel"}
    Amount = {1, 2}
    InitCost <- MCInitCost
    Block <- Blocks
    MaxHeight = 2
    UIntMod = 4
    NoEntry = NoEntry

PROPERTIES RevertOnlyIfListedOnce
