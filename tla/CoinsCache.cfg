\* Two outpoints, two coins they may hold, two blocks.
CONSTANTS
    Outpoint = {o1, o2}
    Coin = {a, b}
    Spent = Spent
    Absent = Absent
    Block = {b1, b2}
    Null = Null
SPECIFICATION Spec
INVARIANTS FlagsHonest NoLogicError
PROPERTIES CachesInvisible
