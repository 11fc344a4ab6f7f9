CONSTANTS
    Workers = {w1, w2}
    Community <- MCCommunity
    Stranger <- MCStranger
    Static <- MCStatic
    Changing <- MCChanging
    Text <- MCText
    LastId = 125
    Base <- MCBase
    Absent <- MCAbsent
    Modes <- MCAllModes
    MaxRepetitions = 2
    TTL = 1
    MaxTime = 2
    MaxWalks = 1
    MaxTries = 1
    MaxLost = 1
SPECIFICATION Spec
INVARIANTS RepliesOnWire FreshWithinTtl
PROPERTY WalksInOrder
CHECK_DEADLOCK FALSE
