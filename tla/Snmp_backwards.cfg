CONSTANTS
    Workers = {w1, w2}
    Community <- MCCommunity
    Stranger <- MCStranger
    Static <- MCStatic
    Changing <- MCChanging
    Text <- MCText
    LastId = 125
    Base <- MCBase
    Absent <- MCAbsent
    Modes <- MCGetOnly
    MaxRepetitions = 2
    TTL = 2
    MaxTime = 2
    MaxWalks = 2
    MaxTries = 1
    MaxLost = 0
SPECIFICATION Spec

PROPERTIES CounterNeverBack
CHECK_DEADLOCK FALSE
