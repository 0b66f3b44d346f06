\* As MCRequests.cfg; a garbled byte is one that no packet has.
CONSTANTS
    NMembers <- MCMembers
    Stored = {0}
    Exclusive = {1, 2}
    Mode = 1
    Config = 2
    Asked <- MCAsked
    BufSize = 10
    Noise = {128}
    MaxEvents = 3
SPECIFICATION Spec
INVARIANTS AppliedAsSent
CHECK_DEADLOCK FALSE
