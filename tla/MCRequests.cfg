\* Two stored numbers and two switch vectors.  Three events: packets out of
\* nine, which may be cut anywhere, and bytes lost or garbled into another
\* value, into a byte that no packet has, a start or an end.  The run ends
\* when they have happened.
CONSTANTS
    NMembers <- MCMembers
    Stored = {0}
    Exclusive = {1, 2}
    Mode = 1
    Config = 2
    Asked <- MCAsked
    BufSize = 10
    Noise = {0, 1, 2, 128, 248, 255}
    MaxEvents = 3
SPECIFICATION FairSpec
INVARIANTS TypeOK ExactUntilSaved OneIsOn ToldOrDue
PROPERTIES Settles
CHECK_DEADLOCK FALSE
