\* Two vectors; every interleaving of three changes, requests, reboots,
\* disconnections or garbled packets.
CONSTANTS
    NVec = 2
    Capacity = 1
    MaxEvents = 3
SPECIFICATION FairSpec
INVARIANT CurrentOrComing
PROPERTIES RequestNotOverwritten Converges
