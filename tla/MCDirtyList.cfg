\* Two serial ports, two vectors (the proofs are for any number of them).
CONSTANTS
    c1 = c1
    c2 = c2
    Clients = {c1, c2}
    N = 2
    VECNONE = 255
SPECIFICATION FairSpec
INVARIANTS TypeOK DirtyIsListed ListsAreChains
PROPERTIES PromiseKept ListedIsTaken
