SPECIFICATION FairSpec
CONSTANTS
    Addr = {a1, a2}
    NoSub = NoSub
    MaxLocal = 2
    MaxRemote = 2
CHECK_DEADLOCK FALSE
INVARIANTS UsagesExact NoDangling EndTold
PROPERTIES Ends
