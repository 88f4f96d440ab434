\* A session and a call's media object, or either of them made twice at the
\* same address.
SPECIFICATION FairSpec
CONSTANTS
    NThreads = 2
    MaxObj = 2
    MaxQueue = 1
    MaxMember = 2
    Addr <- MCAddr
    Sessions <- MCSessions
    Media <- MCMedia
INVARIANTS
    RefCountExact
    DeletedUnused
    OneThread
    RightObject
PROPERTIES
    
    SessionFreed
CHECK_DEADLOCK FALSE
