\* Three events of other threads.  A session may end for good.
SPECIFICATION FairThreadSpec
CONSTANT
    MaxEvents = 3
INVARIANTS
    Wakeup
    
PROPERTIES
    ByeEnds
CHECK_DEADLOCK FALSE
