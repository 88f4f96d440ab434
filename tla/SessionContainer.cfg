\* Two sessions that need not end, and the two threads that clean up.  After
\* a shutdown everything may have stopped.
SPECIFICATION FairSpec
CONSTANTS
    s1 = s1
    s2 = s2
    Sessions <- Two
    SessionLimit = 0
INVARIANTS
    NoSessionLost
    DeletedSafely
    
PROPERTY
    ShutdownEnds
CHECK_DEADLOCK FALSE
