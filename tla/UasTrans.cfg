\* Three transactions made for a request of each method; they all end.
SPECIFICATION FairSpec
CONSTANTS
    Methods <- AllMethods
    MaxTrans = 3
INVARIANTS
    FinalOnce
    AckOrTimeout
PROPERTIES
    AnsweredRemoved
CHECK_DEADLOCK FALSE
