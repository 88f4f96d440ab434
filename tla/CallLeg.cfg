SPECIFICATION FairSpec
CONSTANTS
    A = A
    Callees = {b1, b2}
    NoLeg = NoLeg
    MaxEvents = 2
INVARIANTS
    RefsExact
    Owned
    OneConversation
PROPERTIES
    EndTogether
CHECK_DEADLOCK FALSE
