SPECIFICATION Spec
CONSTANTS
    Methods <- AllMethods
    MaxTrans = 2
CHECK_DEADLOCK FALSE
PROPERTIES LastRseqIsSent
