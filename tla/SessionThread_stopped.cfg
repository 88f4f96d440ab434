\* The threads run; a session that was not answered is stopped.
SPECIFICATION FairThreadSpec
CONSTANT
    MaxEvents = 2
CHECK_DEADLOCK FALSE
PROPERTY
    StoppedEnds
