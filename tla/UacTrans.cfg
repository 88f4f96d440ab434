SPECIFICATION FairSpec
CONSTANTS
    NTargets = 2
    Reliable <- UdpThenTcp
    Methods <- BothMethods
    BlTtl = TRUE
CHECK_DEADLOCK FALSE
INVARIANTS OneLive Settled CancelFollowsFailover SecondAfterTimeout
PROPERTIES OneFinal UaAnswered InvitesEnd
