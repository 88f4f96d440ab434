\* Two owners and two timers on three wheels of two slots, the wheel being
\* turned at most one tick late.  Owners may stop using timers.
SPECIFICATION FairSpec
CONSTANTS
    BITS_PER_WHEEL = 1
    WHEELS = 3
    Timers = {t1, t2}
    Owners = {o1, o2}
    NoTimer = NoTimer
    MaxDelay = 3
    MaxLag = 1
INVARIANTS
    MemorySafe
PROPERTIES
    OnTime
    DroppedTimersAreFreed
    ArmedTimersExpire
CHECK_DEADLOCK FALSE
