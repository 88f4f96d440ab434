SPECIFICATION Spec
CONSTANTS
    BITS_PER_WHEEL = 2
    WHEELS = 2
    Timers = {t1}
    Owners = {o1}
    NoTimer = NoTimer
    MaxDelay = 3
    MaxLag = 1
INVARIANTS UpdateInBounds
CHECK_DEADLOCK FALSE
