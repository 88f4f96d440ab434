SPECIFICATION Spec
CONSTANTS
    MaxLocal = 1
    MaxRemote = 3
    MaxRseq = 1
    PeerSdp = {"sdp", "bad", "odd"}
    Rel100 = {"DISABLED", "SUPPORTED", "REQUIRE"}
CHECK_DEADLOCK FALSE
INVARIANTS PendingCounted   EndComes 
