SPECIFICATION FairSpec
CONSTANTS
    Events = {e1}
    Shapes = {"callback"}
    Workers = {w1}
    QueueSize = 1
    NoEnvelope = NoEnvelope
    MaxDeliveries = 3
    InboxSize = 2
    MaxLinkEvents = 4
    MaxRestarts = 1
CHECK_DEADLOCK FALSE
PROPERTIES
    AckedAreHandled
    OutageIsReported
    HandsOffEventually
