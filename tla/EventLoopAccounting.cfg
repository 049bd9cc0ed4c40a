SPECIFICATION Spec
CONSTANTS
    Events = {e1}
    Shapes = {"callback", "unexpected", "unexpected_no_request", "no_request"}
    Workers = {w1}
    QueueSize = 1
    NoEnvelope = NoEnvelope
    MaxDeliveries = 4
    InboxSize = 1
    MaxLinkEvents = 4
    MaxRestarts = 1
CHECK_DEADLOCK FALSE
INVARIANTS
    TypeOK
    AckedAreAccountedFor
    ReadyAgreesWithMetric
PROPERTIES
    LossIsBounded
