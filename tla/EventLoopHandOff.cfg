SPECIFICATION Spec
CONSTANTS
    Events = {e1, e2}
    Shapes = {"callback"}
    Workers = {w1, w2}
    QueueSize = 2
    NoEnvelope = NoEnvelope
    MaxDeliveries = 2
    InboxSize = 2
    MaxLinkEvents = 2
    MaxRestarts = 1
SYMMETRY Symmetry
CHECK_DEADLOCK FALSE
INVARIANTS
    OnePlaceInMemory
PROPERTIES
    HandsOffInOrder
