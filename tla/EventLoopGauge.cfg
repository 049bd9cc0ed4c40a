SPECIFICATION Spec
CONSTANTS
    Events = {e1}
    Shapes = {"callback"}
    Workers = {w1}
    QueueSize = 1
    NoEnvelope = NoEnvelope
    MaxDeliveries = 1
    InboxSize = 1
    MaxLinkEvents = 2
    MaxRestarts = 0
CHECK_DEADLOCK FALSE
INVARIANT GaugeShowsDepth
