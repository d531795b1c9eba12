CONSTANTS
    Clients = {c1}
    Operators = {o1}
    Ops = {"stop"}
    Tasks = {}
    Cancellable = {}
    Callers <- EveryCaller
    AlwaysOn = FALSE
    MaxPending = 0
    Managed = TRUE
    LeaseExpires = FALSE
    Persistent = FALSE
    MaxWorkers = 2
SPECIFICATION LifeSpec
PROPERTIES InterruptsForgiven
CHECK_DEADLOCK FALSE
