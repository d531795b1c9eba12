CONSTANTS
    Clients = {c1}
    Operators = {o1}
    Ops = {"restart"}
    Tasks = {}
    Cancellable = {}
    Callers <- EveryCaller
    AlwaysOn = FALSE
    MaxPending = 0
    Managed = TRUE
    LeaseExpires = FALSE
    Persistent = FALSE
    MaxWorkers = 2
SPECIFICATION LifeSpec
INVARIANTS RestHasOneProcess
CHECK_DEADLOCK FALSE
