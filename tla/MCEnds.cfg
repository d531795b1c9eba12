CONSTANTS
    Clients = {c1}
    Operators = {o1}
    Ops = {"stop"}
    Tasks = {"evictor"}
    Cancellable = {o1}
    Callers <- EveryCaller
    AlwaysOn = FALSE
    MaxPending = 0
    Managed = TRUE
    LeaseExpires = FALSE
    Persistent = FALSE
    MaxWorkers = 2
    a1 = a1 a2 = a2 p1 = p1 p2 = p2 Missing = Missing
SPECIFICATION MCSpec
PROPERTIES RequestsEnd GateFreed ServicesEnd
CHECK_DEADLOCK FALSE
