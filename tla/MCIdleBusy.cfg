CONSTANTS
    Clients = {c1, c2}
    Operators = {o1}
    Ops = {"stop"}
    Tasks = {"idler"}
    Cancellable = {}
    Callers <- EveryCaller
    AlwaysOn = FALSE
    MaxPending = 0
    Managed = TRUE
    LeaseExpires = FALSE
    Persistent = FALSE
    MaxWorkers = 2
SPECIFICATION LifeSpec
SYMMETRY Symmetry
PROPERTIES BusySpared
CHECK_DEADLOCK FALSE
