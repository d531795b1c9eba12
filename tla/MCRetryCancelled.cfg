CONSTANTS
    Clients = {}
    Operators = {}
    Ops = {}
    Tasks = {"keeper", "unblocker", "unblocker2", "evictor"}
    Cancellable = {}
    Callers <- EveryCaller
    AlwaysOn = TRUE
    MaxPending = 0
    Managed = TRUE
    LeaseExpires = FALSE
    Persistent = FALSE
    MaxWorkers = 2
SPECIFICATION LifeSpec
PROPERTIES OneStartup
CHECK_DEADLOCK FALSE
