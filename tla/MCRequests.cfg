CONSTANTS User1 = o1 User2 = o2 Guest = c4 MaxWorkers = 2 Persistent = FALSE
CONSTANTS Clients = {c1, c2, c3} Operators = {} Ops = {} Tasks = {"idler", "evictor"} Cancellable = {}
CONSTANTS Callers <- EveryCaller AlwaysOn = FALSE MaxPending = 2 Managed = TRUE LeaseExpires = FALSE
SPECIFICATION MCSpec
SYMMETRY Symmetry
INVARIANTS TypesOK Counted Leased NothingLeft Handover
PROPERTIES BusySpared
CHECK_DEADLOCK FALSE
