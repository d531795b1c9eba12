CONSTANTS User = o1 Guest = c1 MaxWorkers = 2 Persistent = FALSE
INIT Init NEXT MCNext
INVARIANTS NothingLeft StopSticks
CHECK_DEADLOCK FALSE
