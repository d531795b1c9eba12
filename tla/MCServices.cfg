CONSTANTS a1 = a1 a2 = a2 c1 = c1 c2 = c2 A = {a1, a2}
CONSTANTS p1 = p1 p2 = p2 p3 = p3 Nothing = Nothing Done = Done
CONSTANTS Callers = {c1, c2} MaxWorkers = 2 Persistent = FALSE
INIT Init NEXT MCNext
SYMMETRY Symmetry
INVARIANTS TypesOK ExitsShow RecoverySafe DownloadsSafe BenchmarksSafe GatewaySafe FeedRight PlansHold
PROPERTIES OccupiedSpared ReplacedNeverReady NothingUndone
CHECK_DEADLOCK FALSE
