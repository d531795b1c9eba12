CONSTANTS
    r1 = r1 r2 = r2 x = x o = o
    Reqs = {r1, r2}
    Ids = {x}
    Owners = {o}
    Limit = 2
    Batch = 1
    Faults = 0
SPECIFICATION GwSpec
INVARIANTS CompletedFound
CHECK_DEADLOCK FALSE
