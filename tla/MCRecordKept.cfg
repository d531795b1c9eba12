CONSTANTS
    Callers = {c1, c2}
    MaxWorkers = 2
    Persistent = TRUE
SPECIFICATION Spec
SYMMETRY Symmetry
PROPERTIES RecordKept
