CONSTANTS
    Instances = {i1, i2, i3}
    Benchmarks = {b1}
    Devices = {1, 2}
    TotalBytes <- MCTotals
    HostTotal = 3
    Reserve = 1
    HostReserve = 1
    MaxBytes = 4
    TTL = 0
    MaxLeases = 4
    Requests <- MCRequests
SPECIFICATION Spec
SYMMETRY Symmetry
INVARIANTS TypeOK OwnerIndex ClaimsBacked NoOvercommit
PROPERTIES ReplacesOnlyOwn OneReleasePerCall ClaimExclusive KeepsPromises
