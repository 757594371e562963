\* Three requests, two versions, Chart.yaml and one more file; one failing
\* call and one crash.
SPECIFICATION Spec
CONSTANTS
    Reqs = {r1, r2, r3}
    Versions = {v1, v2}
    Files = {meta, tmpl}
    Meta = meta
    MaxFaults = 1
    MaxCrashes = 1
SYMMETRY ReqSymmetry
INVARIANTS TypeOK CacheInv
PROPERTIES SettledStaysSettled CleanLoadIsWhole
CHECK_DEADLOCK FALSE
