\* Two requests on an empty cache; nothing fails.
SPECIFICATION Spec
CONSTANTS
    Reqs = {r1, r2}
    Versions = {v1, v2}
    Files = {meta, tmpl}
    Meta = meta
    MaxFaults = 0
    MaxCrashes = 0
SYMMETRY ReqSymmetry
INVARIANT SharedChartIsWhole
CHECK_DEADLOCK FALSE
