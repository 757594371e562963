\* A runner deleted and created again while its namespace terminates.
SPECIFICATION Spec
CONSTANTS
    t1 = t1
    t2 = t2
    id = id
    key = key
    Teams = {t1}
    Reqs = {r1, r2}
    Charts = {"v1"}
    Fields <- AllFields
    Offered <- CreateDelete
    Provisioned = {t1}
    Installed = "v1"
    MaxFaults = 0
    MaxCancels = 0
    MaxCrashes = 0
INVARIANT RunnerHasItsSecret
CHECK_DEADLOCK FALSE
