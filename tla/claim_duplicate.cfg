\* Two overlapping POSTs over the failed install of a third.
SPECIFICATION Spec
CONSTANTS
    t1 = t1
    t2 = t2
    id = id
    key = key
    Teams = {t1}
    Reqs = {r1, r2, r3}
    Charts = {"v1"}
    Fields <- AllFields
    Offered <- OnlyCreate
    Provisioned = {}
    Installed = "v1"
    MaxFaults = 1
    MaxCancels = 0
    MaxCrashes = 0
INVARIANT DuplicateCreateFails
CHECK_DEADLOCK FALSE
