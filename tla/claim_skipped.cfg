\* A chart upgrade after one that failed.
SPECIFICATION Spec
CONSTANTS
    t1 = t1
    t2 = t2
    id = id
    key = key
    Teams = {t1}
    Reqs = {r1, r2}
    Charts = {"v1", "v2"}
    Fields <- AllFields
    Offered <- UpgradeUpdate
    Provisioned = {t1}
    Installed = "v1"
    MaxFaults = 1
    MaxCancels = 0
    MaxCrashes = 0
PROPERTY SkippedIsUpToDate
CHECK_DEADLOCK FALSE
