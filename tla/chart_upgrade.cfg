\* Two teams, a chart version that may be newer than theirs; one fault, one
\* cancelled request, one crash.
SPECIFICATION Spec
CONSTANTS
    t1 = t1
    t2 = t2
    id = id
    key = key
    Teams = {t1, t2}
    Reqs = {r1, r2}
    Charts = {"v1", "v2"}
    Fields <- AllFields
    Offered <- ChartUpgrade
    Provisioned = {t1, t2}
    Installed = "v1"
    MaxFaults = 1
    MaxCancels = 1
    MaxCrashes = 1
SYMMETRY ReqSymmetry
INVARIANTS ReportIsTrue ReportInv DeployInv UndisturbedInv
PROPERTIES UndisturbedUpgradeKeepsValues RunnersAreRequested
CHECK_DEADLOCK FALSE
