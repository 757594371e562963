\* Two teams, two requests, under fairness; one fault, one cancelled request.
SPECIFICATION FairSpec
CONSTANTS
    t1 = t1
    t2 = t2
    id = id
    key = key
    Teams = {t1, t2}
    Reqs = {r1, r2}
    Charts = {"v1", "v2"}
    Fields <- AllFields
    Offered <- Endings
    Provisioned = {t1, t2}
    Installed = "v1"
    MaxFaults = 1
    MaxCancels = 1
    MaxCrashes = 0
PROPERTIES EveryRequestAnswered DeleteReachesNamespace
CHECK_DEADLOCK FALSE
