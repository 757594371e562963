\* One team from nothing: create, rotate, update, delete; one fault, one
\* cancelled request, one crash.
SPECIFICATION Spec
CONSTANTS
    t1 = t1
    t2 = t2
    id = id
    key = key
    Teams = {t1}
    Reqs = {r1, r2, r3}
    Charts = {"v1"}
    Fields <- AllFields
    Offered <- Lifecycle
    Provisioned = {t1}
    Installed = "v1"
    MaxFaults = 1
    MaxCancels = 1
    MaxCrashes = 1
SYMMETRY LifecycleSymmetry
INVARIANTS TypeOK IInv CredentialsBeforeRelease
PROPERTIES RotationWritesOnlyItsFields CleanCreateSucceeds CredentialsAreAtomic
CHECK_DEADLOCK FALSE
