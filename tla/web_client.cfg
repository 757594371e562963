\* Two runners and two functions that wait at once.
SPECIFICATION Spec
CONSTANTS
    Runners = {a, b}
    Tasks = {t1, t2}
    Readonly = FALSE
    MaxFaults = 1
SYMMETRY PageSymmetry
INVARIANTS TypeOK PageInv TableInv EditsStayApart DialogMeansIt ActionsFollowAuth
INVARIANTS TableIsCurrent DetailMatches PageComesBack
CHECK_DEADLOCK FALSE
