\* Two browsers, three calls.
SPECIFICATION Spec
CONSTANTS
    Names <- MCNames
    Tokens <- MCTokens
    Browsers = {b1, b2}
    Calls = {c1, c2, c3}
    Sids = {s1, s2}
    ServerKeys <- AllKeys
    OwnHeaders <- OldHeader
    Proxied <- Write
    Configs <- RotatingConfigs
    MaxFaults = 1
    MaxUpsets = 1
SYMMETRY SessionSymmetry
INVARIANTS TypeOK SessionInv LoginInv EndedStaysEnded PageKnowsItsSession ControlsFollow
PROPERTY WritesAreAuthorized
CHECK_DEADLOCK FALSE
