\* One runner, no restart.
SPECIFICATION Spec
CONSTANTS
    Strings <- MCStrings
    Name = "a"
    Options <- OneOption
    MaxCount = 2
    PageMax = 2
    Configs <- TwoConfigs
    Bodies <- SomeBodies
    MaxTouched = 1
    MaxRestarts = 0
PROPERTY OmittedIsCarriedForward
CHECK_DEADLOCK FALSE
