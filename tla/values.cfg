\* One runner, one option, two configurations, one restart.
SPECIFICATION Spec
CONSTANTS
    Strings <- MCStrings
    Name = "a"
    Options <- OneOption
    MaxCount = 2
    PageMax = 2
    Configs <- TwoConfigs
    Bodies <- SomeBodies
    MaxTouched = 1
    MaxRestarts = 1
INVARIANT TypeOK
PROPERTIES UntouchedFieldsSurvive CreateIsFresh
CHECK_DEADLOCK FALSE
