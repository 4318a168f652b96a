SPECIFICATION Spec
CONSTANTS
    Port = {1, 2, 3}
    NoConfig = NoConfig
    MaxInits = 2
    MaxMishaps = 2
    MaxBeside = 1
INVARIANTS SettingsSurvive SilenceIsTrue
PROPERTIES InitEndsHealthy InitsEnd
CHECK_DEADLOCK FALSE
