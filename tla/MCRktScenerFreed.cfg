SPECIFICATION RktScenerSpec
CONSTANTS
    InitialScenes = 1
    MaxScenes = 3
    Needs = 2
    MaxFailures = 0
    ExitScene = 99999
CHECK_DEADLOCK FALSE
INVARIANT EntriesLive
