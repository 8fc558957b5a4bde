SPECIFICATION SubmitSpec
CONSTANTS
    NumPlayers = 2
    Width = 3
    Height = 2
    TicksPerFrame = 2
    TileSize = 4
    PerCpu = 2
    Sizes <- MCSizes
    Cpus <- MCCpus
INVARIANTS
    Accounted
    PlansExecuted
    FramesDrawnWhole
