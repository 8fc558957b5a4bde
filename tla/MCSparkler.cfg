SPECIFICATION SparklerSpec
CONSTANTS
    Dims = {1}
    Side = 4
    BSP_MAX_OCCUPANTS = 1
    BSP_MAX_DEPTH = 2
    Clusters = 2
    MaxParticles = 3
    ChunkSize = 2
    MaxFrames = 3
    ROCKETS_MAX = 1
    INIT_PARTS = 1
    FRAME_PARTS = 1
    SIMPLE_MIN_SPAWN = 1
    SIMPLE_MAX_SPAWN = 3
    Sparks = {1}
    Xplodes = {1}
    Duration = 2
    Shell = 2
    Velocities <- MCVelocities
    Screen <- MCScreen
INVARIANTS
    ChunksPinned
    TreeWhole
    LeavesLive
PROPERTY
    ShockFelt
