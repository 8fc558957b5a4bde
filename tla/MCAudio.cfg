SPECIFICATION AudioSpec
CONSTANTS
    Playits = {p1, p2, p3}
    BufSize = 2
    MaxSeeks = 2
    None = None
    Silent = Silent
    Missing = Missing
CHECK_DEADLOCK FALSE
INVARIANTS HooksLive NoStaleFrames PausedWithRkt
