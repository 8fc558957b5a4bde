SPECIFICATION SetupSpec
CONSTANTS
    Arguments <- AllModules
    Deviations = 1
    Twice = {"asc", "shapes"}
    FrontEnds = {"interactive", "randomize"}
    Turns = 400
CHECK_DEADLOCK FALSE
INVARIANTS OffersBake Reproduces PathsDistinct TurnsBounded CulpritExists
