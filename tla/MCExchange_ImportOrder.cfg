SPECIFICATION SeededSpec
CONSTANTS
    Projects = {1, 2}
    Hashes = {"h", "i"}
    TargetNames = {"n", "m"}
    MaxRows = 6
INVARIANT ImportsRoundTrip
CHECK_DEADLOCK FALSE
