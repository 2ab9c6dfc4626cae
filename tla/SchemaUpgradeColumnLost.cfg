SPECIFICATION SchemaSpec
CONSTANTS
    Versions = {0, 31, 34}
    MaxStops = 1
INVARIANTS
    SchemaComplete
CHECK_DEADLOCK FALSE
