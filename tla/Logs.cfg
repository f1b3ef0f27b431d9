\* Files of two bytes, two of them rotated, lines that fit two to a file or
\* not at all, and an index flushed every second line.
SPECIFICATION Spec
CONSTANTS
    MaxBytes = 2
    MaxRotated = 2
    FlushEvery = 2
    Lens = {1, 3}
    Failing = {}
    MaxLines = 4
    MaxIncs = 3
    Missing = Missing
CHECK_DEADLOCK FALSE
INVARIANTS
    IndexMaps
    WindowExact
    MergedInOrder
PROPERTIES
    OldestLost
