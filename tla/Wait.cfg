\* Every kind of wait and every combination of arguments of a follow; a channel
\* and a log file of one line, and two lines printed.
SPECIFICATION Spec
CONSTANTS
    Capacity = 1
    FileLines = 1
    MaxLines = 2
    Requests <- KindsOfWait
    Follows <- Commands
INVARIANTS
    NoGap
    FollowExact
PROPERTIES
    FoundIfLogged
    WaitEnds
CHECK_DEADLOCK FALSE
