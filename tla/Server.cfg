\* Three connections against a limit of two: the limit is reached, and two
\* Shutdowns race with each other and with a third connection.
SPECIFICATION FairSpec
CONSTANTS
    Conns = {c1, c2, c3}
    MaxConnections = 2
    MaxShutdowns = 3
CHECK_DEADLOCK FALSE
INVARIANTS
    ActiveExact
    WakeupKept
PROPERTIES
    ExitsWithoutProxy
