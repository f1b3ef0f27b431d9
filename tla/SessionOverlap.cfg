\* Two commands, two daemons.
SPECIFICATION Spec
CONSTANTS
    Clis = {k1, k2}
    Daemons = {d1, d2}
    None = None
    Blank = Blank
CHECK_DEADLOCK FALSE
INVARIANT
    SingleDaemon
