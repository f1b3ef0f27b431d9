SPECIFICATION Spec
CONSTANTS
    a = a
    b = b
    c1 = c1
    c2 = c2
    s1 = s1
    s2 = s2
    Names = {a, b}
    Clients = {c1, c2}
    Policies <- CorePolicies
    ExplicitPorts = {}
    PortMin = 1
    PortMax = 1
    Slots = {s1}
    Env = {"watch", "watchfail", "stopall"}
    MaxGen = 3
SYMMETRY Perms
INVARIANTS
    LifeShape
    OneTeardown
    WaitersHeld
    StopAllCovers
    TimerArmed
    WithinBudget
PROPERTIES
    StopSticks
    StopAllClean
    Implements
