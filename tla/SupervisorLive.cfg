SPECIFICATION FairSpec
CONSTANTS
    a = a
    b = b
    c1 = c1
    c2 = c2
    s1 = s1
    s2 = s2
    Names = {a, b}
    Clients = {c1, c2}
    Policies <- LivePolicies
    ExplicitPorts = {}
    PortMin = 1
    PortMax = 1
    Slots = {s1}
    Env = {"stopall", "spawnfail", "proxy"}
    MaxGen = 2
INVARIANTS
    TypeOK
    RoutesComplete
PROPERTIES
    RestartHonest
    RequestsAnswered
    CrashHandled
