SPECIFICATION FairSpec
CONSTANTS
    a = a
    b = b
    c1 = c1
    c2 = c2
    s1 = s1
    s2 = s2
    Names = {a, b}
    Clients = {c1}
    Policies <- NeverPolicies
    ExplicitPorts = {5}
    PortMin = 1
    PortMax = 1
    Slots = {s1}
    Env = {}
    MaxGen = 2
PROPERTY DeadUnrouted
