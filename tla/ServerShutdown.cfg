\* One client that enables the proxy and another that asks for shutdown.
SPECIFICATION FairSpec
CONSTANTS
    Conns = {c1, c2}
    MaxConnections = 2
    MaxShutdowns = 1
CHECK_DEADLOCK FALSE
PROPERTY ShutdownExits
