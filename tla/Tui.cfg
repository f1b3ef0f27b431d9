SPECIFICATION Spec
CONSTANTS
    MaxLines = 3
    MaxBuffer = 1
    Preload = 1
    Height = 2
    MaxAttempts = 1
    Kinds <- TwoKinds
    Users <- ThreeUsers
INVARIANTS
    ViewExact
    FilterExact
PROPERTY StreamBack
CHECK_DEADLOCK FALSE
