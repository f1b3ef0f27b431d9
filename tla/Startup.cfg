SPECIFICATION Spec
CONSTANTS
    Names = {a, b, c}
    Unknown = unknown
    DepLists <- Lists
INVARIANTS
    OrderCorrect
    CycleExact
    DepsFirst
