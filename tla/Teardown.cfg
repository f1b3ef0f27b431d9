\* One leader and two further processes: one can stay in the group and one
\* leave it, one outlive the other, and either be forked late.
SPECIFICATION FairSpec
CONSTANTS
    Leader = leader
    Members = {m1, m2}
CHECK_DEADLOCK FALSE
INVARIANTS
    SafeSignals
    GroupDoomed
    CaptureOver
    KnownExitKept
PROPERTIES
    TeardownEnds
