\* Two CLI processes whose commands overlap freely and two daemons: one that is
\* killed or leaves, and one that starts meanwhile or after it.
SPECIFICATION FairSpec
CONSTANTS
    Clis = {k1, k2}
    Daemons = {d1, d2}
    None = None
    Blank = Blank
CHECK_DEADLOCK FALSE
INVARIANTS
    SingleUnlessBlind
    ReachableUnlessBlind
PROPERTY
    CommandEnds
