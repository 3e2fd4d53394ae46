\* Three places, five callables, two stages.
SPECIFICATION Spec
CONSTANTS
    Places = {p1, p2, p3}
    Callables = {c1, c2, c3, c4, c5}
    MaxStages = 2
    None = none
    Nowhere = nowhere
SYMMETRY Symmetry
CHECK_DEADLOCK FALSE
INVARIANTS
    PointersTellTruth
    OneOwner
    MovesKeepPipeline
    PollsItsOwn
