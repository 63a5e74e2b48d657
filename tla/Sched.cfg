CONSTANTS
    N = 4
    priority <- TwoTasksTwoUsers
    Informed = {1}
SPECIFICATION Spec
INVARIANTS
    RunningIsReady
    BoundedWait
PROPERTIES
    NoStarvation
