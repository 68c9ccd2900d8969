SPECIFICATION FairSpec
CONSTANTS
    k1 = k1
    k2 = k2
    k3 = k3
    Classes = {k1, k2, k3}
    Designs <- SmallDesigns
INVARIANTS
    PhaseComplete
    RegisteredOrExcused
    SingletonsOnce
PROPERTY
    StartupEnds
