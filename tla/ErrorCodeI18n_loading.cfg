SPECIFICATION FairSpec
CONSTANTS
    t1 = t1
    t2 = t2
    Threads = {t1, t2}
    ClassPaths <- SmallClassPaths
    Calls <- SomeCalls
INVARIANTS
    LoadedWhole
    FailsForAReason
    NearestLabel
PROPERTY
    SingletonSpec
