SPECIFICATION FairSpec
CONSTANTS
    c1 = c1
    c2 = c2
    q1 = q1
    q2 = q2
    null = null
    NoParams = null
    Callers = {c1, c2}
    ParamObjects = {q1, q2}
    Calls <- MixedCalls
    OldIds <- NearMax
    MaxInt = 4
INVARIANTS
    OutcomesMatch
    DistinctIdsOnWire
PROPERTIES
    EveryoneTold
    SingletonSpec
    EndStays
