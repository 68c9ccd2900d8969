SPECIFICATION FairSpec
CONSTANTS
    c1 = c1
    c2 = c2
    q1 = q1
    q2 = q2
    null = null
    NoParams = null
    Callers = {c1}
    ParamObjects = {q1}
    Calls <- AsyncCalls
    OldIds <- NoOld
    MaxInt = 5
INVARIANT
    ResponseExcludesException
