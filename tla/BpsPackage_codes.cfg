SPECIFICATION Spec
CONSTANTS
    r1 = r1
    r2 = r2
    r3 = r3
    p1 = p1
    p2 = p2
    good = good
    multi = multi
    Requests = {r1, r2, r3}
    Packages = {p1, p2}
    Archives = {good, multi}
    MultiProcess = {multi}
    Calls <- AllCalls
    MaxPolls = 1
PROPERTY
    CodeKept
