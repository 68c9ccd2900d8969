SPECIFICATION MCSpec
CONSTANTS
    r1 = r1
    r2 = r2
    p1 = p1
    nobody = nobody
    none = none
    Requests = {r1, r2}
    Processes = {p1}
    Unknown = nobody
    NotAMap = none
    Interfaces <- TwoInterfaces
    ParamSets <- GivenParams
    Bodies  <- ManyBodies
    Replies <- ManyReplies
INVARIANTS
    InstancesHaveParameters
    TemplateCurrent
    FilledByPath
    ConvertedAsReferenced
PROPERTIES
    PromiseSpec
\* a request is filled in once and a reply converted once
CHECK_DEADLOCK FALSE
