SPECIFICATION DisplaySpec
CONSTANTS
    Models <- ThreeModels
    Undefined <- OneUndefined
    ResponseModels <- TwoModels
    Throwing <- OneThrowing
    ResponseCodes <- FourCodes
    MaxViews = 2
    Definitions <- AllDefinitions
    Documents <- ShortDocuments
    Designs <- AllDesigns
    MaxDepth  = 8
INVARIANTS
    SampleUnfolds
    SampleHasShape
    SignatureDescribesOnce
    ResponsesShownOnce
    IndentIsDepth
\* a display ends with what it shows
CHECK_DEADLOCK FALSE
