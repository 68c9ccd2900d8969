SPECIFICATION FairSpec
CONSTANTS
    MaxLoads = 3
    MaxOverlap = 2
    Descriptions <- SomeDescriptions
    Declarations <- SomeDeclarations
    Models = {"Pet", "Toy"}
    Reserved = {"info", "models"}
INVARIANTS
    
    ModelsOwn

    
    
