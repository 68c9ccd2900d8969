SPECIFICATION FairSpec
CONSTANTS
    Retries = 3
    Files = 4
    Json <- ThreeOfFour
PROPERTY RegistrationSettles
\* both threads end
CHECK_DEADLOCK FALSE
