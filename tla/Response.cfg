SPECIFICATION FairSpec
CONSTANTS
    MaxParts = 2
    Limit = 1
INVARIANTS TypeOK WrapperAnswers
PROPERTIES KeepsPromise 
CHECK_DEADLOCK FALSE
