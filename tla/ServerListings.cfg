SPECIFICATION Spec
CONSTANTS
    Id <- MCId
    Name = {"s", "t"}
    Levels <- MCLevels
    MaxChanges = 2
INVARIANTS
    TypeOK
    NothingIsMissing
    BestLevel
PROPERTIES
    ClosedIsClosed
    
CHECK_DEADLOCK FALSE
