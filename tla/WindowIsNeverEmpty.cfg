SPECIFICATION Spec
CONSTANTS
    a1 = a1
    a2 = a2
    Admin = {a1, a2}
    Dialects = 3
    ConsoleFloor = 2
    Servers <- MCServers
    Requests <- MCRequests
    Tokens <- MCTokens
    MaxCalls = 2
    None = None
SYMMETRY Symmetry
INVARIANTS
    WindowIsNeverEmpty
CHECK_DEADLOCK FALSE
