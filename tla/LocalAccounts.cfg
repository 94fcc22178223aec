SPECIFICATION Spec
CONSTANTS
    a1 = a1
    a2 = a2
    Admin = {a1, a2}
    full_name = full_name
    Text = {full_name}
    s1 = s1
    Sid = {s1}
    Sendable <- MCSendable
    MaxCalls = 2
    None = None
SYMMETRY Symmetry
INVARIANTS
    TypeOK
    NoOpenDoor
    AuditFileHasNoGaps
    RecordedOnce

    
    
CHECK_DEADLOCK FALSE
