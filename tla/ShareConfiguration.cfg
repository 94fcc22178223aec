SPECIFICATION Spec
CONSTANTS
    a = a
    c1 = c1
    c2 = c2
    restriction = restriction
    v1 = v1
    v2 = v2
    Share = {a}
    Call = {c1, c2}
    Option = {restriction}
    Value = {v1, v2}
    None = None
    Keep = Keep
SYMMETRY Symmetry
INVARIANTS
    TypeOK
    NoKeyShadowsText
    ConcurrentEditsMerge
PROPERTIES
    ReportedCallWasDone
CHECK_DEADLOCK FALSE
