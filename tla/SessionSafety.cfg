SPECIFICATION Spec
CONSTANTS
    s1 = s1
    s2 = s2
    r1 = r1
    r2 = r2
    Sid = {s1, s2}
    Req = {r1, r2}
    None = None
    MaxSessions = 2
SYMMETRY Symmetry
INVARIANTS
    TypeOK
    StoredSessionHasOneWorker
    CredentialHasOwner
    
PROPERTIES
    DestroyedCredentialStaysGone
CHECK_DEADLOCK FALSE
