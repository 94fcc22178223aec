SPECIFICATION Spec
CONSTANTS
    c1 = c1
    c2 = c2
    u1 = u1
    u2 = u2
    a1 = a1
    Client = {c1, c2}
    User = {u1, u2}
    Address = {a1}
    MaxAttempts = 2
    Lockout = 1
    ProbeLimit = 2
    Window = 1
INVARIANTS
    ConfiguredRealmIsKnown
