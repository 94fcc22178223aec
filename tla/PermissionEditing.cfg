SPECIFICATION Spec
CONSTANTS
    e1 = e1
    e2 = e2
    everyone = everyone
    domainAdmins = domainAdmins
    read = read
    write = write
    Editor = {e1, e2}
    Trustee = {everyone, domainAdmins}
    Relative = {domainAdmins}
    Right = {read, write}
    ReadRights = {read}
    WriteRights = {read, write}
    Account <- MCAccount
    Everyone = everyone
    Held <- MCHeld
    Handed <- MCHanded
    Standing <- MCStanding
    MaxEdits = 1
    None = None
SYMMETRY Symmetry
INVARIANTS
    TypeOK
    InheritanceIsNotFrozen
    
    OfferedOnRefusal
PROPERTIES
    UnreadableIsNotReplaced
    
CHECK_DEADLOCK FALSE
