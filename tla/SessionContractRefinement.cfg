SPECIFICATION FairSpec
CONSTANTS
    s1 = s1
    r1 = r1
    r2 = r2
    Sid = {s1}
    Req = {r1, r2}
    None = None
    MaxSessions = 2
PROPERTIES
    ImplementsContract
    AbandonedCredentialsDestroyed
CHECK_DEADLOCK FALSE
