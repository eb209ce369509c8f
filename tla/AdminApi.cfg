SPECIFICATION Spec
CONSTANTS
    Requests = {r1, r2, r3}
    Connections = 2
    Lifetime = 1
    Resolution = 2
    MaxClock = 4
INVARIANTS TypeOK OnlyActiveAdmins
PROPERTIES TokenLifetime WaitersConnect
