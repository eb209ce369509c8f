SPECIFICATION FairSpec
CONSTANTS
    Handlers = {h1, h2}
    NoClient = NoClient
    Usernames = {alice, bob}
    Environments <- MCEnvironments
    MaxRetries = 3
    MaxFaults = 5
INVARIANTS TypeOK ServicesAreReady OneConnection
PROPERTIES NeitherAlone BothRun
