SPECIFICATION FairSpec
CONSTANTS
    Ips = {ip1}
    NoIp = NoIp
    Tasks = {t1, t2, t3}
    MaxAttempts = 3
    WindowSeconds = 3
    TicksPerSecond = 2
INVARIANTS AttemptsBounded RetryAfterFreesOne CleanupIsFilter LimiterInv
PROPERTY LimitEnds
