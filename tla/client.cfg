SPECIFICATION Spec
CONSTANTS
    t1 = t1
    t2 = t2
    Threads = {t1, t2}
    Timeout = 1
    Slack = 2
    TokenLife = 4
    MaxRetries = 2
    Backoffs <- Pauses
    RetryAfters = {2}
INVARIANTS
    TypeOK
    NetworkNeverDoubles
PROPERTIES
    FirstTryIsFresh
    CallReturns
