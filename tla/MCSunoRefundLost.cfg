\* A worker crash between the failure and its refund.
SPECIFICATION FairSpec
CONSTANTS
    a1 = a1 a2 = a2 a3 = a3 e1 = e1 e2 = e2 h1 = h1 h2 = h2
    NoAttempt = NoAttempt NoExec = NoExec
    Attempts = {a1, a2, a3}
    Execs = {e1}
    Handlers = {h1}
    MaxAttempts = 2
    MaxStalls = 1
    MaxLosses = 1
    Environments <- MCCrash
PROPERTY FailedIsRefunded
CHECK_DEADLOCK FALSE
