\* Four environments; two poll chains, two executions.
SPECIFICATION FairSpec
CONSTANTS
    a1 = a1 a2 = a2 a3 = a3 a4 = a4 a5 = a5 a6 = a6 e1 = e1 e2 = e2 p1 = p1 p2 = p2
    NoAttempt = NoAttempt NoExec = NoExec
    Attempts = {a1, a2, a3, a4, a5, a6}
    Execs = {e1, e2}
    Polls = {p1, p2}
    MaxAttempts = 2
    MaxStalls = 1
    MaxLosses = 2
    Environments <- MCEnvironments
INVARIANTS AtMostOneTask RefundedOrDelivered
PROPERTIES ChargedIsDecided FailedIsRefunded
CHECK_DEADLOCK FALSE
