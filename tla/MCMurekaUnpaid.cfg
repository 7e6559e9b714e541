\* Nothing fails; the queue is long.
SPECIFICATION Spec
CONSTANTS
    a1 = a1 a2 = a2 a3 = a3 a4 = a4 a5 = a5 a6 = a6 e1 = e1 e2 = e2 p1 = p1 p2 = p2
    NoAttempt = NoAttempt NoExec = NoExec
    Attempts = {a1, a2}
    Execs = {e1}
    Polls = {p1}
    MaxAttempts = 2
    MaxStalls = 1
    MaxLosses = 1
    Environments <- MCBacklog
INVARIANT MissingSpendIsTrue
CHECK_DEADLOCK FALSE
