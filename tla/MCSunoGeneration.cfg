\* With jobs redelivered while their worker runs on and a queue that loses
\* replies; and without either.
SPECIFICATION Spec
CONSTANTS
    a1 = a1 a2 = a2 a3 = a3 e1 = e1 e2 = e2 h1 = h1 h2 = h2
    NoAttempt = NoAttempt NoExec = NoExec
    Attempts = {a1, a2, a3}
    Execs = {e1, e2}
    Handlers = {h1, h2}
    MaxAttempts = 2
    MaxStalls = 1
    MaxLosses = 2
    Environments <- MCEnvironments
SYMMETRY MCSymmetry
INVARIANT AtMostOneTask
PROPERTIES SubmitUnknownOnlyBinds FinalStatuses KeepsContract
CHECK_DEADLOCK FALSE
