\* Both banks, each behind several sets of faults.
SPECIFICATION Spec
CONSTANTS
    r1 = r1 r2 = r2 e1 = e1 e2 = e2
    NoRequest = NoRequest NoExec = NoExec
    Requests = {r1, r2}
    Execs = {e1, e2}
    Amounts = {1, 2}
    Price = 2
    MaxTries = 2
    MaxStalls = 1
    MaxLosses = 1
    Environments <- MCEnvironments
SYMMETRY MCSymmetry
INVARIANTS MoneyCovered CancelledOnce
CHECK_DEADLOCK FALSE
