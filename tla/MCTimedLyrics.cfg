\* Nothing is lost; three requests for one track, two at a time.
SPECIFICATION Spec
CONSTANTS
    Requests = {q1, q2}
    MaxCalls = 3
    MaxLosses = 0
    Faults = {}
INVARIANT RefundedOnce
CHECK_DEADLOCK FALSE
