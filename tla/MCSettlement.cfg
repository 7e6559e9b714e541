\* Two callbacks and two checkouts of a purchase that fail once; one refund, one
\* song, one worker crash each; three requests with a key or none, two bodies.  The bounds of karaoke and text are in MCSettlement.
SPECIFICATION MCSpec
CONSTANTS
    c1 = c1 c2 = c2 h1 = h1 h2 = h2 h3 = h3
    r1 = r1 e1 = e1 e2 = e2 a1 = a1 a2 = a2 a3 = a3 q1 = q1 q2 = q2 p1 = p1 p2 = p2
    s1 = s1 s2 = s2 s3 = s3 k1 = k1 b1 = b1 b2 = b2 NoKey = NoKey
    Askers = {s1, s2, s3}
    Keys = {k1}
    Bodies = {b1, b2}
    Credits = 2
    NoRequest = NoRequest NoExec = NoExec NoAttempt = NoAttempt
    Checkouts = {c1, c2}
    Handlers = {h1, h2}
    MaxFailures = 1
    MaxRequests = 2
    Requests = {r1}
    Execs = {e1, e2}
    Amounts = {1, 2}
    Price = 2
    MaxTries = 2
    MaxStalls = 1
    MaxLosses = 1
    Environments <- MCEnvironments
INVARIANTS GrantedOnce KeyNamesOneSong
PROPERTIES PaidIsGranted ApprovedIsFinished ChargedIsDecided ChargedIsSettled
    KaraokeIsSettled TextIsSettled
CHECK_DEADLOCK FALSE
