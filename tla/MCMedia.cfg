\* Two clients of a limiter of two; two workers, one callback at a time, two
\* attempts and two failures for the track; two regions of length 2 and 1, one
\* request at a time, two operations, two undos or redos and a render; the bounds of the rest are in MCMedia.
SPECIFICATION MCSpec
CONSTANTS
    c1 = c1 c2 = c2 w1 = w1 w2 = w2 u1 = u1 t1 = t1 t2 = t2 q1 = q1 q2 = q2
    NoWorker = NoWorker NoTask = NoTask
    Clients = {c1, c2}
    Limit = 2
    Span = 3
    Slack = 0
    Skew = 1
    Late = 1
    MaxTime = 3
    MaxGrants = 3
    Workers = {w1, w2}
    Upserts = {u1}
    MaxTries = 2
    MaxCallbacks = 2
    MaxFailures = 2
    Length = 3
    Cuts = {0, 2, 3}
    Edge = 0
    MinRange = 1
    Slots = {q2}
    MaxOps = 2
    MaxUndos = 2
    MaxRenders = 1
INVARIANTS TypesOK WithinLimit KeyHasObject UndoInverts
PROPERTIES AudioIsDecided ChargedIsSettled
CHECK_DEADLOCK FALSE
