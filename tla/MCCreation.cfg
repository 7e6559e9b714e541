\* The page: two regions of length 6 and 2, where a part must be 2 long and an
\* edge is 2; two places to point at and one to trim to, two requests and
\* operations, a drag, a request that fails.
SPECIFICATION MCSpec
CONSTANTS
    t1 = t1 t2 = t2 q1 = q1 q2 = q2 e1 = e1 e2 = e2
    Tasks = {t1, t2}
    NoTask = NoTask
    Requests = {q1, q2}
    Pages = {q1}
    MaxUses = 2
    MaxFailures = 1
    Length = 8
    Cuts = {0, 6, 8}
    Edge = 2
    MinRange = 2
    Slots = {e1, e2}
    Epsilon = 1
    Points = {3, 6}
    TrimPlaces = {3}
    MaxSent = 2
    MaxDrags = 1
    MaxLosses = 1
INVARIANTS ReadyHasVoice PageMatchesSong
PROPERTIES CloneEnds VoiceIsFound
CHECK_DEADLOCK FALSE
