--------------------------------- MODULE MCMedia ---------------------------------
(***************************************************************************)
(* The limiters in front of the providers, the track that a song leaves,   *)
(* its stems, and its arrangement.  The four do not share state; they are  *)
(* checked side by side, one of them in each behaviour.                    *)
(***************************************************************************)
EXTENDS RateLimiter, TrackPersistence, SongEditor

CONSTANTS c1, c2, w1, w2, u1, t1, t2, q1, q2, NoTask

VARIABLES
    part, \* the component that runs; never changes
    song, late, task, spend, sslot, forsaken, clicks, retries, refusals

stemVars == <<song, late, task, spend, sslot, forsaken, clicks, retries, refusals>>
allVars == <<part, limiterVars, vars, stemVars, editorVars>>

\* One request at a time, two clicks, a retry, and two calls or statements that
\* fail.
Stem == INSTANCE StemSeparation WITH
    Tasks <- {t1, t2}, Slots <- {q1}, MaxClicks <- 2, MaxRetries <- 1, MaxFailures <- 2,
    provider <- task, slot <- sslot, failures <- refusals

\* Where nothing is arranged.
NoArrangement ==
    /\ regions = <<>> /\ versions = <<>> /\ slot = [q \in Slots |-> IdleSlot]
    /\ clock = 1 /\ nextId = 1 /\ asked = 0 /\ undos = 0 /\ renders = 0

MCInit ==
    /\ part \in {"limiter", "track", "stem", "editor"}
    /\ LimiterInit
    /\ Init /\ (part # "track" => provider = "suno")
    /\ Stem!Init /\ (part # "stem" => song.original)
    /\ \/ part = "editor" /\ EditorInit
       \/ part # "editor" /\ NoArrangement

OnlyLimiter ==
    part = "limiter" /\ UNCHANGED <<part, vars, stemVars, editorVars>>
OnlyTrack == part = "track" /\ UNCHANGED <<part, limiterVars, stemVars, editorVars>>
OnlyStem == part = "stem" /\ UNCHANGED <<part, limiterVars, vars, editorVars>>
OnlyEditor == part = "editor" /\ UNCHANGED <<part, limiterVars, vars, stemVars>>

MCNext ==
    \/ OnlyLimiter /\ LimiterNext
    \/ OnlyTrack /\ Next
    \/ OnlyStem /\ Stem!Next
    \/ OnlyEditor /\ EditorNext

\* The fairness of each component, while it runs.
MCFairness ==
    /\ \A w \in Workers : WF_allVars(OnlyTrack /\ Work(w))
    /\ WF_allVars(OnlyTrack /\ Reconcile) /\ WF_allVars(OnlyTrack /\ HeartbeatAges)
    /\ WF_allVars(OnlyStem /\ Stem!Goes(q1)) /\ WF_allVars(OnlyStem /\ Stem!FiveMinutes)

MCSpec == MCInit /\ [][MCNext]_allVars /\ MCFairness

-----------------------------------------------------------------------------
\* The types of the components, with the order and the bounds of the regions
\* of an arrangement (SongEditor's IndexesDense and RegionsProper).
TypesOK ==
    /\ part = "limiter" => LimiterTypeOK
    /\ part = "track" => TypeOK
    /\ part = "stem" => Stem!TypeOK
    /\ part = "editor" => EditorTypeOK /\ RegionsProper

\* StemSeparation: what was charged for is delivered or given back, for a song
\* that is looked at, except where a fault forsakes it.
ChargedIsSettled == Stem!ChargedIsSettled
=============================================================================
