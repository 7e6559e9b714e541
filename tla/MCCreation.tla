------------------------------- MODULE MCCreation -------------------------------
(***************************************************************************)
(* What a user makes: the voice a song is sung with, and its arrangement   *)
(* on the page of the editor.  The two do not share state; they are        *)
(* checked side by side, one of them in each behaviour.                    *)
(***************************************************************************)
EXTENDS SunoVoice, EditorTimeline

CONSTANTS t1, t2, q1, q2, e1, e2

VARIABLE part \* the component that runs; never changes

allVars == <<part, vars, pageVars>>

\* Where no song is open.
NoPage ==
    /\ regions = <<>> /\ nextId = 1 /\ mix = <<>>
    /\ page = Copy /\ shown = [t \in Lanes |-> <<>>] /\ syncing = FALSE
    /\ linked = FALSE /\ locked = TRUE /\ busy = FALSE
    /\ pending = NoOp /\ last = NoOp
    /\ inflight = [q \in Slots |-> NoRequest]
    /\ alone = TRUE /\ sent = 0 /\ drags = 0 /\ losses = 0

MCInit ==
    /\ part \in {"voice", "page"}
    /\ Init /\ (part # "voice" => sample = NewSample) /\ sample.task # t2
    /\ \/ part = "page" /\ PageInit
       \/ part # "page" /\ NoPage

\* The ids of tasks are interchangeable: t1 is given out first.
InOrder == validate'[t2] # "none" => validate'[t1] # "none"

\* A bound of the page: the mode is chosen before anything is dragged or lost.
ModeFirst == linked' # linked => drags + losses = 0

OnlyVoice == part = "voice" /\ UNCHANGED <<part, pageVars>>
OnlyPage == part = "page" /\ UNCHANGED <<part, vars>>

MCNext ==
    \/ OnlyVoice /\ Next /\ InOrder
    \/ OnlyPage /\ PageNext /\ ModeFirst

\* The fairness of the voice, while it runs; the page owes nothing.
MCFairness ==
    /\ \A q \in Requests : WF_vars(part = "voice" /\ Goes(q))
    /\ WF_vars(part = "voice" /\ Ages)

MCSpec == MCInit /\ [][MCNext]_allVars /\ MCFairness
=============================================================================
