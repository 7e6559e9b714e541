-------------------------- MODULE GenerationContract --------------------------
(***************************************************************************)
(* What a charged song generation promises, whatever the queue, the        *)
(* workers, the callbacks and the reconciler do: the vendor is given the   *)
(* work at most once, only while the charge stands, and the charge is      *)
(* taken back only when the vendor has no work of the user's in hand.      *)
(***************************************************************************)

VARIABLES
    money, \* "none", "charged" or "refunded"
    work,  \* the vendor's task: "none", "running", "complete" or "error"
    shown  \* the user has tracks

vars == <<money, work, shown>>

Init == money = "none" /\ work = "none" /\ shown = FALSE

Charge == money = "none" /\ money' = "charged" /\ UNCHANGED <<work, shown>>

Accept ==
    /\ money = "charged" /\ work = "none"
    /\ work' = "running"
    /\ UNCHANGED <<money, shown>>

Finish ==
    /\ work = "running"
    /\ work' \in {"complete", "error"}
    /\ UNCHANGED <<money, shown>>

Refund ==
    /\ money = "charged" /\ work \in {"none", "error"}
    /\ money' = "refunded"
    /\ UNCHANGED <<work, shown>>

\* A running task may already have its first track.
Show == work # "none" /\ shown' = TRUE /\ UNCHANGED <<money, work>>

Next == Charge \/ Accept \/ Finish \/ Refund \/ Show

Spec == Init /\ [][Next]_vars
=============================================================================
