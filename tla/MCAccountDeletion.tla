-------------------------- MODULE MCAccountDeletion --------------------------
(***************************************************************************)
(* The deletion of an account, and the mail that comes back to the support *)
(* address.  The two do not share state; they are checked side by side,    *)
(* one of them in each behaviour.                                          *)
(***************************************************************************)
EXTENDS AccountDeletion, InboundMail

CONSTANTS h1, h2

VARIABLE part \* the component that runs; never changes

allVars == <<part, vars, postVars>>

\* One circumstance at a time: together they only multiply the states.
MCWorlds == {{"late_clone"}, {"both"}, {"prompt_ops"}, {"mishap"}, {"login"},
             {"full_batch"}}

Deployed == {"production", "staging"}

File(size, told) == [size |-> size, told |-> told]

TooMany == <<File(3, FALSE), File(2, TRUE), File(1, TRUE)>>

\* Somebody's mail to one address, to both or to neither, announced with its
\* recipients or without, and one of our own; with an attachment that is too
\* large for its untold size and two that fill the limits, or with none.
Letter(for, shown, fromShown, blocked, files) ==
    [for |-> for, shown |-> shown, fromShown |-> fromShown,
     blocked |-> blocked, files |-> files]

MCMails ==
    {Letter({"production"}, shown, FALSE, {}, files) :
        shown \in BOOLEAN, files \in {<<>>, TooMany}}
    \cup {Letter(Deployed, TRUE, FALSE, {}, TooMany)}
    \cup {Letter({}, shown, FALSE, {}, <<>>) : shown \in BOOLEAN}
    \cup {Letter({"production"}, TRUE, shown, Deployed, <<>>) : shown \in BOOLEAN}

MCInit ==
    /\ part \in {"account", "post"}
    /\ Init /\ (part # "account" => world = {"mishap"})
    /\ PostInit /\ (part # "post" => letter = Letter({}, FALSE, FALSE, {}, <<>>))

OnlyAccount == part = "account" /\ UNCHANGED <<part, postVars>>
OnlyPost == part = "post" /\ UNCHANGED <<part, vars>>

MCNext ==
    \/ OnlyAccount /\ Next
    \/ OnlyPost /\ PostNext

\* The fairness of each component, while it runs.
MCFairness ==
    /\ WF_vars(part = "account" /\ MakerStep) /\ WF_vars(part = "account" /\ CloneStep)
    /\ WF_vars(part = "account" /\ FailStuckClone)
    /\ WF_vars(part = "account" /\ "full_batch" \notin world /\ RefundFailedClone)
    /\ WF_vars(part = "account" /\ UserDeleted) /\ WF_vars(part = "account" /\ Anonymize)
    /\ \A e \in Erasers : WF_vars(part = "account" /\ EraserStep(e))
    /\ \A t \in Tickets : WF_vars(part = "account" /\ MailStep(t))
    /\ \A h \in Slots : WF_postVars(part = "post" /\ Goes(h))
    /\ \A e \in Deployed : WF_postVars(part = "post" /\ Redelivers(e))

MCSpec == MCInit /\ [][MCNext]_allVars /\ MCFairness

=============================================================================
