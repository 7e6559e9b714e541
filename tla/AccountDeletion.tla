--------------------------- MODULE AccountDeletion ---------------------------
(***************************************************************************)
(* A user who has one personal voice at Mureka leaves: the voice profile   *)
(* and the job that clones it, the deletion asked for by the user or by    *)
(* Clerk, the tickets that ask Mureka to delete a vocal, the e-mail job    *)
(* and the operator who move a ticket on, and the finalization that waits  *)
(* for all tickets.  They share three rows and lock none of them.          *)
(*                                                                         *)
(* A step is one statement, transaction, vendor call or queue call; reads  *)
(* that follow each other in a handler are one step.                       *)
(***************************************************************************)
EXTENDS Integers, FiniteSets

CONSTANTS
    Vocals,     \* ids Mureka can give to clones of this voice
    Tickets,    \* ProviderDataDeletionRequest rows that can exist
    CloneTries, \* BullMQ attempts of the clone job (3 in the code)
    MailTries,  \* BullMQ attempts of the e-mail job (5 in the code)
    MaxMishaps, \* bound: crashes, failing statements and early sweeps
    Worlds,     \* sets of circumstances; a behaviour runs in one of them
    NoVocal

ASSUME VocalAssumption == NoVocal \notin Vocals

Circumstances ==
    {"late_clone", \* the deletion begins while the voice is being made
     "prompt_ops", \* an operator confirms while the deletion still runs
     "both",       \* the user's request and Clerk's event, not only one
     "login",      \* the user signs in, or changes the address at Clerk
     "mishap",     \* a process dies, a statement or an enqueue fails
     "full_batch"} \* the refund pass may never come to this profile

VARIABLES
    world,    \* the circumstances of this behaviour
    mishaps,  \* how many mishaps happened
    user,     \* User and AccountDeletionRequest
    identity, \* the user at Clerk: "kept", "gone", or gone and "told" to us
    login,    \* syncAuthUser is about to write the e-mail address
    profile,  \* VoiceProfile
    purged,   \* the audio of its sample was deleted
    charge,   \* its ledger rows: "none", "spent", "refunded"
    maker,    \* the API request that makes the profile
    vocals,   \* vocals made at Mureka
    clone,    \* the job mureka_vocal_clone with its execution
    ticket,   \* ProviderDataDeletionRequest rows
    mail,     \* the job that e-mails each ticket to Mureka
    eraser    \* the handlers that delete and finalize

vars == <<world, mishaps, user, identity, login, profile, purged, charge,
          maker, vocals, clone, ticket, mail, eraser>>

Erasers == {"self", "clerk", "ops"}

InFlow == {"deletion_requested", "deleted_locally", "provider_deletion_pending",
           "provider_deleted"}

OpenStatuses == {"pending", "submitting", "submitted_to_provider", "submit_failed"}

NoJob  == [state |-> "absent", made |-> 0, stalls |-> 0]
NewJob == [NoJob EXCEPT !.state = "waiting"]
Idle   == [pc |-> "idle", saw |-> "absent", vocal |-> NoVocal, next |-> "active"]

Init ==
    /\ world \in Worlds /\ mishaps = 0
    /\ user = [status |-> "active", finalized |-> FALSE, email |-> "own"]
    /\ identity = "kept" /\ login = FALSE
    /\ profile = [status |-> "absent", vocal |-> NoVocal, deleted |-> FALSE]
    /\ purged = FALSE /\ charge = "none" /\ maker = "idle" /\ vocals = {}
    /\ clone = [job |-> NoJob, known |-> NoVocal, pc |-> "idle", got |-> NoVocal]
    /\ ticket = [t \in Tickets |-> [status |-> "none", vocal |-> NoVocal,
                                    asked |-> FALSE]]
    /\ mail = [t \in Tickets |-> [job |-> NoJob, pc |-> "idle"]]
    /\ eraser = [e \in Erasers |-> Idle]

Mishap ==
    /\ "mishap" \in world /\ mishaps < MaxMishaps
    /\ mishaps' = mishaps + 1

AnyOf(S) == IF S = {} THEN {} ELSE {CHOOSE x \in S : TRUE}

IsOpen(t) == ticket[t].status \in OpenStatuses
SomeOpen  == \E t \in Tickets : IsOpen(t)

\* A ticket for vocal v, unless one is open; BY says who made it.
AddTicket(v, asked) ==
    IF SomeOpen THEN {ticket}
    ELSE {[ticket EXCEPT ![t] = [status |-> "pending", vocal |-> v, asked |-> asked]] :
             t \in AnyOf({t \in Tickets : ticket[t].status = "none"})}

\* BullMQ: a returned job is completed, a thrown one tried again while it has
\* attempts, and that of a dead worker once more (maxStalledCount).
Completed(j) == [j EXCEPT !.state = "completed"]
ThrownForever(j, tries) == \* mutant of Thrown: the attempts are not counted
    [j EXCEPT !.made = @ + 1, !.state = "waiting"]
Thrown(j, tries) ==
    [j EXCEPT !.made = @ + 1, !.state = IF j.made + 1 < tries THEN "waiting" ELSE "failed"]
Stalled(j) ==
    [j EXCEPT !.stalls = @ + 1, !.state = IF j.stalls < 1 THEN "waiting" ELSE "failed"]

\* refundOriginalSpend
Refunded(c) == IF c = "spent" THEN "refunded" ELSE c

-----------------------------------------------------------------------------
(* Making a voice *)

\* The request passes authentication and reads and converts the sample.
BeginProfile ==
    /\ maker = "idle" /\ user.status = "active" /\ profile.status = "absent"
    /\ "late_clone" \in world \/ identity = "kept"
    /\ maker' = "commit"
    /\ UNCHANGED <<world, mishaps, user, identity, login, profile, purged, charge,
                   vocals, clone, ticket, mail, eraser>>

\* createProfileInTransaction: the profile and its spend.
CommitProfile ==
    /\ maker = "commit"
    /\ profile' = [profile EXCEPT !.status = "creating"]
    /\ charge' = "spent" /\ maker' = "enqueue"
    /\ UNCHANGED <<world, mishaps, user, identity, login, purged, vocals, clone,
                   ticket, mail, eraser>>

EnqueueProfile ==
    /\ maker = "enqueue"
    /\ clone' = [clone EXCEPT !.job = NewJob]
    /\ maker' = "done"
    /\ UNCHANGED <<world, mishaps, user, identity, login, profile, purged, charge,
                   vocals, ticket, mail, eraser>>

\* The add throws, and the queue may have it all the same.
EnqueueUnheard ==
    /\ maker = "enqueue" /\ Mishap
    /\ clone' \in {clone, [clone EXCEPT !.job = NewJob]}
    /\ maker' = "compensate"
    /\ UNCHANGED <<world, user, identity, login, profile, purged, charge, vocals,
                   ticket, mail, eraser>>

\* markFailedAndRefund: the status is set whatever it is by now.
MarkFailedAndRefund ==
    /\ maker = "compensate"
    /\ profile' = [profile EXCEPT !.status = "failed"]
    /\ charge' = Refunded(charge) /\ maker' = "done"
    /\ UNCHANGED <<world, mishaps, user, identity, login, purged, vocals, clone,
                   ticket, mail, eraser>>

MakerDies ==
    /\ maker \notin {"idle", "done"} /\ Mishap
    /\ maker' = "done"
    /\ UNCHANGED <<world, user, identity, login, profile, purged, charge, vocals,
                   clone, ticket, mail, eraser>>

-----------------------------------------------------------------------------
(* The clone job: one execution at a time *)

\* isVoiceProfileBlockedForProviderUse: a failed profile is one too, so the
\* branch that refunds it is never reached.
Blocked == profile.deleted \/ profile.status \in InFlow \cup {"failed"}

CloneStarts ==
    /\ clone.job.state = "waiting"
    /\ LET pc == CASE profile.status = "ready" -> "return"
                   [] profile.status # "ready" /\ Blocked ->
                         IF clone.known = NoVocal THEN "return" ELSE "retain"
                   [] OTHER -> IF clone.known = NoVocal THEN "load" ELSE "persist"
       IN  clone' = [clone EXCEPT !.job.state = "active", !.pc = pc, !.got = clone.known]
    /\ UNCHANGED <<world, mishaps, user, identity, login, profile, purged, charge,
                   maker, vocals, ticket, mail, eraser>>

CloneReturns ==
    /\ clone.pc = "return"
    /\ clone' = [clone EXCEPT !.job = Completed(@), !.pc = "idle", !.got = NoVocal]
    /\ UNCHANGED <<world, mishaps, user, identity, login, profile, purged, charge,
                   maker, vocals, ticket, mail, eraser>>

\* The sample is read from the storage, or is gone or unusable.
LoadSample ==
    /\ clone.pc = "load"
    /\ \/ ~purged /\ clone' = [clone EXCEPT !.pc = "recheck"]
       \/ clone' = [clone EXCEPT !.pc = "fail"]
    /\ UNCHANGED <<world, mishaps, user, identity, login, profile, purged, charge,
                   maker, vocals, ticket, mail, eraser>>

\* profileBeforeHttp
Recheck ==
    /\ clone.pc = "recheck"
    /\ clone' = [clone EXCEPT !.pc = IF Blocked THEN "return" ELSE "http"]
    /\ UNCHANGED <<world, mishaps, user, identity, login, profile, purged, charge,
                   maker, vocals, ticket, mail, eraser>>

\* createVocalClone answers with a vocal, whose id the job stores, or tries to.
VocalHeard ==
    /\ clone.pc = "http"
    /\ \E v \in AnyOf(Vocals \ vocals) :
          /\ vocals' = vocals \cup {v}
          /\ clone' = [clone EXCEPT !.pc = "persist", !.got = v, !.known = v]
    /\ UNCHANGED <<world, mishaps, user, identity, login, profile, purged, charge,
                   maker, ticket, mail, eraser>>

\* An error: an ambiguous one may have made a vocal all the same.  One that
\* can be retried is, as long as the job has attempts.
VocalError ==
    /\ clone.pc = "http"
    /\ \/ UNCHANGED vocals
       \/ \E v \in AnyOf(Vocals \ vocals) : vocals' = vocals \cup {v}
    /\ \/ /\ clone.job.made + 1 < CloneTries
          /\ clone' = [clone EXCEPT !.job = Thrown(@, CloneTries), !.pc = "idle"]
       \/ clone' = [clone EXCEPT !.pc = "fail"]
    /\ UNCHANGED <<world, mishaps, user, identity, login, profile, purged, charge,
                   maker, ticket, mail, eraser>>

\* failVoiceProfile: by status, and then the refund whether or not it was set.
FailProfile ==
    /\ clone.pc = "fail"
    /\ profile' = IF profile.status = "creating" /\ ~profile.deleted
                  THEN [profile EXCEPT !.status = "failed"] ELSE profile
    /\ clone' = [clone EXCEPT !.pc = "refund"]
    /\ UNCHANGED <<world, mishaps, user, identity, login, purged, charge, maker,
                   vocals, ticket, mail, eraser>>

RefundProfile ==
    /\ clone.pc = "refund"
    /\ charge' = Refunded(charge)
    /\ clone' = [clone EXCEPT !.pc = "return"]
    /\ UNCHANGED <<world, mishaps, user, identity, login, profile, purged, maker,
                   vocals, ticket, mail, eraser>>

\* Mutant of PersistReady: the update asks for no status.
PersistAnyway ==
    /\ clone.pc = "persist"
    /\ profile' = [profile EXCEPT !.status = "ready", !.vocal = clone.got]
    /\ clone' = [clone EXCEPT !.pc = "return"]
    /\ UNCHANGED <<world, mishaps, user, identity, login, purged, charge, maker,
                   vocals, ticket, mail, eraser>>

\* persistReadyProfile
PersistReady ==
    /\ clone.pc = "persist"
    /\ IF profile.status = "creating" /\ ~profile.deleted
       THEN /\ profile' = [profile EXCEPT !.status = "ready", !.vocal = clone.got]
            /\ clone' = [clone EXCEPT !.pc = "return"]
       ELSE /\ UNCHANGED profile
            /\ clone' = [clone EXCEPT !.pc =
                  IF profile.deleted \/ profile.status = "failed" THEN "retain" ELSE "return"]
    /\ UNCHANGED <<world, mishaps, user, identity, login, purged, charge, maker,
                   vocals, ticket, mail, eraser>>

\* retainVocalIdForManualDeletion: a vocal that came too late gets a ticket,
\* which no job will e-mail.
RetainVocal ==
    /\ clone.pc = "retain"
    /\ profile' = [profile EXCEPT !.vocal = clone.got]
    /\ ticket' \in AddTicket(clone.got, FALSE)
    /\ clone' = [clone EXCEPT !.pc = "return"]
    /\ UNCHANGED <<world, mishaps, user, identity, login, purged, charge, maker,
                   vocals, mail, eraser>>

\* A statement, the storage or the queue throws; the id in the job may be
\* the one the failed update of the job did not store.
CloneThrows ==
    /\ clone.pc # "idle" /\ Mishap
    /\ \E known \in {clone.known, NoVocal} :
          clone' = [clone EXCEPT !.job = Thrown(@, CloneTries), !.pc = "idle",
                                 !.got = NoVocal, !.known = known]
    /\ UNCHANGED <<world, user, identity, login, profile, purged, charge, maker,
                   vocals, ticket, mail, eraser>>

CloneDies ==
    /\ clone.pc # "idle" /\ Mishap
    /\ \E known \in {clone.known, NoVocal} :
          clone' = [clone EXCEPT !.job = Stalled(@), !.pc = "idle", !.got = NoVocal,
                                 !.known = known]
    /\ UNCHANGED <<world, user, identity, login, profile, purged, charge, maker,
                   vocals, ticket, mail, eraser>>

\* Mutant of FailStuckClone: only a clone whose job has failed is stuck.
FailFailedClone ==
    /\ profile.status = "creating" /\ ~profile.deleted /\ profile.vocal = NoVocal
    /\ clone.job.state = "failed"
    /\ profile' = [profile EXCEPT !.status = "failed"]
    /\ UNCHANGED <<world, mishaps, user, identity, login, purged, charge, maker,
                   vocals, clone, ticket, mail, eraser>>

\* reconcileStuckVoiceClones: 15 minutes without a change.  By then the job
\* is over, or the queue is that late.
FailStuckClone ==
    /\ profile.status = "creating" /\ ~profile.deleted /\ profile.vocal = NoVocal
    /\ \/ /\ maker = "done" /\ clone.job.state \notin {"waiting", "active"}
          /\ UNCHANGED mishaps
       \/ Mishap
    /\ profile' = [profile EXCEPT !.status = "failed"]
    /\ UNCHANGED <<world, user, identity, login, purged, charge, maker, vocals,
                   clone, ticket, mail, eraser>>

\* reconcileMissingVoiceRefunds.  It reads one batch of failed profiles in no
\* order, refunded ones included, and ends at the first refund that throws:
\* see Fairness.
RefundFailedClone ==
    /\ profile.status = "failed" /\ charge = "spent"
    /\ charge' = "refunded"
    /\ UNCHANGED <<world, mishaps, user, identity, login, profile, purged, maker,
                   vocals, clone, ticket, mail, eraser>>

-----------------------------------------------------------------------------
(* Leaving *)

At(e, pc) == eraser' = [eraser EXCEPT ![e].pc = pc]

\* Whether the deletion may begin now, or be asked for by E.
MayBegin(e) ==
    /\ "late_clone" \in world \/ (maker \in {"idle", "done"} /\ clone.pc = "idle"
                                    /\ clone.job.state # "waiting")
    /\ "both" \in world \/ \A o \in {"self", "clerk"} \ {e} : eraser[o].pc = "idle"

\* requestAccountDeletion: once, as any later status makes it return early.
AskDeletion ==
    /\ eraser["self"].pc = "idle" /\ MayBegin("self") /\ user.status = "active"
    /\ "both" \in world \/ identity = "kept"
    /\ user' = [user EXCEPT !.status = "deletion_requested"]
    /\ At("self", "list")
    /\ UNCHANGED <<world, mishaps, identity, login, profile, purged, charge, maker,
                   vocals, clone, ticket, mail>>

\* The user is deleted at Clerk, and Clerk will tell until it hears 200.
DeletedAtClerk ==
    /\ identity = "kept"
    /\ "both" \in world \/ user.status = "active"
    /\ identity' = "gone"
    /\ UNCHANGED <<world, mishaps, user, login, profile, purged, charge, maker,
                   vocals, clone, ticket, mail, eraser>>

\* handleClerkUserDeleted
UserDeleted ==
    /\ eraser["clerk"].pc = "idle" /\ identity = "gone" /\ MayBegin("clerk")
    /\ IF user.status = "deleted" /\ user.finalized
       THEN identity' = "told" /\ UNCHANGED eraser
       ELSE /\ eraser' = [eraser EXCEPT !["clerk"].pc = "list",
                                        !["clerk"].next = user.status]
            /\ UNCHANGED identity
    /\ UNCHANGED <<world, mishaps, user, login, profile, purged, charge, maker,
                   vocals, clone, ticket, mail>>

AfterVoice(e) == IF e = "clerk" THEN "anonymize" ELSE "count"

\* requestDeletionForAllUserVoiceProfiles: what it lists is used to the end.
ListProfiles(e) ==
    /\ eraser[e].pc = "list"
    /\ eraser' = [eraser EXCEPT ![e].saw = profile.status, ![e].vocal = profile.vocal,
                                ![e].pc = IF profile.status \in InFlow \cup {"absent"}
                                          THEN AfterVoice(e) ELSE "delete"]
    /\ UNCHANGED <<world, mishaps, user, identity, login, profile, purged, charge,
                   maker, vocals, clone, ticket, mail>>

\* executeVoiceProfileDeletion: the transaction, which updates by id and asks
\* for the vocal that the list showed.
DeleteProfile(e) ==
    /\ eraser[e].pc = "delete"
    /\ profile' = [profile EXCEPT !.status = "deletion_requested", !.deleted = TRUE]
    /\ ticket' \in IF eraser[e].vocal = NoVocal THEN {ticket}
                   ELSE AddTicket(eraser[e].vocal, TRUE)
    /\ At(e, IF ticket' = ticket THEN "unqueue" ELSE "enqueue")
    /\ UNCHANGED <<world, mishaps, user, identity, login, purged, charge, maker,
                   vocals, clone, mail>>

\* enqueueProviderDataDeletionSubmitJob, whose errors are only logged.
EnqueueMail(e) ==
    /\ eraser[e].pc = "enqueue"
    /\ \/ /\ mail' = [t \in Tickets |->
                        IF ticket[t].asked /\ mail[t].job = NoJob
                        THEN [mail[t] EXCEPT !.job = NewJob] ELSE mail[t]]
          /\ UNCHANGED mishaps
       \/ Mishap /\ UNCHANGED mail
    /\ At(e, "unqueue")
    /\ UNCHANGED <<world, user, identity, login, profile, purged, charge, maker,
                   vocals, clone, ticket>>

\* removeMurekaVocalCloneJobIfQueued
UnqueueClone(e) ==
    /\ eraser[e].pc = "unqueue"
    /\ clone' = IF clone.job.state = "waiting" THEN [clone EXCEPT !.job = NoJob] ELSE clone
    /\ At(e, "purge")
    /\ UNCHANGED <<world, mishaps, user, identity, login, profile, purged, charge,
                   maker, vocals, ticket, mail>>

\* purgeSourceSampleAudio
PurgeSample(e) ==
    /\ eraser[e].pc = "purge"
    /\ purged' = TRUE
    /\ At(e, IF purged THEN "refund" ELSE "mark")
    /\ UNCHANGED <<world, mishaps, user, identity, login, profile, charge, maker,
                   vocals, clone, ticket, mail>>

MarkDeletedLocally(e) ==
    /\ eraser[e].pc = "mark"
    /\ profile' = [profile EXCEPT !.status = "deleted_locally"]
    /\ At(e, "refund")
    /\ UNCHANGED <<world, mishaps, user, identity, login, purged, charge, maker,
                   vocals, clone, ticket, mail>>

\* A voice that was listed as being made is refunded.
RefundUnmade(e) ==
    /\ eraser[e].pc = "refund"
    /\ charge' = IF eraser[e].saw = "creating" THEN Refunded(charge) ELSE charge
    /\ At(e, AfterVoice(e))
    /\ UNCHANGED <<world, mishaps, user, identity, login, profile, purged, maker,
                   vocals, clone, ticket, mail>>

\* Clerk's event: the status read at its beginning is written back.
Anonymize ==
    /\ eraser["clerk"].pc = "anonymize"
    /\ user' = [user EXCEPT !.email = "anonymous",
                            !.status = IF eraser["clerk"].next = "active"
                                       THEN "deletion_requested" ELSE eraser["clerk"].next]
    /\ At("clerk", "count")
    /\ UNCHANGED <<world, mishaps, identity, login, profile, purged, charge, maker,
                   vocals, clone, ticket, mail>>

-----------------------------------------------------------------------------
(* tryFinalizeAccountDeletion: after the deletion, Clerk's event, and the   *)
(* confirmation of a ticket                                                 *)

\* The end of the handler; Clerk hears 200.
Done(e) ==
    /\ eraser' = [eraser EXCEPT ![e] = [Idle EXCEPT !.pc = IF e = "self" THEN "done"
                                                           ELSE "idle"]]
    /\ identity' = IF e = "clerk" /\ identity = "gone" THEN "told" ELSE identity

\* Mutant of CountOpen: the phase is written only if a ticket is open.
CountOpenOnly(e) ==
    /\ eraser[e].pc = "count"
    /\ IF user.status \in {"active", "deleted"} \/ ~SomeOpen
       THEN At(e, "check")
       ELSE eraser' = [eraser EXCEPT ![e].pc = "phase",
                           ![e].next = "provider_deletion_pending"]
    /\ UNCHANGED <<world, mishaps, user, identity, login, profile, purged, charge,
                   maker, vocals, clone, ticket, mail>>

\* refreshAccountDeletionProviderPhase reads the status and counts the open
\* tickets, and writes by id.
CountOpen(e) ==
    /\ eraser[e].pc = "count"
    /\ IF user.status \in {"active", "deleted"}
       THEN At(e, "check")
       ELSE eraser' = [eraser EXCEPT ![e].pc = "phase",
                           ![e].next = IF SomeOpen THEN "provider_deletion_pending"
                                       ELSE "ready_for_finalization"]
    /\ UNCHANGED <<world, mishaps, user, identity, login, profile, purged, charge,
                   maker, vocals, clone, ticket, mail>>

WritePhase(e) ==
    /\ eraser[e].pc = "phase"
    /\ user' = [user EXCEPT !.status = eraser[e].next]
    /\ At(e, "check")
    /\ UNCHANGED <<world, mishaps, identity, login, profile, purged, charge, maker,
                   vocals, clone, ticket, mail>>

\* Mutant of CheckReady: the tickets are not counted again.
CheckStatusOnly(e) ==
    /\ eraser[e].pc = "check"
    /\ IF user.status \in {"deletion_requested", "provider_deletion_pending",
                           "ready_for_finalization"}
       THEN At(e, "commit") /\ UNCHANGED identity
       ELSE Done(e)
    /\ UNCHANGED <<world, mishaps, user, login, profile, purged, charge, maker,
                   vocals, clone, ticket, mail>>

CheckReady(e) ==
    /\ eraser[e].pc = "check"
    /\ IF user.status = "deleted" /\ user.finalized
       THEN At(e, "cleanup") /\ UNCHANGED identity
       ELSE IF user.status = "ready_for_finalization"
            THEN At(e, IF SomeOpen THEN "demote" ELSE "commit") /\ UNCHANGED identity
            ELSE Done(e)
    /\ UNCHANGED <<world, mishaps, user, login, profile, purged, charge, maker,
                   vocals, clone, ticket, mail>>

Demote(e) ==
    /\ eraser[e].pc = "demote"
    /\ user' = [user EXCEPT !.status = "provider_deletion_pending"]
    /\ Done(e)
    /\ UNCHANGED <<world, mishaps, login, profile, purged, charge, maker, vocals,
                   clone, ticket, mail>>

\* The transaction looks at the status again, not at the tickets.
Finalize(e) ==
    /\ eraser[e].pc = "commit"
    /\ IF user.status = "deleted" /\ user.finalized
       THEN UNCHANGED <<user, profile>>
       ELSE /\ user' = [status |-> "deleted", finalized |-> TRUE, email |-> "anonymous"]
            /\ profile' = IF profile.status \in {"absent", "provider_deleted"} THEN profile
                          ELSE [profile EXCEPT !.status = "provider_deleted",
                                               !.deleted = TRUE]
    /\ At(e, "cleanup")
    /\ UNCHANGED <<world, mishaps, identity, login, purged, charge, maker, vocals,
                   clone, ticket, mail>>

\* ensureClerkIdentityCleanup: a failure is stored and stays.  Nothing reads
\* the e-mail that says goodbye.
CleanUpIdentity(e) ==
    /\ eraser[e].pc = "cleanup"
    /\ \/ eraser' = [eraser EXCEPT ![e].pc = "told"] /\ UNCHANGED mishaps
          /\ identity' = IF identity = "kept" THEN "gone" ELSE identity
       \/ At(e, "told") /\ Mishap /\ UNCHANGED identity
    /\ UNCHANGED <<world, user, login, profile, purged, charge, maker, vocals,
                   clone, ticket, mail>>

HandlerEnds(e) ==
    /\ eraser[e].pc = "told"
    /\ Done(e)
    /\ UNCHANGED <<world, mishaps, user, login, profile, purged, charge, maker,
                   vocals, clone, ticket, mail>>

Finalizing == {"count", "phase", "check", "demote", "commit", "cleanup", "told"}

\* A statement fails or the process dies.  The user is not asked again;
\* Clerk repeats its event, unless the finalization's error was swallowed.
EraserFails(e) ==
    /\ eraser[e].pc \notin {"idle", "done"} /\ Mishap
    /\ \/ Done(e)
       \/ /\ e = "clerk"
          /\ eraser' = [eraser EXCEPT ![e] = Idle] /\ UNCHANGED identity
    /\ UNCHANGED <<world, user, login, profile, purged, charge, maker, vocals,
                   clone, ticket, mail>>

-----------------------------------------------------------------------------
(* A ticket on its way: the e-mail job and the operator *)

\* The profile of a ticket that was submitted.
Reported ==
    IF profile.status \in {"deletion_requested", "deleted_locally"}
    THEN [profile EXCEPT !.status = "provider_deletion_pending"] ELSE profile

\* Mutant of ClaimMail: only the first attempt claims a ticket.
ClaimPendingOnly(t) ==
    /\ mail[t].job.state = "waiting"
    /\ LET mine == ticket[t].status = "pending" /\ mail[t].job.made = 0
       IN  /\ mail' = [mail EXCEPT ![t] =
                         [job |-> IF mine THEN [@.job EXCEPT !.state = "active"]
                                  ELSE Completed(@.job),
                          pc |-> IF mine THEN "send" ELSE "idle"]]
           /\ ticket' = IF mine THEN [ticket EXCEPT ![t].status = "submitting"] ELSE ticket
    /\ UNCHANGED <<world, mishaps, user, identity, login, profile, purged, charge,
                   maker, vocals, clone, eraser>>

\* claimForEmailSubmit: pending is claimed; submitting is taken over, but by
\* a later attempt only, and a stalled job keeps its number.
ClaimMail(t) ==
    /\ mail[t].job.state = "waiting"
    /\ LET mine == \/ ticket[t].status = "pending"
                   \/ ticket[t].status = "submitting" /\ mail[t].job.made > 0
       IN  /\ mail' = [mail EXCEPT ![t] =
                         [job |-> IF mine THEN [@.job EXCEPT !.state = "active"]
                                  ELSE Completed(@.job),
                          pc |-> IF mine THEN "send" ELSE "idle"]]
           /\ ticket' = IF mine THEN [ticket EXCEPT ![t].status = "submitting"] ELSE ticket
    /\ UNCHANGED <<world, mishaps, user, identity, login, profile, purged, charge,
                   maker, vocals, clone, eraser>>

\* sendMurekaVocalDeletionEmail
SendMail(t) ==
    /\ mail[t].pc = "send"
    /\ \E answer \in {"sent", "retryable", "refused"} :
          mail' = [mail EXCEPT ![t].pc = answer]
    /\ UNCHANGED <<world, mishaps, user, identity, login, profile, purged, charge,
                   maker, vocals, clone, ticket, eraser>>

\* markSubmitted
MailSent(t) ==
    /\ mail[t].pc = "sent"
    /\ IF ticket[t].status = "submitting"
       THEN /\ ticket' = [ticket EXCEPT ![t].status = "submitted_to_provider"]
            /\ profile' = Reported
       ELSE UNCHANGED <<ticket, profile>>
    /\ mail' = [mail EXCEPT ![t] = [job |-> Completed(@.job), pc |-> "idle"]]
    /\ UNCHANGED <<world, mishaps, user, identity, login, purged, charge, maker,
                   vocals, clone, eraser>>

\* releaseClaimToPending and a throw, or markSubmitFailed.
MailFailed(t) ==
    /\ mail[t].pc \in {"retryable", "refused"}
    /\ LET last == mail[t].pc = "refused" \/ mail[t].job.made + 1 >= MailTries
       IN  /\ mail' = [mail EXCEPT ![t] =
                         [job |-> IF last THEN Completed(@.job) ELSE Thrown(@.job, MailTries),
                          pc |-> "idle"]]
           /\ ticket' = CASE last /\ ticket[t].status \in {"pending", "submitting"} ->
                                [ticket EXCEPT ![t].status = "submit_failed"]
                          [] ~last /\ ticket[t].status = "submitting" ->
                                [ticket EXCEPT ![t].status = "pending"]
                          [] OTHER -> ticket
    /\ UNCHANGED <<world, mishaps, user, identity, login, profile, purged, charge,
                   maker, vocals, clone, eraser>>

\* The job throws at a statement, or its worker dies and it stalls.
MailMishap(t) ==
    /\ mail[t].pc # "idle" /\ Mishap
    /\ mail' \in {[mail EXCEPT ![t] = [job |-> Thrown(@.job, MailTries), pc |-> "idle"]],
                  [mail EXCEPT ![t] = [job |-> Stalled(@.job), pc |-> "idle"]]}
    /\ UNCHANGED <<world, user, identity, login, profile, purged, charge, maker,
                   vocals, clone, ticket, eraser>>

\* markProviderDeletionSubmitted, by an operator
MarkSubmitted(t) ==
    /\ ticket[t].status \in {"pending", "submitting", "submit_failed"}
    /\ ticket' = [ticket EXCEPT ![t].status = "submitted_to_provider"]
    /\ profile' = Reported
    /\ UNCHANGED <<world, mishaps, user, identity, login, purged, charge, maker,
                   vocals, clone, mail, eraser>>

\* markProviderDeletionConfirmed, by an operator who heard from Mureka; then
\* the finalization.
MarkConfirmed(t) ==
    /\ IsOpen(t) /\ eraser["ops"].pc = "idle"
    /\ "prompt_ops" \in world \/ \A e \in Erasers : eraser[e].pc \in {"idle", "done"}
    /\ ticket' = [ticket EXCEPT ![t].status = "confirmed"]
    /\ profile' = [profile EXCEPT !.status = "provider_deleted"]
    /\ At("ops", "count")
    /\ UNCHANGED <<world, mishaps, user, identity, login, purged, charge, maker,
                   vocals, clone, mail>>

-----------------------------------------------------------------------------
(* syncAuthUser: the status is read, and the address written by id *)

SyncReads ==
    /\ "login" \in world /\ ~login /\ user.status = "active"
    /\ login' = TRUE
    /\ UNCHANGED <<world, mishaps, user, identity, profile, purged, charge, maker,
                   vocals, clone, ticket, mail, eraser>>

SyncWrites ==
    /\ login
    /\ user' = [user EXCEPT !.email = "own"]
    /\ login' = FALSE
    /\ UNCHANGED <<world, mishaps, identity, profile, purged, charge, maker, vocals,
                   clone, ticket, mail, eraser>>

-----------------------------------------------------------------------------
MakerStep == CommitProfile \/ EnqueueProfile \/ EnqueueUnheard \/ MarkFailedAndRefund

CloneStep ==
    \/ CloneStarts \/ CloneReturns \/ LoadSample \/ Recheck \/ VocalHeard
    \/ VocalError \/ FailProfile \/ RefundProfile \/ PersistReady \/ RetainVocal

EraserStep(e) ==
    \/ ListProfiles(e) \/ DeleteProfile(e) \/ EnqueueMail(e) \/ UnqueueClone(e)
    \/ PurgeSample(e) \/ MarkDeletedLocally(e) \/ RefundUnmade(e) \/ CountOpen(e)
    \/ WritePhase(e) \/ CheckReady(e) \/ Demote(e) \/ Finalize(e)
    \/ CleanUpIdentity(e) \/ HandlerEnds(e)

MailStep(t) == ClaimMail(t) \/ SendMail(t) \/ MailSent(t) \/ MailFailed(t)

Next ==
    \/ BeginProfile \/ MakerStep \/ MakerDies
    \/ CloneStep \/ CloneThrows \/ CloneDies \/ FailStuckClone \/ RefundFailedClone
    \/ AskDeletion \/ DeletedAtClerk \/ UserDeleted \/ Anonymize
    \/ \E e \in Erasers : EraserStep(e) \/ EraserFails(e)
    \/ \E t \in Tickets : \/ MailStep(t) \/ MailMishap(t)
                          \/ MarkSubmitted(t) \/ MarkConfirmed(t)
    \/ SyncReads \/ SyncWrites

Spec == Init /\ [][Next]_vars

\* Handlers and workers go on, the sweeps run every few minutes, and Clerk
\* repeats its event.  Users and operators may do nothing, and neither may the
\* refund pass once a batch of other failed profiles can fill its list.
Fairness ==
    /\ WF_vars(MakerStep) /\ WF_vars(CloneStep)
    /\ WF_vars(FailStuckClone)
    /\ WF_vars("full_batch" \notin world /\ RefundFailedClone)
    /\ WF_vars(UserDeleted) /\ WF_vars(Anonymize)
    /\ \A e \in Erasers : WF_vars(EraserStep(e))
    /\ \A t \in Tickets : WF_vars(MailStep(t))

FairSpec == Spec /\ Fairness

-----------------------------------------------------------------------------
\* A job waits only while it has an attempt left.
JobType(tries) ==
    {j \in [state : {"absent", "waiting", "active", "completed", "failed"},
            made : 0 .. tries, stalls : 0 .. 2] :
        j.state = "waiting" => j.made < tries}

AccountStatuses == {"active", "deletion_requested", "provider_deletion_pending",
                    "ready_for_finalization", "deleted"}

ProfileStatuses == InFlow \cup {"absent", "creating", "ready", "failed"}

TypeOK ==
    /\ world \in Worlds /\ mishaps \in 0 .. MaxMishaps
    /\ user \in [status : AccountStatuses, finalized : BOOLEAN,
                 email : {"own", "anonymous"}]
    /\ identity \in {"kept", "gone", "told"} /\ login \in BOOLEAN
    /\ profile \in [status : ProfileStatuses, vocal : Vocals \cup {NoVocal},
                    deleted : BOOLEAN]
    /\ purged \in BOOLEAN /\ charge \in {"none", "spent", "refunded"}
    /\ maker \in {"idle", "commit", "enqueue", "compensate", "done"}
    /\ vocals \subseteq Vocals
    /\ clone \in [job : JobType(CloneTries), known : Vocals \cup {NoVocal},
                  pc : {"idle", "return", "load", "recheck", "http", "fail", "refund",
                        "persist", "retain"},
                  got : Vocals \cup {NoVocal}]
    /\ ticket \in [Tickets -> [status : OpenStatuses \cup {"none", "confirmed"},
                               vocal : Vocals \cup {NoVocal}, asked : BOOLEAN]]
    /\ mail \in [Tickets -> [job : JobType(MailTries),
                             pc : {"idle", "send", "sent", "retryable", "refused"}]]
    /\ eraser \in [Erasers ->
          [pc : {"idle", "done", "list", "delete", "enqueue", "unqueue", "purge", "mark",
                 "refund", "anonymize"} \cup Finalizing,
           saw : ProfileStatuses, vocal : Vocals \cup {NoVocal}, next : AccountStatuses]]

\* A voice that can be used is paid for, and nobody has asked Mureka to
\* delete it: the failure, the sweep, the refund and the deletion that lose
\* the race with the clone leave it alone, and those that win stop it.
ReadyIsKept ==
    profile.status = "ready" =>
        /\ charge = "spent"
        /\ \A t \in Tickets : ticket[t].vocal = profile.vocal => ticket[t].status = "none"

\* tryFinalizeAccountDeletion: "Finalize when all provider tickets are
\* confirmed (or none required)".  If the voice was not being made when the
\* deletion began, an account is final only when Mureka has confirmed its vocal.
FinalIsConfirmed ==
    "late_clone" \notin world /\ user.finalized /\ profile.vocal # NoVocal =>
        \E t \in Tickets : ticket[t].vocal = profile.vocal /\ ticket[t].status = "confirmed"

Quiet == "mishap" \notin world

\* A charged voice is made or refunded, whichever process dies, unless the
\* account is final first.  Two losses are known: a deletion that is cut short
\* may forget the refund, and what a mishap leaves to the refund pass is not
\* paid back while other failed profiles fill its batch.
ChargedVoiceIsSettled ==
    charge = "spent" ~>
        \/ charge = "refunded" \/ profile.vocal # NoVocal
        \/ user.finalized \/ (~Quiet /\ profile.deleted)
        \/ ("full_batch" \in world /\ mishaps > 0)

\* A ticket of the deletion reaches Mureka or is put before an operator.
TicketIsHandled ==
    Quiet => \A t \in Tickets :
        ticket[t].asked ~> ticket[t].status \in {"submitted_to_provider", "submit_failed",
                                                 "confirmed"}

\* An account whose deletion was asked for becomes final unless a ticket is
\* open, if the operator waits for the deletion to end.
LeavingIsFinished ==
    Quiet /\ "prompt_ops" \notin world =>
        (user.status # "active" ~> (user.status = "deleted" \/ SomeOpen))
=============================================================================
