------------------------------ MODULE InboundMail ------------------------------
(***************************************************************************)
(* A mail that came to a support address at Resend.  Resend tells every    *)
(* environment about it, again and again until it is answered with success *)
(* and sometimes once more; the environment the mail is addressed to       *)
(* fetches it and forwards it to an inbox.  Each environment has its own   *)
(* row of the event, which is read and created but not claimed; forwards   *)
(* of all environments share one idempotency key.  Mails share nothing, so *)
(* there is one.                                                           *)
(*                                                                         *)
(* A step is one statement or one call of Resend.                          *)
(***************************************************************************)
EXTENDS Integers, FiniteSets, Sequences, SequencesExt

CONSTANTS
    Environments, \* deployments that have a webhook and an address
    Slots,        \* webhook requests under way at the same time
    Mails,        \* mails that may arrive, see MailType
    MaxCount, MaxBytes, MaxTotal, \* limits of the attachments
    MaxTries,     \* bound: deliveries to an environment
    MaxFaults     \* bound: faults

ASSUME PostAssumption == Environments # {}

VARIABLES
    letter,   \* the mail at Resend; never changes
    answered, \* environments that answered a delivery with success
    row,      \* of each environment: WebhookEvent.status, or "none"
    handler,  \* each slot: pc, environment, the attachments it has fetched
    sent,     \* the forwards Resend has accepted
    deliveries, faults

postVars == <<letter, answered, row, handler, sent, deliveries, faults>>

\* "for": environments whose address is a recipient; "shown", "fromShown": the
\* webhook lists the recipients and the sender; "blocked": environments that
\* know the sender as one of their own; files: sizes, and whether Resend tells.
MailType ==
    [for : SUBSET Environments, shown : BOOLEAN, fromShown : BOOLEAN,
     blocked : SUBSET Environments, files : Seq([size : Nat, told : BOOLEAN])]

IdleHandler == [pc |-> "idle", env |-> CHOOSE e \in Environments : TRUE, got |-> {}]

PostInit ==
    /\ letter \in Mails
    /\ answered = {} /\ sent = <<>>
    /\ row = [e \in Environments |-> "none"]
    /\ handler = [h \in Slots |-> IdleHandler]
    /\ deliveries = [e \in Environments |-> 0] /\ faults = 0

Goto(h, pc) == handler' = [handler EXCEPT ![h].pc = pc]
End(h) == handler' = [handler EXCEPT ![h] = IdleHandler]
Answer(h) == End(h) /\ answered' = answered \cup {handler[h].env}
Fault == faults < MaxFaults /\ faults' = faults + 1
Env(h) == handler[h].env

\* isAllowedInboundRecipient and shouldIgnoreInboundForLoop.
Allowed(e) == e \in letter.for
Loops(e) == e \in letter.blocked

\* The gates before the event is claimed: what the webhook does not show
\* cannot stop it.
ForeignAtOnce(e) == letter.shown /\ ~Allowed(e)
LoopsAtOnce(e) == letter.fromShown /\ Loops(e)

\* runOnceWebhookEvent: only success ends an event.
ConcludedEarly(e) == row[e] # "none" \* mutant of Concluded: the row is a claim
Concluded(e) == row[e] = "succeeded"

\* A delivery, up to the first read of the row.
Deliver(h, e) ==
    /\ handler[h].pc = "idle" /\ deliveries[e] < MaxTries
    /\ deliveries' = [deliveries EXCEPT ![e] = @ + 1]
    /\ \/ /\ IF ForeignAtOnce(e) \/ LoopsAtOnce(e) \/ Concluded(e)
             THEN answered' = answered \cup {e} /\ UNCHANGED handler
             ELSE /\ handler' = [handler EXCEPT ![h] = [IdleHandler EXCEPT !.env = e,
                                    !.pc = IF row[e] = "none" THEN "create" ELSE "fetch"]]
                  /\ UNCHANGED answered
          /\ UNCHANGED faults
       \/ Fault /\ UNCHANGED <<handler, answered>> \* no configuration, no database
    /\ UNCHANGED <<letter, row, sent>>

\* The insert, or after its unique key another read.
Create(h) ==
    /\ handler[h].pc = "create"
    /\ IF Concluded(Env(h)) THEN Answer(h) /\ UNCHANGED row
       ELSE /\ row' = [row EXCEPT ![Env(h)] = IF @ = "none" THEN "processing" ELSE @]
            /\ Goto(h, "fetch") /\ UNCHANGED answered
    /\ UNCHANGED <<letter, sent, deliveries, faults>>

\* selectInboundAttachmentsForForward: the positions that are taken, in order;
\* a size that is not told counts for nothing.
Fits(taken, total, file) ==
    /\ Cardinality(taken) < MaxCount
    /\ file.told => file.size <= MaxBytes /\ total + file.size <= MaxTotal

Selected(files) ==
    LET Take(acc, i) ==
            IF Fits(acc.taken, acc.total, files[i])
            THEN [taken |-> acc.taken \cup {i},
                  total |-> acc.total + IF files[i].told THEN files[i].size ELSE 0]
            ELSE acc
    IN  FoldLeft(Take, [taken |-> {}, total |-> 0],
                 [i \in DOMAIN files |-> i]).taken

Downloadable(files) == {i \in Selected(files) : files[i].size <= MaxBytes}

\* The mail is fetched and looked at again, its attachments are downloaded;
\* one that fails is left out, anything else that fails ends the handler.
Fetch(h) ==
    /\ handler[h].pc = "fetch"
    /\ \/ /\ IF Loops(Env(h)) \/ ~Allowed(Env(h)) THEN Goto(h, "succeed")
             ELSE \E got \in SUBSET Downloadable(letter.files) :
                    handler' = [handler EXCEPT ![h].pc = "send", ![h].got = got]
          /\ UNCHANGED faults
       \/ Goto(h, "fail") /\ Fault
    /\ UNCHANGED <<letter, answered, row, sent, deliveries>>

\* resend-inbound-forward:<email id> is known to Resend.
NeverKnown == FALSE \* mutant of KeyKnown: a key of its own for each forward
KeyKnown == sent # <<>>

\* What is forwarded is named by who sends it, with which attachments: both
\* are part of the request, so a repetition may be another request.
Forward(h) == [by |-> Env(h), files |-> handler[h].got]

\* sendEmailViaResend.  A key that is known sends nothing: the answer is the
\* first one, or a refusal of another request under the same key.
Send(h) ==
    /\ handler[h].pc = "send"
    /\ \/ /\ KeyKnown /\ UNCHANGED <<sent, faults>>
          /\ \/ Goto(h, "succeed")
             \/ Forward(h) # Head(sent) /\ Goto(h, "fail")
       \/ /\ ~KeyKnown /\ sent' = Append(sent, Forward(h))
          /\ Goto(h, "succeed") /\ UNCHANGED faults
       \/ /\ ~KeyKnown /\ sent' = Append(sent, Forward(h)) \* the answer is lost
          /\ Goto(h, "fail") /\ Fault
       \/ Goto(h, "fail") /\ Fault /\ UNCHANGED sent
    /\ UNCHANGED <<letter, answered, row, deliveries>>

\* The update to succeeded; when it throws, the catch writes failed.
Succeed(h) ==
    /\ handler[h].pc = "succeed"
    /\ \/ row' = [row EXCEPT ![Env(h)] = "succeeded"] /\ Answer(h) /\ UNCHANGED faults
       \/ Goto(h, "fail") /\ Fault /\ UNCHANGED <<row, answered>>
    /\ UNCHANGED <<letter, sent, deliveries>>

\* The catch: whatever the row says, it is failed, and Resend is told so.
Fail(h) ==
    /\ handler[h].pc = "fail"
    /\ row' = [row EXCEPT ![Env(h)] = "failed"] /\ End(h)
    /\ UNCHANGED <<letter, answered, sent, deliveries, faults>>

\* The process dies, or the statement of Create or Fail throws.
Dies(h) ==
    /\ handler[h].pc # "idle" /\ Fault /\ End(h)
    /\ UNCHANGED <<letter, answered, row, sent, deliveries>>

Goes(h) == Create(h) \/ Fetch(h) \/ Send(h) \/ Succeed(h) \/ Fail(h)

PostNext == \E h \in Slots : Goes(h) \/ Dies(h) \/ \E e \in Environments : Deliver(h, e)

PostSpec == PostInit /\ [][PostNext]_postVars

\* Resend delivers until an environment answers; a request that has begun
\* goes on.
Redelivers(e) == e \notin answered /\ \E h \in Slots : Deliver(h, e)

PostFairness ==
    /\ \A h \in Slots : WF_postVars(Goes(h))
    /\ \A e \in Environments : WF_postVars(Redelivers(e))

PostFairSpec == PostSpec /\ PostFairness

-----------------------------------------------------------------------------
PostTypeOK ==
    /\ letter \in Mails /\ answered \subseteq Environments
    /\ row \in [Environments -> {"none", "processing", "succeeded", "failed"}]
    /\ handler \in [Slots -> [pc : {"idle", "create", "fetch", "send", "succeed", "fail"},
                              env : Environments, got : SUBSET (1 .. Len(letter.files))]]
    /\ deliveries \in [Environments -> 0 .. MaxTries] /\ faults \in 0 .. MaxFaults

\* One forward, however often and wherever the mail is announced, by an
\* environment it is addressed to, and none of a mail of ours.
ForwardedOnce ==
    /\ Len(sent) <= 1
    /\ \A i \in DOMAIN sent : Allowed(sent[i].by) /\ ~Loops(sent[i].by)

\* A mail that is somebody's is forwarded in the end, though the foreign
\* environment answers at once, processes die and answers are lost, while
\* Resend has more tries than there are faults.
AddressedIsForwarded == (\E e \in Environments : Allowed(e) /\ ~Loops(e)) ~> sent # <<>>
=============================================================================
