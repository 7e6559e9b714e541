------------------------------ MODULE CashRefund ------------------------------
(***************************************************************************)
(* The cash refunds of one purchase: the requests, their approval, the     *)
(* BullMQ job of each, the worker that talks to the bank, that is          *)
(* processFlittRefundJob or processTbcRefundJob, and the recovery sweep.   *)
(*                                                                         *)
(* The two processors have one shape and differ in what they ask the bank  *)
(* and in when they believe that money went back:                          *)
(*   flitt  reverse, idempotent by reverse_id, with a cumulative amount;   *)
(*   tbc    cancel, not idempotent, with a status and no amount.           *)
(*                                                                         *)
(* What a refund does to credits is module CreditLedger; here a settlement *)
(* succeeds, or finds the units spent.  A step is one database statement,  *)
(* one call of the bank or one call of the queue.                          *)
(***************************************************************************)
EXTENDS Integers, FiniteSets, Functions

CONSTANTS
    Requests,     \* refund requests of the purchase
    Execs,        \* worker slots of the refund queue
    Amounts,      \* money an approval may grant
    Price,        \* what the purchase cost
    MaxTries,     \* BullMQ attempts of a job (5 in the code)
    MaxStalls,    \* BullMQ maxStalledCount (its default 1 in the code)
    MaxLosses,    \* bound: how often a job loses its worker
    Environments, \* the bank and the faults of each behaviour
    NoRequest, NoExec

FaultKinds ==
    {"worker_crash", \* a worker dies between two steps
     "lock_loss",    \* a job is redelivered while its worker runs on
     "db_error",     \* a statement of the worker throws
     "redis_loss",   \* the queue forgets its jobs
     "get_error",    \* the bank cannot be read
     "lost_answer",  \* the bank's answer is lost, cut or a 5xx
     "slow_bank",    \* the bank takes its time after it accepted
     "status_lag",   \* and reports the old status meanwhile
     "spent"}        \* the units were spent before the settlement

ASSUME ConstantsAssumption ==
    /\ IsFiniteSet(Requests)
    /\ Price \in Nat \ {0} /\ Amounts \subseteq 1 .. Price
    /\ MaxTries \in Nat \ {0} /\ MaxStalls \in Nat /\ MaxLosses \in Nat
    /\ Environments \subseteq [bank : {"flitt", "tbc"}, faults : SUBSET FaultKinds]
    /\ NoRequest \notin Requests /\ NoExec \notin Execs

VARIABLES
    env,      \* the bank of the purchase and what may go wrong; never changes
    purchase, \* status of the CreditPackPurchase row
    req,      \* RefundRequest rows
    due,      \* approved requests whose handler still has to enqueue the job
    job,      \* the job "flitt-refund-<id>" or "tbc-refund-<id>" of a request
    exec,     \* the worker executions
    asked,    \* refunds of each request that the bank has accepted
    shown     \* and that its status reports

vars == <<env, purchase, req, due, job, exec, asked, shown>>

apiVars == <<env, job, exec, asked, shown>>
bankVars == <<asked, shown>>

Refundable == {"credited", "partial_refunded"}
Counted == {"approved", "processing", "refunded"}
Open == {"requested", "approved", "processing", "needs_review"}
Running == {"approved", "processing"}

BlankRequest == [status |-> "none", amount |-> 0, reference |-> FALSE,
                 note |-> "none"]
BlankJob == [state |-> "absent", tries |-> 0, stalls |-> 0, owner |-> NoExec]
Nothing == [status |-> "held", reversed |-> 0]
IdleExec == [pc |-> "idle", r |-> NoRequest, attempted |-> FALSE,
             seen |-> Nothing, expected |-> 0]

Init ==
    /\ env \in Environments
    /\ purchase = "credited"
    /\ req = [r \in Requests |-> BlankRequest]
    /\ due = {}
    /\ job = [r \in Requests |-> BlankJob]
    /\ exec = [e \in Execs |-> IdleExec]
    /\ asked = [r \in Requests |-> 0]
    /\ shown = [r \in Requests |-> 0]

Fault(f) == f \in env.faults
Flitt == env.bank = "flitt"

\* Money of the requests in some statuses, and money the bank gave back.
MoneyIn(statuses) ==
    SumFunctionOnSet([r \in Requests |-> req[r].amount],
                     {r \in Requests : req[r].status \in statuses})
MoneyBack(count) == SumFunction([r \in Requests |-> req[r].amount * count[r]])

\* hasRefundProviderAttemptMarker: a providerReference, or a providerError
\* that begins with "ambiguous" or "awaiting_provider_status:".
Marked(r) == req[r].reference \/ req[r].note = "attempt"

-----------------------------------------------------------------------------
(* The API: create, review, enqueue *)

\* createRefundRequest up to its last check; nothing is locked.
CreateCheck(r) ==
    /\ req[r].status = "none"
    /\ purchase \in Refundable
    /\ MoneyIn(Counted) < Price
    /\ \A q \in Requests : req[q].status \notin Open
    /\ req' = [req EXCEPT ![r].status = "creating"]
    /\ UNCHANGED <<apiVars, purchase, due>>

CreateCommit(r) ==
    /\ req[r].status = "creating"
    /\ req' = [req EXCEPT ![r].status = "requested"]
    /\ UNCHANGED <<apiVars, purchase, due>>

Reject(r) ==
    /\ req[r].status = "requested"
    /\ req' = [req EXCEPT ![r].status = "rejected"]
    /\ UNCHANGED <<apiVars, purchase, due>>

\* approveRefundRequest.  Under the user lock the entitlement is priced so that
\* it fits beside the counted requests, or the request is parked.
Approve(r) ==
    /\ req[r].status = "requested"
    /\ purchase \in Refundable
    /\ \/ /\ \E a \in Amounts :
                /\ a <= Price - MoneyIn(Counted)
                /\ req' = [req EXCEPT ![r].status = "approved", ![r].amount = a]
          /\ due' = due \cup {r}
       \/ /\ req' = [req EXCEPT ![r].status = "needs_review"]
          /\ due' = due
    /\ UNCHANGED <<apiVars, purchase>>

\* enqueueRefundJobIdempotent: an absent job is added, a failed one retried.
Enqueued(r) ==
    [job EXCEPT ![r].state = IF @ \in {"absent", "failed"} THEN "waiting" ELSE @]

\* The end of approveRefundRequest; a crash before it leaves the job out.
Enqueue(r) ==
    /\ r \in due
    /\ due' = due \ {r}
    /\ job' = Enqueued(r)
    /\ UNCHANGED <<env, purchase, req, exec, bankVars>>

\* Mutant of Recover: the sweep takes the requests it should leave alone.
RecoverMarked(r) ==
    /\ req[r].status = "approved" /\ Marked(r)
    /\ job' = Enqueued(r)
    /\ UNCHANGED <<env, purchase, req, due, exec, bankVars>>

\* reconcileApprovedRefundEnqueues, and an admin's requeueApprovedRefund.
Recover(r) ==
    /\ req[r].status = "approved" /\ ~Marked(r)
    /\ job' = Enqueued(r)
    /\ UNCHANGED <<env, purchase, req, due, exec, bankVars>>

-----------------------------------------------------------------------------
(* The bank *)

\* What its status says; a slow tbc reports CancelPaymentProcessing.
Settled == IF MoneyBack(shown) = 0 THEN "held"
           ELSE IF MoneyBack(shown) = Price THEN "returned" ELSE "partial"
Statuses == IF Flitt \/ asked = shown THEN {Settled}
            ELSE {"processing"} \cup IF Fault("status_lag") THEN {Settled} ELSE {}
Views == [status : Statuses, reversed : {MoneyBack(shown)}]

\* A reverse_id seen before is answered as before.
Repeated(r) == Flitt /\ asked[r] > 0

Accept(r) ==
    \/ Repeated(r) /\ UNCHANGED bankVars
    \/ /\ ~Repeated(r) /\ MoneyBack(asked) + req[r].amount <= Price
       /\ asked' = [asked EXCEPT ![r] = @ + 1]
       /\ \/ shown' = asked'
          \/ Fault("slow_bank") /\ shown' = shown

BankSettles ==
    /\ asked # shown
    /\ shown' = asked
    /\ UNCHANGED <<env, purchase, req, due, job, exec, asked>>

-----------------------------------------------------------------------------
(* The worker *)

Goto(e, pc) == exec' = [exec EXCEPT ![e].pc = pc]

\* The execution ends and its job with it, unless the lock was lost.
End(e, how) ==
    LET r == exec[e].r
        tries == IF job[r].tries < MaxTries THEN job[r].tries + 1 ELSE MaxTries
    IN  /\ exec' = [exec EXCEPT ![e] = IdleExec]
        /\ job' = IF job[r].owner # e THEN job
                  ELSE IF how = "ok"
                  THEN [job EXCEPT ![r].state = "completed", ![r].owner = NoExec]
                  ELSE [job EXCEPT ![r].tries = tries, ![r].owner = NoExec,
                                   ![r].state = IF tries < MaxTries
                                                THEN "waiting" ELSE "failed"]

\* The processor reads the row; later steps use what it read.
Start(e, r) ==
    /\ exec[e].pc = "idle"
    /\ job[r].state = "waiting"
    /\ job' = [job EXCEPT ![r].state = "active", ![r].owner = e]
    /\ exec' = [exec EXCEPT ![e] =
                  [IdleExec EXCEPT !.r = r, !.attempted = Marked(r),
                      !.pc = CASE req[r].status = "approved"   -> "claim"
                               [] req[r].status = "processing" -> "get"
                               [] OTHER -> "done"]]
    /\ UNCHANGED <<env, purchase, req, due, bankVars>>

Done(e) ==
    /\ exec[e].pc = "done"
    /\ End(e, "ok")
    /\ UNCHANGED <<env, purchase, req, due, bankVars>>

\* approved -> processing, or what the row says when another was faster.
Claim(e) ==
    LET r == exec[e].r IN
    /\ exec[e].pc = "claim"
    /\ IF req[r].status = "approved"
       THEN /\ req' = [req EXCEPT ![r].status = "processing"]
            /\ Goto(e, "get") /\ UNCHANGED job
       ELSE /\ req' = req
            /\ \/ req[r].status = "processing" /\ Goto(e, "get") /\ UNCHANGED job
               \/ req[r].status = "refunded" /\ End(e, "ok")
               \/ req[r].status \notin {"processing", "refunded"} /\ End(e, "retry")
    /\ UNCHANGED <<env, purchase, due, bankVars>>

GetStatus(e) ==
    /\ exec[e].pc = "get"
    /\ \/ /\ \E view \in Views :
                exec' = [exec EXCEPT ![e].pc = "decide", ![e].seen = view]
          /\ UNCHANGED job
       \/ Fault("get_error") /\ End(e, "retry")
       \/ Fault("get_error") /\ Goto(e, "park") /\ UNCHANGED job
    /\ UNCHANGED <<env, purchase, req, due, bankVars>>

\* Mutant of Applied: flitt's cumulative amount is held against this request
\* alone.
AppliedToOne(r, view, expected) ==
    IF Flitt THEN view.status = "returned" \/ view.reversed >= req[r].amount
             ELSE view.status \in {"partial", "returned"}

\* isRefundApplied (flitt), isRefundSuccessStatus (tbc).
Applied(r, view, expected) ==
    IF Flitt
    THEN view.status = "returned" \/ (expected > 0 /\ view.reversed >= expected)
    ELSE view.status \in {"partial", "returned"}

\* expectedReversalMinor and the decision whether the bank is asked.
Decide(e) ==
    LET view == exec[e].seen
        expected == IF Flitt THEN MoneyIn(Counted) ELSE 0
        short == Flitt /\ view.reversed < expected
        Move(pc) == exec' = [exec EXCEPT ![e] =
                       [IdleExec EXCEPT !.pc = pc, !.r = exec[e].r,
                                        !.expected = expected]]
    IN  /\ exec[e].pc = "decide"
        /\ IF Applied(exec[e].r, view, expected)
           THEN Move("settle") /\ UNCHANGED job
           ELSE IF view.status = "processing" THEN End(e, "retry")
           ELSE IF exec[e].attempted /\ ~short
           THEN Move("park") /\ UNCHANGED job
           ELSE Move("post") /\ UNCHANGED job
        /\ UNCHANGED <<env, purchase, req, due, bankVars>>

\* provider.refund: taken, refused (4xx, validation), another error, or no
\* usable answer.
AskBank(e) ==
    LET r == exec[e].r IN
    /\ exec[e].pc = "post"
    /\ \/ Accept(r) /\ Goto(e, "record")
       \/ Fault("lost_answer") /\ (Accept(r) \/ UNCHANGED bankVars) /\ Goto(e, "note")
       \/ ~Repeated(r) /\ UNCHANGED bankVars /\ (Goto(e, "fail") \/ Goto(e, "park"))
    /\ UNCHANGED <<env, purchase, req, due, job>>

\* An update that only reaches a row in processing, or in Running.
Update(r, from, row) ==
    req' = IF req[r].status \in from THEN [req EXCEPT ![r] = row] ELSE req

RecordReference(e) ==
    LET r == exec[e].r IN
    /\ exec[e].pc = "record"
    /\ Update(r, {"processing"}, [req[r] EXCEPT !.reference = TRUE])
    /\ Goto(e, "check")
    /\ UNCHANGED <<env, purchase, due, job, bankVars>>

\* Mutant of NoteAttempt: the retry is not told of the attempt.
ForgetAttempt(e) ==
    /\ exec[e].pc = "note"
    /\ Goto(e, "recheck")
    /\ UNCHANGED <<env, purchase, req, due, job, bankVars>>

\* persistAmbiguousReverseAttempted, persistAmbiguousCancelAttempted
NoteAttempt(e) ==
    LET r == exec[e].r IN
    /\ exec[e].pc = "note"
    /\ Update(r, {"processing"}, [req[r] EXCEPT !.note = "attempt"])
    /\ Goto(e, "recheck")
    /\ UNCHANGED <<env, purchase, due, job, bankVars>>

\* The bank is read again after an answer that was lost, and after an "ok".
Recheck(e) ==
    /\ exec[e].pc = "recheck"
    /\ \/ \E view \in Views :
             IF Applied(exec[e].r, view, exec[e].expected)
             THEN Goto(e, "settle") /\ UNCHANGED job
             ELSE IF Flitt \/ view.status = "processing" THEN End(e, "retry")
             ELSE Goto(e, "park_marked") /\ UNCHANGED job
       \/ Fault("get_error") /\ Goto(e, "park_marked") /\ UNCHANGED job
    /\ UNCHANGED <<env, purchase, req, due, bankVars>>

Check(e) ==
    /\ exec[e].pc = "check"
    /\ \/ \E view \in Views :
             IF Applied(exec[e].r, view, exec[e].expected)
             THEN Goto(e, "settle") /\ UNCHANGED job
             ELSE IF view.status = "processing" THEN End(e, "retry")
             ELSE Goto(e, "await") /\ UNCHANGED job
       \/ Fault("get_error") /\ Goto(e, "park") /\ UNCHANGED job
    /\ UNCHANGED <<env, purchase, req, due, bankVars>>

AwaitStatus(e) ==
    LET r == exec[e].r IN
    /\ exec[e].pc = "await"
    /\ Update(r, {"processing"},
              [req[r] EXCEPT !.reference = TRUE, !.note = "attempt"])
    /\ End(e, "retry")
    /\ UNCHANGED <<env, purchase, due, bankVars>>

\* markRefunded, one transaction: the credits, the request if it still runs,
\* and the purchase from what is refunded by now.
MarkRefunded(e) ==
    LET r == exec[e].r IN
    /\ exec[e].pc = "settle"
    /\ \/ /\ Update(r, Running, [req[r] EXCEPT !.status = "refunded",
                                    !.reference = TRUE, !.note = "none"])
          /\ LET back == SumFunctionOnSet(
                            [q \in Requests |-> req[q].amount],
                            {q \in Requests : req'[q].status = "refunded"})
             IN purchase' = IF back >= Price THEN "refunded" ELSE "partial_refunded"
          /\ End(e, "ok")
       \/ /\ Fault("spent") \* CreditClawbackInvariantError
          /\ Goto(e, "park")
          /\ UNCHANGED <<purchase, req, job>>
    /\ UNCHANGED <<env, due, bankVars>>

\* markNeedsReview: the reason replaces providerError, marked or not.
MarkNeedsReview(e) ==
    LET r == exec[e].r IN
    /\ exec[e].pc \in {"park", "park_marked"}
    /\ Update(r, Running,
              [req[r] EXCEPT !.status = "needs_review",
                  !.note = IF exec[e].pc = "park" THEN "other" ELSE "attempt"])
    /\ End(e, "ok")
    /\ UNCHANGED <<env, purchase, due, bankVars>>

MarkFailed(e) ==
    LET r == exec[e].r IN
    /\ exec[e].pc = "fail"
    /\ Update(r, Running, [req[r] EXCEPT !.status = "failed", !.note = "other"])
    /\ End(e, "ok")
    /\ UNCHANGED <<env, purchase, due, bankVars>>

\* A statement throws: inside the try blocks of the refund and of the last
\* check the request is parked, elsewhere the job is retried.
DatabaseError(e) ==
    /\ Fault("db_error")
    /\ \/ exec[e].pc \in {"record", "await"} /\ Goto(e, "park") /\ UNCHANGED job
       \/ /\ exec[e].pc \in {"claim", "note", "settle", "park", "park_marked", "fail"}
          /\ End(e, "retry")
       \/ Flitt /\ exec[e].pc = "decide" /\ End(e, "retry")
    /\ UNCHANGED <<env, purchase, req, due, bankVars>>

Redelivered(r) ==
    [job EXCEPT ![r].owner = NoExec, ![r].stalls = @ + 1,
                ![r].state = IF job[r].stalls < MaxStalls THEN "waiting" ELSE "failed"]

Crash(e) ==
    LET r == exec[e].r IN
    /\ Fault("worker_crash")
    /\ exec[e].pc # "idle" /\ job[r].stalls < MaxLosses
    /\ exec' = [exec EXCEPT ![e] = IdleExec]
    /\ job' = IF job[r].owner = e THEN Redelivered(r) ELSE job
    /\ UNCHANGED <<env, purchase, req, due, bankVars>>

LoseLock(e) ==
    LET r == exec[e].r IN
    /\ Fault("lock_loss")
    /\ exec[e].pc # "idle" /\ job[r].owner = e /\ job[r].stalls < MaxLosses
    /\ job' = Redelivered(r)
    /\ UNCHANGED <<env, purchase, req, due, exec, bankVars>>

LoseRedis ==
    /\ Fault("redis_loss")
    /\ job' = [r \in Requests |-> BlankJob]
    /\ UNCHANGED <<env, purchase, req, due, exec, bankVars>>

-----------------------------------------------------------------------------

Work(e) ==
    \/ \E r \in Requests : Start(e, r)
    \/ Done(e) \/ Claim(e) \/ GetStatus(e) \/ Decide(e) \/ AskBank(e)
    \/ RecordReference(e) \/ NoteAttempt(e) \/ Recheck(e) \/ Check(e)
    \/ AwaitStatus(e) \/ MarkRefunded(e) \/ MarkNeedsReview(e) \/ MarkFailed(e)

Next ==
    \/ \E r \in Requests :
          \/ CreateCheck(r) \/ CreateCommit(r) \/ Reject(r) \/ Approve(r)
          \/ Enqueue(r) \/ Recover(r)
    \/ \E e \in Execs : Work(e) \/ DatabaseError(e) \/ Crash(e) \/ LoseLock(e)
    \/ LoseRedis \/ BankSettles

Spec == Init /\ [][Next]_vars

\* The sweep and the workers run on, and the bank ends what it accepted.
Fairness ==
    /\ \A r \in Requests : WF_vars(Recover(r))
    /\ \A e \in Execs : WF_vars(Work(e))
    /\ WF_vars(BankSettles)

FairSpec == Spec /\ Fairness

-----------------------------------------------------------------------------
(* Properties *)

Rows ==
    [status    : {"none", "creating", "requested", "approved", "processing",
                  "refunded", "rejected", "failed", "needs_review"},
     amount    : Amounts \cup {0},
     reference : BOOLEAN,
     note      : {"none", "attempt", "other"}]

Jobs ==
    [state  : {"absent", "waiting", "active", "completed", "failed"},
     tries  : 0 .. MaxTries,
     stalls : Nat,
     owner  : Execs \cup {NoExec}]

Executions ==
    [pc : {"idle", "done", "claim", "get", "decide", "post", "record", "note",
           "recheck", "check", "await", "settle", "park", "park_marked", "fail"},
     r         : Requests \cup {NoRequest},
     attempted : BOOLEAN,
     seen      : [status : {"held", "processing", "partial", "returned"},
                  reversed : Nat],
     expected  : Nat]

TypeOK ==
    /\ env \in Environments
    /\ purchase \in {"credited", "partial_refunded", "refunded"}
    /\ req \in [Requests -> Rows]
    /\ due \subseteq Requests
    /\ job \in [Requests -> Jobs]
    /\ exec \in [Execs -> Executions]
    /\ asked \in [Requests -> Nat] /\ shown \in [Requests -> Nat]

\* Flitt: the requests that say "refunded" never add up to more money than the
\* bank gave back, although two requests can be opened beside each other, jobs
\* overlap, and each execution compares the bank's running total with a sum it
\* read earlier.
MoneyCovered == Flitt => MoneyIn({"refunded"}) <= MoneyBack(asked)

\* No two executions of one job: it is neither stalled under a worker that
\* runs on, nor forgotten by the queue and added again.
OneExecution == ~Fault("lock_loss") /\ ~Fault("redis_loss")

\* A worker notes its cancel before the next one starts, or the status tells.
MarkerKept ==
    Fault("status_lag") => ~Fault("worker_crash") /\ ~Fault("db_error")

\* TBC: while a job is not executed twice at a time, the bank is asked at most
\* once for a request ("NEVER blind-retry cancel"): a cancel is not idempotent,
\* a second one pays a partial refund out again.  What protects is the marker
\* on the row or a status that shows the cancel; only a bank that lags needs
\* the marker, which a crash or a failed statement loses.
CancelledOnce ==
    ~Flitt /\ OneExecution /\ MarkerKept => \A r \in Requests : asked[r] <= 1

\* "approved -> CAS processing -> TBC cancel -> GET payment reconcile ->
\* refunded": a request is refunded only after a refund of its own.
RefundedWasAsked ==
    \A r \in Requests : req[r].status = "refunded" => asked[r] > 0

\* An approved request is finished without anybody's help, although its enqueue
\* may be lost with the API process and a worker may crash.
ApprovedIsFinished ==
    \A r \in Requests :
        req[r].status = "approved" ~> req[r].status \notin Running

=============================================================================
