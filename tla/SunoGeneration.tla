---------------------------- MODULE SunoGeneration ----------------------------
(***************************************************************************)
(* One Suno song generation, from the charge to its end: the API that      *)
(* commits and enqueues it (commitMusicGeneration, or the remix handler),  *)
(* the BullMQ job of its deterministic id, the worker executions of that   *)
(* job with their submit guard, the vendor, the signed callbacks and the   *)
(* status polls, and the reconciler.                                       *)
(*                                                                         *)
(* Generations do not share state except the user's ledger, whose rows are *)
(* keyed by the generation (module CreditLedger), so one is modelled.      *)
(*                                                                         *)
(* A step is one database statement, one vendor call or one queue call.    *)
(* Executions of the job can overlap: BullMQ gives a job whose lock was    *)
(* lost to another worker while the first one is still running.            *)
(***************************************************************************)
EXTENDS Integers, FiniteSets

CONSTANTS
    Attempts,    \* submitAttemptId values, one per claim
    Execs,       \* worker slots that can execute the job
    Handlers,    \* API requests that handle a callback or a status poll
    MaxAttempts, \* BullMQ attempts of the job (3 in the code)
    MaxStalls,   \* BullMQ maxStalledCount (its default 1 in the code)
    MaxLosses,   \* bound: how often a job loses its worker
    Environments, \* sets of faults; a behaviour runs in one of them
    NoAttempt, NoExec

FaultKinds ==
    {"worker_crash", \* a worker dies between two steps
     "api_crash",    \* an API process does
     "lock_loss",    \* a job is redelivered while its worker runs on
     "db_error",     \* a statement of the worker throws
     "refund_error", \* a refund throws and the caller swallows it
     "lost_reply",   \* the queue takes a job but the enqueue throws
     "eviction"}     \* a finished job leaves the retention window

ASSUME ConstantsAssumption ==
    /\ NoAttempt \notin Attempts /\ NoExec \notin Execs
    /\ MaxAttempts \in Nat \ {0} /\ MaxStalls \in Nat /\ MaxLosses \in Nat
    /\ \A faults \in Environments : faults \subseteq FaultKinds

VARIABLES
    env,    \* the faults of this behaviour; never changes
    api,    \* where the request that creates the record is
    rec,    \* the MusicGeneration row
    spend,  \* the ledger has the spend row
    refund, \* the ledger has the refund row
    tracks, \* track rows were upserted
    job,    \* the BullMQ job "provider:music_generate:<id>"
    exec,   \* the worker executions
    hand,   \* the callback and status handlers
    vendor  \* what became of the POST of each attempt

vars == <<env, api, rec, spend, refund, tracks, job, exec, hand, vendor>>

NoTask == NoAttempt \* providerTaskId still is the "queue:" placeholder

BlankJob == [state |-> "absent", made |-> 0, stalls |-> 0, owner |-> NoExec,
             recovered |-> NoTask]

IdleExec == [pc |-> "idle", last |-> FALSE, attempt |-> NoAttempt,
             task |-> NoTask]

IdleHandler == [pc |-> "idle", kind |-> "none"]

Init ==
    /\ env \in Environments
    /\ api = "none"
    /\ rec = [status |-> "absent", sub |-> "queued", task |-> NoTask,
              attempt |-> NoAttempt]
    /\ spend = FALSE /\ refund = FALSE /\ tracks = FALSE
    /\ job = BlankJob
    /\ exec = [e \in Execs |-> IdleExec]
    /\ hand = [h \in Handlers |-> IdleHandler]
    /\ vendor = [a \in Attempts |-> "unused"]

\* The POSTs that made the vendor start a task.
Accepted == {a \in Attempts : vendor[a] \in {"running", "complete", "error"}}

-----------------------------------------------------------------------------
(* The queue *)

\* enqueueProviderJob: a job is added only where its id is absent.
Added == IF job.state = "absent" THEN [job EXCEPT !.state = "waiting"] ELSE job

\* The stalled check: back to the queue, or failed beyond maxStalledCount.
Stalled ==
    [job EXCEPT !.owner = NoExec, !.stalls = @ + 1,
                !.state = IF job.stalls < MaxStalls THEN "waiting" ELSE "failed"]

\* The job after execution e ends: returned, threw, or threw an
\* UnrecoverableError.  An execution that lost the lock changes nothing.
Ended(e, how) ==
    IF job.owner # e THEN job
    ELSE CASE how = "ok"    -> [job EXCEPT !.state = "completed", !.owner = NoExec]
           [] how = "fatal" -> [job EXCEPT !.state = "failed", !.owner = NoExec]
           [] how = "retry" ->
                [job EXCEPT !.made = @ + 1, !.owner = NoExec,
                            !.state = IF job.made + 1 < MaxAttempts
                                      THEN "waiting" ELSE "failed"]

Evict ==
    /\ "eviction" \in env
    /\ job.state \in {"completed", "failed"}
    /\ job' = BlankJob
    /\ UNCHANGED <<env, api, rec, spend, refund, tracks, exec, hand, vendor>>

-----------------------------------------------------------------------------
(* The API: create, charge, enqueue *)

MidRequest == api \in {"remix_created", "remix_charged", "remix_failed",
                       "remix_refund"}

\* commitMusicGeneration: the record and its spend in one transaction.
CommitGeneration ==
    /\ api = "none"
    /\ api' = "committed"
    /\ rec' = [rec EXCEPT !.status = "pending"]
    /\ spend' = TRUE
    /\ UNCHANGED <<env, refund, tracks, job, exec, hand, vendor>>

\* retryEnqueueQueuedMusicGeneration, after the commit and again whenever the
\* client repeats the request with its Idempotency-Key.
EnqueueGeneration ==
    /\ api = "committed"
    /\ rec.task = NoTask
    /\ job' = Added
    /\ UNCHANGED <<env, api, rec, spend, refund, tracks, exec, hand, vendor>>

\* createRemix: the record first, the spend in a transaction of its own.
CreateRemix ==
    /\ api = "none"
    /\ api' = "remix_created"
    /\ rec' = [rec EXCEPT !.status = "pending"]
    /\ UNCHANGED <<env, spend, refund, tracks, job, exec, hand, vendor>>

SpendRemix ==
    /\ api = "remix_created"
    /\ \/ api' = "remix_charged" /\ spend' = TRUE
       \/ api' = "done" /\ spend' = FALSE \* insufficient credits: throws
    /\ UNCHANGED <<env, rec, refund, tracks, job, exec, hand, vendor>>

EnqueueRemix ==
    /\ api = "remix_charged"
    /\ \/ api' = "done" /\ job' = Added
       \/ api' = "remix_failed" /\ job' = job
       \/ "lost_reply" \in env /\ api' = "remix_failed" /\ job' = Added
    /\ UNCHANGED <<env, rec, spend, refund, tracks, exec, hand, vendor>>

\* The catch of the remix handler: an unconditional status, then the refund.
FailRemix ==
    /\ api = "remix_failed"
    /\ api' = "remix_refund"
    /\ rec' = [rec EXCEPT !.status = "failed"]
    /\ UNCHANGED <<env, spend, refund, tracks, job, exec, hand, vendor>>

\* refundOriginalSpend(...).catch(() => undefined)
RefundOrSwallow ==
    \/ refund' = TRUE
    \/ "refund_error" \in env /\ refund' = refund

RefundRemix ==
    /\ api = "remix_refund"
    /\ api' = "done"
    /\ RefundOrSwallow
    /\ UNCHANGED <<env, rec, spend, tracks, job, exec, hand, vendor>>

CrashApi ==
    /\ "api_crash" \in env
    /\ MidRequest
    /\ api' = "done"
    /\ UNCHANGED <<env, rec, spend, refund, tracks, job, exec, hand, vendor>>

-----------------------------------------------------------------------------
(* The worker *)

Goto(e, pc) == exec' = [exec EXCEPT ![e].pc = pc]

\* The execution ends and its slot is free again.
End(e, how) ==
    /\ exec' = [exec EXCEPT ![e] = IdleExec]
    /\ job' = Ended(e, how)

\* What processMusicGenerateJob does with the row it reads.
EntryPc ==
    IF rec.status \in {"completed", "failed"} THEN "return"
    ELSE IF job.recovered # NoTask THEN "recovered"
    ELSE IF rec.sub \in {"submitted", "failed"} \/ rec.task # NoTask THEN "return"
    ELSE CASE rec.sub = "queued"         -> "preflight"
           [] rec.sub = "dispatching"    -> "unknown"
           [] rec.sub = "submit_unknown" -> "forbidden"

Start(e) ==
    /\ exec[e].pc = "idle"
    /\ job.state = "waiting"
    /\ job' = [job EXCEPT !.state = "active", !.owner = e]
    /\ exec' = [exec EXCEPT ![e] =
                   [pc |-> EntryPc, last |-> job.made + 1 >= MaxAttempts,
                    attempt |-> rec.attempt, task |-> job.recovered]]
    /\ UNCHANGED <<env, api, rec, spend, refund, tracks, hand, vendor>>

Return(e) ==
    /\ \/ exec[e].pc = "return" /\ End(e, "ok")
       \/ exec[e].pc = "forbidden" /\ End(e, "fatal")
    /\ UNCHANGED <<env, api, rec, spend, refund, tracks, hand, vendor>>

\* prepareGeneration and acquireSubmitPermit, which can time out.
Preflight(e) ==
    /\ exec[e].pc = "preflight"
    /\ \/ Goto(e, "claim") /\ UNCHANGED job
       \/ exec[e].last /\ Goto(e, "preflight_failed") /\ UNCHANGED job
       \/ ~exec[e].last /\ End(e, "retry")
    /\ UNCHANGED <<env, api, rec, spend, refund, tracks, hand, vendor>>

\* markMusicGenerateFailed: not conditional on the attempt, and the refund
\* follows whether or not the row was updated.
MarkMusicGenerateFailed(e) ==
    /\ exec[e].pc = "preflight_failed"
    /\ rec' = IF rec.status = "pending" /\ rec.sub \in {"queued", "dispatching"}
              THEN [rec EXCEPT !.status = "failed", !.sub = "failed"] ELSE rec
    /\ Goto(e, "refund")
    /\ UNCHANGED <<env, api, spend, refund, tracks, job, hand, vendor>>

\* claimDispatching: compare-and-set from queued, with a fresh attempt id.
ClaimDispatching(e) ==
    /\ exec[e].pc = "claim"
    /\ IF rec.sub = "queued" /\ rec.status = "pending" /\ rec.task = NoTask
       THEN \E a \in Attempts :
              /\ vendor[a] = "unused"
              /\ vendor' = [vendor EXCEPT ![a] = "none"]
              /\ rec' = [rec EXCEPT !.sub = "dispatching", !.attempt = a]
              /\ exec' = [exec EXCEPT ![e].pc = "post", ![e].attempt = a]
              /\ UNCHANGED job
       ELSE /\ End(e, IF rec.sub = "queued" THEN "retry" ELSE "ok")
            /\ UNCHANGED <<env, rec, vendor>>
    /\ UNCHANGED <<env, api, spend, refund, tracks, hand>>

\* Mutant of NextPc: an answer that never came is taken for a refusal.
SilenceIsRefusal(answer) ==
    CASE answer = "ok"        -> "persist"
      [] answer = "terminal"  -> "fail"
      [] answer = "capacity"  -> "release"
      [] answer = "ambiguous" -> "fail"

\* handleSubmitOnceResult
NextPc(answer) ==
    CASE answer = "ok"        -> "persist"
      [] answer = "terminal"  -> "fail"
      [] answer = "capacity"  -> "release"
      [] answer = "ambiguous" -> "unknown"

\* submitPreparedGeneration: one fetch.  The vendor may have started a task
\* when the answer is lost, garbled or a 5xx; a refusal starts none.
Post(e) ==
    /\ exec[e].pc = "post"
    /\ \E answer \in {"ok", "terminal", "capacity", "ambiguous"}, started \in BOOLEAN :
          /\ answer = "ok" => started
          /\ answer \in {"terminal", "capacity"} => ~started
          /\ exec' = [exec EXCEPT ![e].pc = NextPc(answer),
                                  ![e].task = IF answer = "ok" THEN exec[e].attempt
                                                               ELSE NoTask]
          /\ vendor' = IF started
                       THEN [vendor EXCEPT ![exec[e].attempt] = "running"]
                       ELSE vendor
    /\ UNCHANGED <<env, api, rec, spend, refund, tracks, job, hand>>

\* The where clause of persistProviderTaskId.
Persistable(a) ==
    \/ rec.sub \in {"dispatching", "submit_unknown"} /\ rec.attempt = a
    \/ rec.sub = "queued"

PersistProviderTaskId(e) ==
    /\ exec[e].pc \in {"persist", "recovered"}
    /\ \/ /\ Persistable(exec[e].attempt)
          /\ rec' = [rec EXCEPT !.task = exec[e].task, !.sub = "submitted",
                                !.status = "pending"]
       \/ /\ ~Persistable(exec[e].attempt)
          /\ rec.task # NoTask
          /\ rec' = rec
    /\ End(e, "ok")
    /\ UNCHANGED <<env, api, spend, refund, tracks, hand, vendor>>

\* Its retries run out.  A task id that came from the POST is put on the job,
\* best effort, for the next attempt to persist.
GiveUpPersisting(e) ==
    /\ exec[e].pc \in {"persist", "recovered"}
    /\ \/ "db_error" \in env
       \/ ~Persistable(exec[e].attempt) /\ rec.task = NoTask
    /\ \E saved \in {exec[e].task, job.recovered} :
          /\ exec[e].pc = "recovered" \/ job.state = "absent"
                => saved = job.recovered
          /\ IF exec[e].last
             THEN /\ Goto(e, "unknown")
                  /\ job' = [job EXCEPT !.recovered = saved]
             ELSE /\ exec' = [exec EXCEPT ![e] = IdleExec]
                  /\ job' = [Ended(e, "retry") EXCEPT !.recovered = saved]
    /\ UNCHANGED <<env, api, rec, spend, refund, tracks, hand, vendor>>

\* Mutant of MarkSubmitUnknown: an orphaned claim goes back to the queue.
RequeueUnknown(e) ==
    /\ exec[e].pc = "unknown"
    /\ rec' = IF /\ rec.sub \in {"dispatching", "submit_unknown"}
                 /\ rec.attempt = exec[e].attempt
              THEN [rec EXCEPT !.sub = "queued"] ELSE rec
    /\ End(e, "retry")
    /\ UNCHANGED <<env, api, spend, refund, tracks, hand, vendor>>

\* markSubmitUnknown, conditional on the attempt the execution made or read.
MarkSubmitUnknown(e) ==
    /\ exec[e].pc = "unknown"
    /\ rec' = IF /\ rec.sub \in {"dispatching", "submit_unknown"}
                 /\ rec.attempt = exec[e].attempt
              THEN [rec EXCEPT !.sub = "submit_unknown"] ELSE rec
    /\ End(e, "fatal")
    /\ UNCHANGED <<env, api, spend, refund, tracks, hand, vendor>>

\* releaseToQueued, then failed at once when no attempt is left.
ReleaseToQueued(e) ==
    /\ exec[e].pc = "release"
    /\ rec' = IF rec.sub = "dispatching" /\ rec.attempt = exec[e].attempt
              THEN [rec EXCEPT !.sub = "queued"] ELSE rec
    /\ IF exec[e].last THEN Goto(e, "fail") /\ UNCHANGED job
                       ELSE End(e, "retry")
    /\ UNCHANGED <<env, api, spend, refund, tracks, hand, vendor>>

\* Mutant of TransitionFailed: an unknown submit is failed as well.
FailUnknownToo(e) ==
    /\ exec[e].pc = "fail"
    /\ rec' = IF rec.sub \in {"dispatching", "queued", "submit_unknown"}
              THEN [rec EXCEPT !.status = "failed", !.sub = "failed"] ELSE rec
    /\ Goto(e, "refund")
    /\ UNCHANGED <<env, api, spend, refund, tracks, job, hand, vendor>>

\* Mutant of TransitionFailed: the refund is forgotten.
FailWithoutRefund(e) ==
    /\ exec[e].pc = "fail"
    /\ rec' = IF /\ rec.attempt = exec[e].attempt
                 /\ rec.sub \in {"dispatching", "queued"}
              THEN [rec EXCEPT !.status = "failed", !.sub = "failed"] ELSE rec
    /\ End(e, "fatal")
    /\ UNCHANGED <<env, api, spend, refund, tracks, hand, vendor>>

\* transitionFailed: conditional on the attempt, the refund is not.
TransitionFailed(e) ==
    /\ exec[e].pc = "fail"
    /\ rec' = IF /\ rec.attempt = exec[e].attempt
                 /\ rec.sub \in {"dispatching", "queued"}
              THEN [rec EXCEPT !.status = "failed", !.sub = "failed"] ELSE rec
    /\ Goto(e, "refund")
    /\ UNCHANGED <<env, api, spend, refund, tracks, job, hand, vendor>>

RefundExec(e) ==
    /\ exec[e].pc = "refund"
    /\ RefundOrSwallow
    /\ End(e, "fatal")
    /\ UNCHANGED <<env, api, rec, spend, tracks, hand, vendor>>

\* A statement throws (the first read included, which Start has already done
\* here), the processor with it, and BullMQ retries.
DatabaseError(e) ==
    /\ "db_error" \in env
    /\ exec[e].pc \in {"return", "forbidden", "preflight", "preflight_failed",
                      "claim", "unknown", "release", "fail"}
    /\ End(e, "retry")
    /\ UNCHANGED <<env, api, rec, spend, refund, tracks, hand, vendor>>

CrashExec(e) ==
    /\ "worker_crash" \in env
    /\ exec[e].pc # "idle" /\ job.stalls < MaxLosses
    /\ exec' = [exec EXCEPT ![e] = IdleExec]
    /\ job' = IF job.owner = e THEN Stalled ELSE job
    /\ UNCHANGED <<env, api, rec, spend, refund, tracks, hand, vendor>>

LoseLock(e) ==
    /\ "lock_loss" \in env
    /\ job.owner = e /\ job.stalls < MaxLosses
    /\ job' = Stalled
    /\ UNCHANGED <<env, api, rec, spend, refund, tracks, exec, hand, vendor>>

-----------------------------------------------------------------------------
(* The vendor, its callbacks, and the status poll *)

VendorFinish(a) ==
    /\ vendor[a] = "running"
    /\ \E end \in {"complete", "error"} : vendor' = [vendor EXCEPT ![a] = end]
    /\ UNCHANGED <<env, api, rec, spend, refund, tracks, job, exec, hand>>

\* What the vendor can say of a task: news may arrive late, twice or never.
Kinds(a) ==
    {"progress"} \cup IF vendor[a] = "complete" THEN {"completed"}
                      ELSE IF vendor[a] = "error" THEN {"failed"} ELSE {}

\* handleSignedSunoMusicCallback with resolveRecordForCallback: an early
\* callback binds its task to a record that is not known to be submitted.  A
\* payload of an unknown kind binds too and is then ignored.
Callback(h, a, kind) ==
    /\ hand[h].pc = "idle"
    /\ a \in Accepted /\ kind \in Kinds(a) \cup {"ignored"}
    /\ \/ rec.task = a /\ kind # "ignored" /\ rec' = rec
       \/ /\ rec.task = NoTask /\ rec.sub \in {"dispatching", "submit_unknown"}
          /\ rec' = [rec EXCEPT !.task = a, !.sub = "submitted"]
    /\ hand' = IF kind = "ignored" THEN hand
               ELSE [hand EXCEPT ![h] = [pc |-> "apply", kind |-> kind]]
    /\ UNCHANGED <<env, api, spend, refund, tracks, job, exec, vendor>>

\* getMusicGenerationStatusForUser asks the vendor only for a record that is
\* bound and not finished.
Poll(h) ==
    /\ hand[h].pc = "idle"
    /\ rec.task # NoTask /\ rec.status \in {"pending", "processing"}
    /\ \E kind \in Kinds(rec.task) :
          /\ vendor[rec.task] # "running" => kind # "progress"
          /\ hand' = [hand EXCEPT ![h] = [pc |-> "apply", kind |-> kind]]
    /\ UNCHANGED <<env, api, rec, spend, refund, tracks, job, exec, vendor>>

\* Mutant of Allowed: completed and failed are not terminal.
NothingTerminal == {"pending", "processing", "completed", "failed"}

\* applyMusicGenerationTransition: the statuses an update may start from.
Allowed == {"pending", "processing"}

Target(kind) == IF kind = "progress" THEN "processing" ELSE kind

\* applyMappedStatus and syncMusicGenerationRecord.  Tracks are stored whatever
\* the transition said, and a failure goes on to the refund.
Apply(h) ==
    /\ hand[h].pc = "apply"
    /\ rec' = IF rec.status \in Allowed
              THEN [rec EXCEPT !.status = Target(hand[h].kind)] ELSE rec
    /\ \/ hand[h].kind = "failed" /\ hand' = [hand EXCEPT ![h].pc = "refund"]
       \/ hand[h].kind # "failed" /\ hand' = [hand EXCEPT ![h].pc = "tracks"]
       \/ hand[h].kind = "progress" /\ hand' = [hand EXCEPT ![h] = IdleHandler]
    /\ UNCHANGED <<env, api, spend, refund, tracks, job, exec, vendor>>

UpsertTracks(h) ==
    /\ hand[h].pc = "tracks"
    /\ tracks' = TRUE
    /\ hand' = [hand EXCEPT ![h] = IdleHandler]
    /\ UNCHANGED <<env, api, rec, spend, refund, job, exec, vendor>>

\* shouldRefundGeneration on the row as it is now.
RefundFailed(h) ==
    /\ hand[h].pc = "refund"
    /\ IF rec.status # "completed" /\ rec.sub # "submit_unknown" /\ spend
       THEN RefundOrSwallow ELSE refund' = refund
    /\ hand' = [hand EXCEPT ![h] = IdleHandler]
    /\ UNCHANGED <<env, api, rec, spend, tracks, job, exec, vendor>>

CrashHandler(h) ==
    /\ "api_crash" \in env
    /\ hand[h].pc # "idle"
    /\ hand' = [hand EXCEPT ![h] = IdleHandler]
    /\ UNCHANGED <<env, api, rec, spend, refund, tracks, job, exec, vendor>>

-----------------------------------------------------------------------------
(* The reconciler: pending records that have been in the queue for 30 s.  A  *)
(* request that is still creating its record is younger than that.           *)

Stale == rec.status = "pending" /\ rec.task = NoTask /\ ~MidRequest

\* Mutant of Reconcile: nothing is put back into the queue.
ReconcileUnpaidOnly ==
    /\ Stale
    /\ IF spend /\ ~refund
       THEN rec' = rec
       ELSE rec' = [rec EXCEPT !.status = "failed"]
    /\ UNCHANGED <<env, api, spend, refund, tracks, job, exec, hand, vendor>>

\* reconcileRecord
Reconcile ==
    /\ Stale
    /\ IF spend /\ ~refund
       THEN job' = Added /\ rec' = rec
       ELSE job' = job /\ rec' = [rec EXCEPT !.status = "failed"]
    /\ UNCHANGED <<env, api, spend, refund, tracks, exec, hand, vendor>>

-----------------------------------------------------------------------------

Exec(e) ==
    \/ Start(e) \/ Return(e) \/ Preflight(e) \/ MarkMusicGenerateFailed(e)
    \/ ClaimDispatching(e) \/ Post(e) \/ PersistProviderTaskId(e)
    \/ GiveUpPersisting(e) \/ MarkSubmitUnknown(e) \/ ReleaseToQueued(e)
    \/ TransitionFailed(e) \/ RefundExec(e)

Handle(h) == Apply(h) \/ UpsertTracks(h) \/ RefundFailed(h)

Next ==
    \/ CommitGeneration \/ EnqueueGeneration
    \/ CreateRemix \/ SpendRemix \/ EnqueueRemix \/ FailRemix \/ RefundRemix
    \/ CrashApi \/ Evict \/ Reconcile
    \/ \E e \in Execs :
          Exec(e) \/ DatabaseError(e) \/ CrashExec(e) \/ LoseLock(e)
    \/ \E a \in Attempts : VendorFinish(a)
    \/ \E h \in Handlers :
          \/ \E a \in Attempts, kind \in {"progress", "completed", "failed", "ignored"} :
                Callback(h, a, kind)
          \/ Poll(h) \/ Handle(h) \/ CrashHandler(h)

Spec == Init /\ [][Next]_vars

\* Workers, the reconciler and a request under way run on; the vendor ends
\* what it started; the web client polls while a generation is unfinished.
\* Handler slots are shared with callbacks, hence the strong fairness of Poll.
Fairness ==
    /\ \A e \in Execs : WF_vars(Exec(e))
    /\ WF_vars(Reconcile)
    /\ WF_vars(SpendRemix) /\ WF_vars(EnqueueRemix)
    /\ WF_vars(FailRemix) /\ WF_vars(RefundRemix)
    /\ \A a \in Attempts : WF_vars(VendorFinish(a))
    /\ \A h \in Handlers : SF_vars(Poll(h)) /\ WF_vars(Handle(h))

FairSpec == Spec /\ Fairness

-----------------------------------------------------------------------------
(* Properties *)

ExecPcs == {"idle", "return", "forbidden", "recovered", "preflight",
            "preflight_failed", "claim", "post", "persist", "unknown",
            "release", "fail", "refund"}

Records ==
    [status  : {"absent", "pending", "processing", "completed", "failed"},
     sub     : {"queued", "dispatching", "submitted", "submit_unknown", "failed"},
     task    : Attempts \cup {NoTask},
     attempt : Attempts \cup {NoAttempt}]

Jobs ==
    [state     : {"absent", "waiting", "active", "completed", "failed"},
     made      : 0 .. MaxAttempts,
     stalls    : Nat,
     owner     : Execs \cup {NoExec},
     recovered : Attempts \cup {NoTask}]

Executions ==
    [pc : ExecPcs, last : BOOLEAN,
     attempt : Attempts \cup {NoAttempt}, task : Attempts \cup {NoTask}]

Handlings ==
    {IdleHandler} \cup [pc   : {"apply", "refund", "tracks"},
                        kind : {"progress", "completed", "failed"}]

TypeOK ==
    /\ env \in Environments
    /\ api \in {"none", "committed", "remix_created", "remix_charged",
               "remix_failed", "remix_refund", "done"}
    /\ rec \in Records /\ job \in Jobs
    /\ spend \in BOOLEAN /\ refund \in BOOLEAN /\ tracks \in BOOLEAN
    /\ exec \in [Execs -> Executions]
    /\ hand \in [Handlers -> Handlings]
    /\ vendor \in [Attempts -> {"unused", "none", "running", "complete", "error"}]

\* The submit guard: whatever crashes, redeliveries, failing statements, lost
\* answers and evicted jobs do, the vendor starts at most one paid task.
AtMostOneTask == \A a, b \in Accepted : a = b

\* Executions of the job do not overlap, and the queue answers what it takes.
Undisturbed == env \cap {"lock_loss", "lost_reply"} = {}

\* A submit whose outcome is unknown waits for its task id, whatever crashes,
\* redelivers, retries or reconciles: the row is not taken back for another
\* attempt, nor marked failed by its submit status.  While executions do not
\* overlap and the queue loses no reply it also keeps its status, gets no
\* refund, and nothing more is posted.  Otherwise it may: an execution that
\* lost the job in its last preflight refunds whatever the row says
\* (markMusicGenerateFailed), and so does the remix handler, which also marks
\* it failed, when the enqueue threw although the queue had taken the job.
UnknownWaits ==
    rec.sub = "submit_unknown" =>
        /\ rec'.sub \in {"submit_unknown", "submitted"}
        /\ rec'.attempt = rec.attempt
        /\ Undisturbed => /\ rec'.status = rec.status
                          /\ refund' = refund
                          /\ Accepted' = Accepted

SubmitUnknownOnlyBinds == [][UnknownWaits]_vars

\* While executions do not overlap, completed and failed are final, although
\* persistProviderTaskId writes "pending" and several writers race for the row.
FinalStatuses ==
    [][Undisturbed /\ rec.status \in {"completed", "failed"} => rec'.status = rec.status]_vars

Money == IF refund THEN "refunded" ELSE IF spend THEN "charged" ELSE "none"

Work == IF Accepted = {} THEN "none" ELSE vendor[CHOOSE a \in Accepted : TRUE]

\* Of a disturbed behaviour nothing is claimed: it stays where the contract begins.
Contract == INSTANCE GenerationContract WITH
    money <- IF Undisturbed THEN Money ELSE "none",
    work  <- IF Undisturbed THEN Work ELSE "none",
    shown <- Undisturbed /\ tracks

\* While executions do not overlap and the queue does not lose replies, a
\* generation implements GenerationContract: in particular a charge is taken
\* back only when no vendor task is running or complete, and none is started
\* afterwards.
KeepsContract == Contract!Spec

Decided == rec.status \in {"completed", "failed"} \/ rec.sub = "submit_unknown"

\* A charged generation is decided in the end: lost enqueues, capacity
\* refusals, lost callbacks and a worker crash included.
ChargedIsDecided == spend ~> Decided

\* Unless a worker is lost on the way it is also settled: delivered with its
\* tracks, or failed and refunded, or parked for an operator.
ChargedIsSettled ==
    spend ~> \/ rec.status = "completed" /\ tracks
             \/ rec.status = "failed" /\ refund
             \/ rec.sub = "submit_unknown"
             \/ job.stalls > 0

\* docs/music-generation-queue-load-control.md: "failed" is "Terminal fail +
\* idempotent credit refund".
FailedIsRefunded == (spend /\ rec.status = "failed") ~> refund

=============================================================================
