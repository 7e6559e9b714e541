--------------------------- MODULE MurekaGeneration ---------------------------
(***************************************************************************)
(* One Mureka song: the transaction that creates and charges it, the       *)
(* generate job with its submit guard, the chains of poll jobs, and the    *)
(* three sweeps that read the same table: the Mureka reconciler, its       *)
(* refund pass, and the reconciler of Suno jobs, which does not ask whose  *)
(* record it reads and looks for the charge under Suno's key.              *)
(*                                                                         *)
(* A step is one database statement, one vendor call or one queue call.    *)
(***************************************************************************)
EXTENDS Integers, FiniteSets

CONSTANTS
    Attempts,     \* submitAttemptId values, one per claim
    Execs,        \* worker slots for the generate job
    Polls,        \* poll jobs that can exist at a time
    MaxAttempts,  \* BullMQ attempts of the generate job (3 in the code)
    MaxStalls,    \* BullMQ maxStalledCount (its default 1 in the code)
    MaxLosses,    \* bound: crashes, lost locks and failing statements
    Environments, \* sets of faults; a behaviour runs in one of them
    NoAttempt, NoExec

FaultKinds ==
    {"worker_crash", \* a worker dies between two steps
     "lock_loss",    \* a job is redelivered while its worker runs on
     "db_error",     \* a statement or a queue call of the worker throws
     "backlog",      \* a row waits 30 s although its job is still to run
     "full_batch"}   \* the refund pass may never come to this row

ASSUME MurekaAssumption ==
    /\ NoAttempt \notin Attempts /\ NoExec \notin Execs
    /\ MaxAttempts \in Nat \ {0} /\ MaxStalls \in Nat /\ MaxLosses \in Nat
    /\ \A env \in Environments : env \subseteq FaultKinds

VARIABLES
    env,    \* the faults of this behaviour
    losses, \* how many of them happened
    rec,    \* the MusicGeneration row
    spend,  \* the ledger has the Mureka spend row
    refund, \* the ledger has the Mureka refund row
    tracks, \* track rows were upserted
    job,    \* the job "mureka-music-generate-<id>"
    exec,   \* its executions
    poll,   \* the poll jobs "mureka-poll-<id>-<attempt>"
    late,   \* the task is older than MUREKA_POLL_TIMEOUT_MS
    sweep,  \* the refund pass holds this record as failed
    vendor  \* what became of the POST of each attempt

vars == <<env, losses, rec, spend, refund, tracks, job, exec, poll, late,
          sweep, vendor>>

NoTask == NoAttempt \* providerTaskId still is the "queue:" placeholder

BlankJob == [state |-> "absent", made |-> 0, stalls |-> 0, owner |-> NoExec,
             recovered |-> NoTask]
NewJob == [BlankJob EXCEPT !.state = "waiting"]

IdleExec == [pc |-> "idle", last |-> FALSE, attempt |-> NoAttempt,
             task |-> NoTask]

NoPoll == [pc |-> "none", task |-> NoTask]

Init ==
    /\ env \in Environments /\ losses = 0
    /\ rec = [status |-> "absent", sub |-> "queued", task |-> NoTask,
              attempt |-> NoAttempt, reason |-> "none"]
    /\ spend = FALSE /\ refund = FALSE /\ tracks = FALSE
    /\ job = BlankJob
    /\ exec = [e \in Execs |-> IdleExec]
    /\ poll = [p \in Polls |-> NoPoll]
    /\ late = FALSE /\ sweep = FALSE
    /\ vendor = [a \in Attempts |-> "unused"]

\* The POSTs that made the vendor start a task.
Accepted == {a \in Attempts : vendor[a] \in {"running", "complete", "error"}}

Live(p) == poll[p].pc # "none"

\* One of the elements of a set whose elements are interchangeable.
AnyOf(S) == IF S = {} THEN {} ELSE {CHOOSE x \in S : TRUE}

\* Where the next poll job goes, and the next submitAttemptId: a new UUID.
Free  == AnyOf({p \in Polls : ~Live(p)})
Fresh == AnyOf({a \in Attempts : vendor[a] = "unused"})

Lose(fault) ==
    /\ fault \in env /\ losses < MaxLosses
    /\ losses' = losses + 1

-----------------------------------------------------------------------------
(* The API and the queue *)

\* commitMusicGeneration: the record and its spend in one transaction.
CommitGeneration ==
    /\ rec.status = "absent"
    /\ rec' = [rec EXCEPT !.status = "pending"]
    /\ spend' = TRUE
    /\ UNCHANGED <<env, losses, refund, tracks, job, exec, poll, late, sweep, vendor>>

\* retryEnqueueQueuedMusicGeneration: a plain add, at the commit and whenever
\* the client repeats its request.  An id that exists is left alone.
EnqueueGeneration ==
    /\ rec.status # "absent" /\ rec.task = NoTask
    /\ job.state = "absent"
    /\ job' = NewJob
    /\ UNCHANGED <<env, losses, rec, spend, refund, tracks, exec, poll, late, sweep, vendor>>

\* The worker's own enqueueMurekaProviderJob removes a finished job first.
Readded == IF job.state \in {"waiting", "active"} THEN job ELSE NewJob

\* A poll job of a later attempt number: a chain of its own beside a live
\* one, unless its number is that of a job which is still there.
AddPoll(task) ==
    \/ \E p \in Free : poll' = [poll EXCEPT ![p] = [pc |-> "waiting", task |-> task]]
    \/ (\E p \in Polls : Live(p)) /\ UNCHANGED poll

\* The job after execution e returned or threw; a lost lock changes nothing.
Ended(e, how) ==
    IF job.owner # e THEN job
    ELSE IF how = "ok" THEN [job EXCEPT !.state = "completed", !.owner = NoExec]
    ELSE [job EXCEPT !.made = @ + 1, !.owner = NoExec,
                     !.state = IF job.made + 1 < MaxAttempts THEN "waiting" ELSE "failed"]

End(e, how) ==
    /\ exec' = [exec EXCEPT ![e] = IdleExec]
    /\ job' = Ended(e, how)

Goto(e, pc) == exec' = [exec EXCEPT ![e].pc = pc]

-----------------------------------------------------------------------------
(* mureka_music_generate *)

\* resolveMurekaMusicGenerateAction
EntryPc ==
    IF rec.status = "completed" THEN "return"
    ELSE IF rec.status = "failed" THEN "refund"
    ELSE IF job.recovered # NoTask THEN "recovered"
    ELSE CASE rec.sub = "submit_unknown" -> "return"
           [] rec.sub = "dispatching" -> "unknown"
           [] rec.sub = "submitted" \/ rec.task # NoTask -> "poll"
           [] OTHER -> "prepare"

Start(e) ==
    /\ exec[e].pc = "idle"
    /\ job.state = "waiting"
    /\ job' = [job EXCEPT !.state = "active", !.owner = e]
    /\ exec' = [exec EXCEPT ![e] =
          [pc |-> EntryPc, last |-> job.made + 1 >= MaxAttempts,
           attempt |-> IF EntryPc = "prepare" THEN NoAttempt ELSE rec.attempt,
           task |-> IF job.recovered # NoTask THEN job.recovered ELSE rec.task]]
    /\ UNCHANGED <<env, losses, rec, spend, refund, tracks, poll, late, sweep, vendor>>

Return(e) ==
    /\ exec[e].pc = "return"
    /\ End(e, "ok")
    /\ UNCHANGED <<env, losses, rec, spend, refund, tracks, poll, late, sweep, vendor>>

\* prepareGeneration refuses the input, or the limiter gives no permit in time.
Prepare(e) ==
    /\ exec[e].pc = "prepare"
    /\ \/ \E pc \in {"claim", "fail"} : Goto(e, pc) /\ UNCHANGED job
       \/ ~exec[e].last /\ End(e, "retry")
    /\ UNCHANGED <<env, losses, rec, spend, refund, tracks, poll, late, sweep, vendor>>

\* claimDispatching: compare-and-set from queued, with a fresh attempt id.
ClaimDispatching(e) ==
    /\ exec[e].pc = "claim"
    /\ IF rec.status = "pending" /\ rec.sub = "queued" /\ rec.task = NoTask
       THEN \E a \in Fresh :
              /\ vendor' = [vendor EXCEPT ![a] = "none"]
              /\ rec' = [rec EXCEPT !.sub = "dispatching", !.attempt = a]
              /\ exec' = [exec EXCEPT ![e].pc = "post", ![e].attempt = a]
              /\ UNCHANGED job
       ELSE End(e, "ok") /\ UNCHANGED <<rec, vendor>>
    /\ UNCHANGED <<env, losses, spend, refund, tracks, poll, late, sweep>>

\* handleSubmitResult
NextPc(answer, last) ==
    CASE answer = "ok"        -> "persist"
      [] answer = "ambiguous" -> "unknown"
      [] answer = "capacity"  -> IF last THEN "fail" ELSE "release"
      [] answer = "terminal"  -> "fail"

\* submitPreparedGeneration: one POST.  A lost answer or a 5xx may have started
\* a task; so may a 200 the client cannot read, which it reports as terminal.
Post(e) ==
    /\ exec[e].pc = "post"
    /\ \E answer \in {"ok", "terminal", "capacity", "ambiguous"}, started \in BOOLEAN :
          /\ answer = "ok" => started
          /\ answer = "capacity" => ~started
          /\ exec' = [exec EXCEPT ![e].pc = NextPc(answer, exec[e].last),
                                  ![e].task = IF answer = "ok" THEN exec[e].attempt
                                                               ELSE NoTask]
          /\ vendor' = IF started
                       THEN [vendor EXCEPT ![exec[e].attempt] = "running"]
                       ELSE vendor
    /\ UNCHANGED <<env, losses, rec, spend, refund, tracks, job, poll, late, sweep>>

OwnAttempt(e) == exec[e].attempt \in {NoAttempt, rec.attempt}

\* The where clause of persistSubmittedTask: it does not ask for the status.
Persistable(e) ==
    /\ OwnAttempt(e)
    /\ rec.sub \in {"dispatching", "submit_unknown", "queued", "submitted"}

PersistSubmittedTask(e) ==
    /\ exec[e].pc \in {"persist", "recovered"}
    /\ Persistable(e)
    /\ rec' = [rec EXCEPT !.task = exec[e].task, !.sub = "submitted",
                          !.status = "processing"]
    /\ Goto(e, "poll")
    /\ UNCHANGED <<env, losses, spend, refund, tracks, job, poll, late, sweep, vendor>>

\* It throws.  After a POST the task id is put on the job, best effort, and
\* the submit is marked unknown; a recovered id is on the job already.
GiveUpPersisting(e) ==
    /\ exec[e].pc \in {"persist", "recovered"}
    /\ IF Persistable(e) THEN Lose("db_error") ELSE UNCHANGED losses
    /\ IF exec[e].pc = "recovered" THEN End(e, "retry")
       ELSE /\ Goto(e, "unknown_retry")
            /\ \E saved \in {exec[e].task, job.recovered} :
                  job' = [job EXCEPT !.recovered = saved]
    /\ UNCHANGED <<env, rec, spend, refund, tracks, poll, late, sweep, vendor>>

\* markSubmitUnknown; the attempt is the claimed or the read one.
MarkSubmitUnknown(e) ==
    /\ exec[e].pc \in {"unknown", "unknown_retry"}
    /\ rec' = IF OwnAttempt(e) /\ rec.sub \in {"dispatching", "submit_unknown"}
              THEN [rec EXCEPT !.sub = "submit_unknown"] ELSE rec
    /\ End(e, IF exec[e].pc = "unknown" THEN "ok" ELSE "retry")
    /\ UNCHANGED <<env, losses, spend, refund, tracks, poll, late, sweep, vendor>>

\* Mutant of ReleaseToQueued: whatever the submit, it goes back.
ReleaseAny(e) ==
    /\ exec[e].pc \in {"release", "unknown"}
    /\ rec' = [rec EXCEPT !.sub = "queued"]
    /\ End(e, "retry")
    /\ UNCHANGED <<env, losses, spend, refund, tracks, poll, late, sweep, vendor>>

ReleaseToQueued(e) ==
    /\ exec[e].pc = "release"
    /\ rec' = IF rec.sub = "dispatching" /\ rec.attempt = exec[e].attempt
              THEN [rec EXCEPT !.sub = "queued"] ELSE rec
    /\ End(e, "retry")
    /\ UNCHANGED <<env, losses, spend, refund, tracks, poll, late, sweep, vendor>>

\* enqueueFirstPoll
EnqueueFirstPoll(e) ==
    /\ exec[e].pc = "poll"
    /\ AddPoll(exec[e].task)
    /\ End(e, "ok")
    /\ UNCHANGED <<env, losses, rec, spend, refund, tracks, late, sweep, vendor>>

\* The where clause of failMusicGeneration asks for the attempt only where it
\* is given one, and for no submission state.
Failed(own) ==
    IF rec.status # "completed" /\ own
    THEN [rec EXCEPT !.status = "failed", !.sub = "failed"] ELSE rec

FailMusicGeneration(e) ==
    /\ exec[e].pc = "fail"
    /\ rec' = Failed(OwnAttempt(e))
    /\ Goto(e, "refund")
    /\ UNCHANGED <<env, losses, spend, refund, tracks, job, poll, late, sweep, vendor>>

\* refundMusicGeneration, whether or not a row was failed.
RefundExec(e) ==
    /\ exec[e].pc = "refund"
    /\ refund' = TRUE
    /\ End(e, "ok")
    /\ UNCHANGED <<env, losses, rec, spend, tracks, poll, late, sweep, vendor>>

\* A statement or a queue call throws, and the processor with it.
DatabaseError(e) ==
    /\ exec[e].pc \notin {"idle", "post", "persist", "recovered"}
    /\ Lose("db_error")
    /\ End(e, "retry")
    /\ UNCHANGED <<env, rec, spend, refund, tracks, poll, late, sweep, vendor>>

\* The stalled check: back to the queue without using up an attempt, or failed
\* beyond maxStalledCount.
Stalled == [job EXCEPT !.owner = NoExec, !.stalls = @ + 1,
                       !.state = IF job.stalls < MaxStalls THEN "waiting" ELSE "failed"]

CrashExec(e) ==
    /\ exec[e].pc # "idle"
    /\ Lose("worker_crash")
    /\ exec' = [exec EXCEPT ![e] = IdleExec]
    /\ job' = IF job.owner = e THEN Stalled ELSE job
    /\ UNCHANGED <<env, rec, spend, refund, tracks, poll, late, sweep, vendor>>

LoseLock(e) ==
    /\ job.owner = e
    /\ Lose("lock_loss")
    /\ job' = Stalled
    /\ UNCHANGED <<env, rec, spend, refund, tracks, exec, poll, late, sweep, vendor>>

-----------------------------------------------------------------------------
(* mureka_music_poll *)

PollTo(p, pc) == poll' = [poll EXCEPT ![p].pc = pc]

\* The job of this attempt number is done.
PollEnds(p) == poll' = [poll EXCEPT ![p] = NoPoll]

\* Mutant of StartPoll: the status of the row is not looked at.
StartPollBlind(p) ==
    /\ poll[p].pc = "waiting"
    /\ IF rec.task # poll[p].task THEN PollEnds(p)
       ELSE PollTo(p, IF late THEN "fail" ELSE "query")
    /\ UNCHANGED <<env, losses, rec, spend, refund, tracks, job, exec, late, sweep, vendor>>

\* processMusicPoll up to its question to the vendor.
StartPoll(p) ==
    /\ poll[p].pc = "waiting"
    /\ IF rec.status = "failed" THEN PollTo(p, "refund")
       ELSE IF rec.status = "completed" \/ rec.task # poll[p].task THEN PollEnds(p)
       ELSE PollTo(p, IF late THEN "fail" ELSE "query")
    /\ UNCHANGED <<env, losses, rec, spend, refund, tracks, job, exec, late, sweep, vendor>>

\* What follows mapMurekaQueryToGenerationStatus: a complete task may still
\* have no choice with audio.
Answers(task) ==
    CASE vendor[task] = "running"  -> {"progress"}
      [] vendor[task] = "error"    -> {"fail"}
      [] vendor[task] = "complete" -> {"tracks", "fail"}

\* getGenerationStatus.  When the request throws, the job is tried again or is
\* out of attempts.
QueryVendor(p) ==
    /\ poll[p].pc = "query"
    /\ \/ \E pc \in Answers(poll[p].task) : PollTo(p, pc)
       \/ PollTo(p, "waiting")
       \/ PollEnds(p)
    /\ UNCHANGED <<env, losses, rec, spend, refund, tracks, job, exec, late, sweep, vendor>>

\* markPollProgress and enqueueNextPoll, whose number may be taken.
PollProgress(p) ==
    /\ poll[p].pc = "progress"
    /\ \E status \in {"pending", "processing"} :
          rec' = IF rec.status \in {"pending", "processing"}
                 THEN [rec EXCEPT !.status = status] ELSE rec
    /\ \/ PollTo(p, "waiting")
       \/ (\E q \in Polls \ {p} : Live(q)) /\ PollEnds(p)
    /\ UNCHANGED <<env, losses, spend, refund, tracks, job, exec, late, sweep, vendor>>

\* Mutant of UpsertTracks: the rows come after the status.
UpsertLater(p) ==
    /\ poll[p].pc = "tracks"
    /\ PollTo(p, "complete")
    /\ UNCHANGED <<env, losses, rec, spend, refund, tracks, job, exec, late, sweep, vendor>>

\* upsertMurekaTracksAndEnqueue
UpsertTracks(p) ==
    /\ poll[p].pc = "tracks"
    /\ tracks' = TRUE
    /\ PollTo(p, "complete")
    /\ UNCHANGED <<env, losses, rec, spend, refund, job, exec, late, sweep, vendor>>

\* The last statement of processMusicPoll has no condition.
CompleteGeneration(p) ==
    /\ poll[p].pc = "complete"
    /\ rec' = [rec EXCEPT !.status = "completed"]
    /\ PollEnds(p)
    /\ UNCHANGED <<env, losses, spend, refund, tracks, job, exec, late, sweep, vendor>>

FailPoll(p) ==
    /\ poll[p].pc = "fail"
    /\ rec' = Failed(TRUE)
    /\ PollTo(p, "refund")
    /\ UNCHANGED <<env, losses, spend, refund, tracks, job, exec, late, sweep, vendor>>

RefundPoll(p) ==
    /\ poll[p].pc = "refund"
    /\ refund' = TRUE
    /\ PollEnds(p)
    /\ UNCHANGED <<env, losses, rec, spend, tracks, job, exec, late, sweep, vendor>>

\* The worker dies or a statement throws: the job is tried again, or has used
\* its attempts.
InterruptPoll(p) ==
    /\ poll[p].pc \notin {"none", "waiting"}
    /\ \E fault \in {"worker_crash", "db_error"} : Lose(fault)
    /\ PollTo(p, "waiting") \/ PollEnds(p)
    /\ UNCHANGED <<env, rec, spend, refund, tracks, job, exec, late, sweep, vendor>>

\* A poll job is redelivered while its worker runs on.
DuplicatePoll(p) ==
    /\ poll[p].pc \notin {"none", "waiting"}
    /\ Lose("lock_loss")
    /\ \E q \in Free : poll' = [poll EXCEPT ![q] = [poll[p] EXCEPT !.pc = "waiting"]]
    /\ UNCHANGED <<env, rec, spend, refund, tracks, job, exec, late, sweep, vendor>>

-----------------------------------------------------------------------------
(* Time, the vendor, and the sweeps *)

VendorFinish(a) ==
    /\ vendor[a] = "running"
    /\ \E end \in {"complete", "error"} : vendor' = [vendor EXCEPT ![a] = end]
    /\ UNCHANGED <<env, losses, rec, spend, refund, tracks, job, exec, poll, late, sweep>>

TimeOut ==
    /\ rec.sub = "submitted"
    /\ late' = TRUE
    /\ UNCHANGED <<env, losses, rec, spend, refund, tracks, job, exec, poll, sweep, vendor>>

\* The row was not written for 30 s: a job that is to run writes it earlier,
\* unless the queue is long or the job is a retry, which BullMQ holds back for
\* 30 s and more.
Stale ==
    \/ "backlog" \in env
    \/ /\ job.state \notin {"waiting", "active"}
       /\ \A e \in Execs : exec[e].pc = "idle"
       /\ \A p \in Polls : ~Live(p)

Waiting == rec.status = "pending" /\ rec.task = NoTask /\ Stale

\* reconcileQueuedGenerations.  (A record without a spend cannot be met here:
\* the commit writes both.)
ReconcileQueued ==
    /\ Waiting /\ rec.sub = "queued" /\ spend
    /\ job' = Readded
    /\ UNCHANGED <<env, losses, rec, spend, refund, tracks, exec, poll, late, sweep, vendor>>

\* reconcileSubmittedGenerations
ReconcileSubmitted ==
    /\ rec.status \in {"pending", "processing"} /\ rec.sub = "submitted"
    /\ rec.task # NoTask /\ Stale
    /\ AddPoll(rec.task)
    /\ UNCHANGED <<env, losses, rec, spend, refund, tracks, job, exec, late, sweep, vendor>>

\* Mutant of FindFailed: failures are left to the worker that wrote them.
FindNone ==
    /\ rec.status = "failed" /\ refund
    /\ UNCHANGED vars

\* reconcileMissingMusicRefunds: the rows are listed first, refunded later.
\* The list is one batch of failed rows in no order, refunded ones included,
\* and ends at the first refund that throws: see Fairness.
FindFailed ==
    /\ rec.status = "failed" /\ spend /\ ~refund
    /\ sweep' = TRUE
    /\ UNCHANGED <<env, losses, rec, spend, refund, tracks, job, exec, poll, late, vendor>>

RefundFound ==
    /\ sweep
    /\ sweep' = FALSE
    /\ refund' = TRUE
    /\ UNCHANGED <<env, losses, rec, spend, tracks, job, exec, poll, late, vendor>>

\* reconcileQueuedMusicGenerations, the sweep of Suno's jobs: it asks neither
\* for the provider nor for the submission state, finds no spend under
\* generation:<id>:spend, and markFailedIfPending keeps the submission state.
SunoReconcile ==
    /\ Waiting
    /\ rec' = [rec EXCEPT !.status = "failed", !.reason = "missing_spend"]
    /\ UNCHANGED <<env, losses, spend, refund, tracks, job, exec, poll, late, sweep, vendor>>

-----------------------------------------------------------------------------

Generate(e) ==
    \/ Start(e) \/ Return(e) \/ Prepare(e) \/ ClaimDispatching(e) \/ Post(e)
    \/ PersistSubmittedTask(e) \/ GiveUpPersisting(e) \/ MarkSubmitUnknown(e)
    \/ ReleaseToQueued(e) \/ EnqueueFirstPoll(e) \/ FailMusicGeneration(e)
    \/ RefundExec(e)

PollStep(p) ==
    \/ StartPoll(p) \/ QueryVendor(p) \/ PollProgress(p) \/ UpsertTracks(p)
    \/ CompleteGeneration(p) \/ FailPoll(p) \/ RefundPoll(p)

Sweep == ReconcileQueued \/ ReconcileSubmitted \/ SunoReconcile

Next ==
    \/ CommitGeneration \/ EnqueueGeneration
    \/ \E e \in Execs : Generate(e) \/ DatabaseError(e) \/ CrashExec(e) \/ LoseLock(e)
    \/ \E p \in Polls : PollStep(p) \/ InterruptPoll(p) \/ DuplicatePoll(p)
    \/ \E a \in Attempts : VendorFinish(a)
    \/ TimeOut \/ Sweep \/ FindFailed \/ RefundFound

Spec == Init /\ [][Next]_vars

\* Workers are restarted, the sweeps run on a timer, time passes.  The vendor
\* owes nothing: a task it never ends is given up after ten minutes.  The
\* refund pass owes nothing either once a batch of other failed rows can fill
\* its list.
Fairness ==
    /\ \A e \in Execs : WF_vars(Generate(e))
    /\ \A p \in Polls : WF_vars(PollStep(p))
    /\ WF_vars(ReconcileQueued) /\ WF_vars(ReconcileSubmitted) /\ WF_vars(SunoReconcile)
    /\ WF_vars("full_batch" \notin env /\ FindFailed) /\ WF_vars(RefundFound)
    /\ WF_vars(TimeOut)

FairSpec == Spec /\ Fairness

-----------------------------------------------------------------------------
(* Properties *)

Records ==
    [status  : {"absent", "pending", "processing", "completed", "failed"},
     sub     : {"queued", "dispatching", "submitted", "submit_unknown", "failed"},
     task    : Attempts \cup {NoTask},
     attempt : Attempts \cup {NoAttempt},
     reason  : {"none", "missing_spend"}]

Jobs ==
    [state     : {"absent", "waiting", "active", "completed", "failed"},
     made      : 0 .. MaxAttempts,
     stalls    : Nat,
     owner     : Execs \cup {NoExec},
     recovered : Attempts \cup {NoTask}]

Executions ==
    [pc : {"idle", "return", "prepare", "claim", "post", "persist", "recovered",
           "unknown", "unknown_retry", "release", "poll", "fail", "refund"},
     last : BOOLEAN,
     attempt : Attempts \cup {NoAttempt}, task : Attempts \cup {NoTask}]

PollJobs ==
    [pc : {"none", "waiting", "query", "progress", "tracks", "complete", "fail",
           "refund"},
     task : Attempts \cup {NoTask}]

TypeOK ==
    /\ env \in Environments /\ losses \in 0 .. MaxLosses
    /\ rec \in Records /\ job \in Jobs
    /\ spend \in BOOLEAN /\ refund \in BOOLEAN /\ tracks \in BOOLEAN
    /\ exec \in [Execs -> Executions]
    /\ poll \in [Polls -> PollJobs]
    /\ late \in BOOLEAN /\ sweep \in BOOLEAN
    /\ vendor \in [Attempts -> {"unused", "none", "running", "complete", "error"}]

\* The submit guard of process-mureka-provider-job.ts: whatever crashes,
\* redelivered jobs, failing statements and the two reconcilers do, the vendor
\* starts at most one paid song.
AtMostOneTask == \A a, b \in Accepted : a = b

\* Where no job is redelivered while it runs and no row waits for 30 s beside
\* a live job, a song is not both delivered and refunded.
RefundedOrDelivered ==
    env \cap {"lock_loss", "backlog"} = {} => ~(refund /\ rec.status = "completed")

\* A charged song is delivered with its tracks or fails: a lost enqueue, a
\* broken poll chain, a poll that dies between its statements, a silent vendor
\* and dead workers included.
ChargedIsDecided ==
    spend ~> (rec.status = "completed" /\ tracks) \/ rec.status = "failed"

\* A full batch leaves a failed charge to the workers alone, who give it back
\* unless one of them died or threw, or the reconciler of Suno's jobs, which
\* refunds nothing, was the one to fail the row.
LeftBehind ==
    "full_batch" \in env /\ (losses > 0 \/ rec.reason = "missing_spend")

\* Unlike Suno's, a failed charge is given back: the refund pass finds what a
\* worker that died after the failed status has left, as long as the failed
\* rows fit its batch.
FailedIsRefunded ==
    (spend /\ rec.status = "failed") ~>
        (refund \/ rec.status # "failed" \/ LeftBehind)

\* provider-job-reconciler.ts:130: a record failed with RECONCILE_MISSING_SPEND
\* was never paid, "there was no charge to return".
MissingSpendIsTrue == rec.reason = "missing_spend" => ~spend
=============================================================================
