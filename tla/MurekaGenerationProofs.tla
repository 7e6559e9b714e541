------------------------ MODULE MurekaGenerationProofs ------------------------
(***************************************************************************)
(* Proofs about MurekaGeneration, for every number of attempts, worker     *)
(* slots and poll jobs and for every choice of faults: the types, with     *)
(* what is known of a task id wherever one is kept, that the vendor starts *)
(* at most one song, and that a song is not both refunded and delivered    *)
(* unless jobs overlap or rows wait.                                       *)
(***************************************************************************)
EXTENDS MurekaGeneration, TLAPS

ExecPcs ==
    {"idle", "return", "prepare", "claim", "post", "persist", "recovered",
     "unknown", "unknown_retry", "release", "poll", "fail", "refund"}

PollPcs == {"none", "waiting", "query", "progress", "tracks", "complete", "fail", "refund"}

VendorStates == {"unused", "none", "running", "complete", "error"}

-----------------------------------------------------------------------------
(* Types *)

\* An owned job is active, and a job that may still run has attempts left.
JobInv ==
    /\ job.owner # NoExec => job.state = "active"
    /\ job.state \in {"absent", "waiting", "active"} => job.made < MaxAttempts

\* A task id is that of a task the vendor has started, and a record, an
\* execution or a poll that needs one has one.
TaskInv ==
    /\ rec.task \in Accepted \cup {NoTask}
    /\ rec.sub = "submitted" => rec.task \in Accepted
    /\ job.recovered \in Accepted \cup {NoTask}
    /\ \A e \in Execs :
          /\ exec[e].task \in Accepted \cup {NoTask}
          /\ exec[e].pc \in {"persist", "recovered", "poll"} => exec[e].task \in Accepted
          /\ exec[e].pc = "post" => exec[e].attempt \in Attempts
    /\ \A p \in Polls : Live(p) => poll[p].task \in Accepted

TypeInv == TypeOK /\ JobInv /\ TaskInv

LEMMA Types ==
    ASSUME TypeInv
    PROVE  /\ rec \in Records /\ job \in Jobs /\ JobInv
           /\ exec \in [Execs -> Executions] /\ poll \in [Polls -> PollJobs]
           /\ vendor \in [Attempts -> VendorStates]
           /\ Accepted \subseteq Attempts /\ NoTask \notin Accepted
  <1>1. Accepted \subseteq Attempts BY DEF Accepted
  <1> QED BY <1>1, MurekaAssumption DEF TypeInv, TypeOK, VendorStates, NoTask

LEMMA IdleExecType == IdleExec \in Executions
  BY DEF IdleExec, Executions, NoTask

LEMMA NewJobType ==
    /\ BlankJob \in Jobs /\ BlankJob.owner = NoExec /\ BlankJob.made = 0
    /\ BlankJob.recovered = NoTask
    /\ NewJob \in Jobs /\ NewJob.owner = NoExec /\ NewJob.made = 0
    /\ NewJob.recovered = NoTask
  <1>1. /\ BlankJob \in Jobs /\ BlankJob.owner = NoExec /\ BlankJob.made = 0
        /\ BlankJob.recovered = NoTask
    BY MurekaAssumption DEF BlankJob, Jobs, NoTask
  <1> QED BY <1>1 DEF NewJob, Jobs

\* Tasks stay started.
LEMMA AcceptedGrows ==
    ASSUME TypeInv, [Next]_vars
    PROVE  Accepted \subseteq Accepted'
  <1>a. vendor \in [Attempts -> VendorStates] BY Types
  <1>1. CASE UNCHANGED vendor BY <1>1 DEF Accepted
  <1>2. ASSUME NEW e \in Execs, NEW a \in Fresh, vendor' = [vendor EXCEPT ![a] = "none"]
        PROVE  Accepted \subseteq Accepted'
    <2>1. vendor[a] = "unused" BY <1>2 DEF Fresh, AnyOf
    <2> QED BY <1>a, <1>2, <2>1 DEF Accepted
  <1>3. ASSUME NEW e \in Execs, vendor' = [vendor EXCEPT ![exec[e].attempt] = "running"]
        PROVE  Accepted \subseteq Accepted'
    BY <1>a, <1>3 DEF Accepted
  <1>4. ASSUME NEW a \in Attempts, VendorFinish(a)
        PROVE  Accepted \subseteq Accepted'
    BY <1>a, <1>4 DEF VendorFinish, Accepted
  <1>5. ASSUME NEW e \in Execs, ClaimDispatching(e) PROVE Accepted \subseteq Accepted'
    BY <1>1, <1>2, <1>5 DEF ClaimDispatching
  <1>6. ASSUME NEW e \in Execs, Post(e) PROVE Accepted \subseteq Accepted'
    <2>1. vendor' = vendor \/ vendor' = [vendor EXCEPT ![exec[e].attempt] = "running"]
      BY <1>6 DEF Post
    <2> QED BY <1>1, <1>3, <2>1
  <1>7. CASE UNCHANGED vars BY <1>1, <1>7 DEF vars
  <1>8. ASSUME NEW e \in Execs,
               Generate(e) \/ DatabaseError(e) \/ CrashExec(e) \/ LoseLock(e)
        PROVE  Accepted \subseteq Accepted'
    <2>1. CASE ~ClaimDispatching(e) /\ ~Post(e)
      <3>1. UNCHANGED vendor
        BY <1>8, <2>1
        DEF Generate, Start, Return, Prepare, PersistSubmittedTask, GiveUpPersisting,
            MarkSubmitUnknown, ReleaseToQueued, EnqueueFirstPoll, FailMusicGeneration,
            RefundExec, DatabaseError, CrashExec, LoseLock
      <3> QED BY <1>1, <3>1
    <2> QED BY <1>5, <1>6, <2>1
  <1>9. ASSUME NEW p \in Polls, PollStep(p) \/ InterruptPoll(p) \/ DuplicatePoll(p)
        PROVE  UNCHANGED vendor
    BY <1>9
    DEF PollStep, StartPoll, QueryVendor, PollProgress, UpsertTracks,
        CompleteGeneration, FailPoll, RefundPoll, InterruptPoll, DuplicatePoll
  <1>10. CASE CommitGeneration \/ EnqueueGeneration \/ TimeOut \/ Sweep \/ FindFailed
              \/ RefundFound
    BY <1>1, <1>10
    DEF CommitGeneration, EnqueueGeneration, TimeOut, Sweep, ReconcileQueued,
        ReconcileSubmitted, SunoReconcile, FindFailed, RefundFound
  <1> QED BY <1>1, <1>4, <1>7, <1>8, <1>9, <1>10 DEF Next

\* Whatever the way in which execution e ends, the job keeps its shape.
LEMMA EndedType ==
    ASSUME TypeInv, NEW e \in Execs, NEW how \in {"ok", "retry"}
    PROVE  /\ Ended(e, how) \in Jobs
           /\ Ended(e, how).recovered = job.recovered
           /\ Ended(e, how).owner # NoExec => Ended(e, how).state = "active"
           /\ Ended(e, how).state \in {"absent", "waiting", "active"}
                => Ended(e, how).made < MaxAttempts
  <1>1. job \in Jobs /\ JobInv BY Types
  <1>2. CASE job.owner # e BY <1>1, <1>2 DEF Ended, JobInv
  <1>3. CASE job.owner = e
    <2>1. job.made < MaxAttempts BY <1>1, <1>3, MurekaAssumption DEF JobInv
    <2>2. CASE how = "ok" BY <1>1, <1>3, <2>2 DEF Ended, Jobs
    <2>3. CASE how = "retry"
      <3> DEFINE state == IF job.made + 1 < MaxAttempts THEN "waiting" ELSE "failed"
      <3>1. Ended(e, how) =
              [job EXCEPT !.made = job.made + 1, !.owner = NoExec, !.state = state]
        BY <1>1, <1>3, <2>3 DEF Ended, Jobs
      <3>2. job.made + 1 \in 0 .. MaxAttempts
        BY <1>1, <2>1, MurekaAssumption DEF Jobs
      <3>3. /\ state \in {"waiting", "failed"}
            /\ state = "waiting" => job.made + 1 < MaxAttempts
        OBVIOUS
      <3> HIDE DEF state
      <3> QED BY <1>1, <3>1, <3>2, <3>3 DEF Jobs
    <2> QED BY <2>2, <2>3
  <1> QED BY <1>2, <1>3

LEMMA EndType ==
    ASSUME TypeInv, NEW e \in Execs, NEW how \in {"ok", "retry"}, End(e, how)
    PROVE  /\ job' \in Jobs /\ JobInv' /\ job'.recovered = job.recovered
           /\ exec' = [exec EXCEPT ![e] = IdleExec]
           /\ exec' \in [Execs -> Executions]
  <1>1. job' = Ended(e, how) /\ exec' = [exec EXCEPT ![e] = IdleExec] BY DEF End
  <1> QED BY <1>1, EndedType, IdleExecType, Types DEF JobInv

LEMMA StalledType ==
    ASSUME TypeInv, job.owner # NoExec, job' = Stalled
    PROVE  job' \in Jobs /\ JobInv' /\ job'.recovered = job.recovered
  <1>1. job \in Jobs /\ job.made < MaxAttempts BY Types DEF JobInv
  <1>2. job.stalls + 1 \in Nat BY <1>1 DEF Jobs
  <1>3. job' \in Jobs BY <1>1, <1>2 DEF Stalled, Jobs
  <1>4. job'.owner = NoExec /\ job'.made = job.made /\ job'.recovered = job.recovered
    BY <1>1 DEF Stalled, Jobs
  <1> QED BY <1>1, <1>3, <1>4 DEF JobInv

\* What a step of execution e makes of it.
GoesOn(e, x) == exec' = [exec EXCEPT ![e] = x]

LEMMA GotoGoesOn ==
    ASSUME TypeInv, NEW e \in Execs, NEW pc \in ExecPcs, Goto(e, pc)
    PROVE  /\ GoesOn(e, [exec[e] EXCEPT !.pc = pc])
           /\ [exec[e] EXCEPT !.pc = pc] \in Executions
           /\ [exec[e] EXCEPT !.pc = pc].pc = pc
           /\ [exec[e] EXCEPT !.pc = pc].task = exec[e].task
           /\ [exec[e] EXCEPT !.pc = pc].attempt = exec[e].attempt
  <1>1. exec[e] \in Executions BY Types
  <1> QED BY <1>1 DEF Goto, GoesOn, Executions, ExecPcs

\* An execution that goes on keeps the invariant if what it became does.
LEMMA ExecTyped ==
    ASSUME TypeInv, Accepted \subseteq Accepted', NEW e \in Execs, NEW x \in Executions,
           GoesOn(e, x), x.task \in Accepted' \cup {NoTask},
           x.pc \in {"persist", "recovered", "poll"} => x.task \in Accepted',
           x.pc = "post" => x.attempt \in Attempts
    PROVE  /\ exec' \in [Execs -> Executions]
           /\ \A f \in Execs :
                 /\ exec'[f].task \in Accepted' \cup {NoTask}
                 /\ exec'[f].pc \in {"persist", "recovered", "poll"}
                       => exec'[f].task \in Accepted'
                 /\ exec'[f].pc = "post" => exec'[f].attempt \in Attempts
  <1>1. exec \in [Execs -> Executions] BY Types
  <1>2. exec' \in [Execs -> Executions] BY <1>1 DEF GoesOn
  <1>3. \A f \in Execs : exec'[f] = IF f = e THEN x ELSE exec[f] BY <1>1 DEF GoesOn
  <1> QED BY <1>2, <1>3 DEF TypeInv, TaskInv

\* What the other variables keep.
RestTyped ==
    /\ env' \in Environments /\ losses' \in 0 .. MaxLosses
    /\ spend' \in BOOLEAN /\ refund' \in BOOLEAN /\ tracks' \in BOOLEAN
    /\ late' \in BOOLEAN /\ sweep' \in BOOLEAN
    /\ vendor' \in [Attempts -> VendorStates]
    /\ Accepted \subseteq Accepted'

RowTyped ==
    /\ rec' \in Records /\ rec'.task \in Accepted' \cup {NoTask}
    /\ rec'.sub = "submitted" => rec'.task \in Accepted'

JobTyped ==
    /\ job' \in Jobs /\ JobInv' /\ job'.recovered \in Accepted' \cup {NoTask}

PollsTyped ==
    /\ poll' \in [Polls -> PollJobs]
    /\ \A p \in Polls : poll'[p].pc # "none" => poll'[p].task \in Accepted'

LEMMA Assembled ==
    ASSUME RestTyped, RowTyped, JobTyped, PollsTyped,
           exec' \in [Execs -> Executions],
           \A f \in Execs :
              /\ exec'[f].task \in Accepted' \cup {NoTask}
              /\ exec'[f].pc \in {"persist", "recovered", "poll"} => exec'[f].task \in Accepted'
              /\ exec'[f].pc = "post" => exec'[f].attempt \in Attempts
    PROVE  TypeInv'
  BY DEF RestTyped, RowTyped, JobTyped, PollsTyped, TypeInv, TypeOK, TaskInv, Live,
         VendorStates, NoTask

LEMMA Unmoved ==
    ASSUME TypeInv, Accepted \subseteq Accepted'
    PROVE  /\ UNCHANGED rec => RowTyped
           /\ UNCHANGED job => JobTyped
           /\ UNCHANGED poll => PollsTyped
           /\ UNCHANGED exec =>
                /\ exec' \in [Execs -> Executions]
                /\ \A f \in Execs :
                      /\ exec'[f].task \in Accepted' \cup {NoTask}
                      /\ exec'[f].pc \in {"persist", "recovered", "poll"}
                            => exec'[f].task \in Accepted'
                      /\ exec'[f].pc = "post" => exec'[f].attempt \in Attempts
  <1>1. TypeOK /\ JobInv /\ TaskInv BY DEF TypeInv
  <1>2. UNCHANGED rec => RowTyped BY <1>1 DEF RowTyped, TypeOK, TaskInv
  <1>3. UNCHANGED job => JobTyped BY <1>1 DEF JobTyped, TypeOK, JobInv, TaskInv
  <1>4. UNCHANGED poll => PollsTyped BY <1>1 DEF PollsTyped, TypeOK, TaskInv, Live
  <1> QED BY <1>1, <1>2, <1>3, <1>4 DEF TypeOK, TaskInv

\* A poll job that is added, moved or done.
LEMMA PollTyped ==
    ASSUME TypeInv, Accepted \subseteq Accepted', NEW p \in Polls, NEW x \in PollJobs,
           poll' = [poll EXCEPT ![p] = x], x.pc # "none" => x.task \in Accepted'
    PROVE  PollsTyped
  <1>1. poll \in [Polls -> PollJobs] BY Types
  <1>2. \A q \in Polls : poll'[q] = IF q = p THEN x ELSE poll[q] BY <1>1
  <1>3. poll' \in [Polls -> PollJobs] BY <1>1
  <1> QED BY <1>2, <1>3 DEF PollsTyped, TypeInv, TaskInv, Live

LEMMA AddPollTyped ==
    ASSUME TypeInv, Accepted \subseteq Accepted', NEW task \in Accepted, AddPoll(task)
    PROVE  PollsTyped
  <1>1. CASE UNCHANGED poll BY <1>1, Unmoved
  <1>2. ASSUME NEW p \in Free, poll' = [poll EXCEPT ![p] = [pc |-> "waiting", task |-> task]]
        PROVE  PollsTyped
    <2>1. p \in Polls BY <1>2 DEF Free, AnyOf
    <2>2. [pc |-> "waiting", task |-> task] \in PollJobs BY Types DEF PollJobs
    <2> QED BY <1>2, <2>1, <2>2, PollTyped
  <1> QED BY <1>1, <1>2 DEF AddPoll

LEMMA PollMovesTyped ==
    ASSUME TypeInv, Accepted \subseteq Accepted', NEW p \in Polls, Live(p),
           PollEnds(p) \/ \E pc \in PollPcs : PollTo(p, pc)
    PROVE  PollsTyped
  <1>1. poll[p] \in PollJobs /\ poll[p].task \in Accepted
    BY Types DEF TypeInv, TaskInv
  <1>2. CASE PollEnds(p)
    <2>1. NoPoll \in PollJobs /\ NoPoll.pc = "none" BY DEF NoPoll, PollJobs
    <2> QED BY <1>2, <2>1, PollTyped DEF PollEnds
  <1>3. ASSUME NEW pc \in PollPcs, PollTo(p, pc) PROVE PollsTyped
    <2>1. poll' = [poll EXCEPT ![p] = [poll[p] EXCEPT !.pc = pc]] BY <1>3 DEF PollTo
    <2>2. /\ [poll[p] EXCEPT !.pc = pc] \in PollJobs
          /\ [poll[p] EXCEPT !.pc = pc].task = poll[p].task
      BY <1>1 DEF PollJobs, PollPcs
    <2> QED BY <1>1, <2>1, <2>2, PollTyped
  <1> QED BY <1>2, <1>3

LEMMA TypeInit == Init => TypeInv
  <1> SUFFICES ASSUME Init PROVE TypeInv OBVIOUS
  <1>1. rec \in Records /\ rec.task = NoTask /\ rec.sub = "queued"
    BY DEF Init, Records, NoTask
  <1>2. job \in Jobs /\ JobInv /\ job.recovered = NoTask
    BY NewJobType, MurekaAssumption DEF Init, JobInv, BlankJob
  <1>3. exec \in [Execs -> Executions] BY IdleExecType DEF Init
  <1>4. poll \in [Polls -> PollJobs] BY DEF Init, NoPoll, PollJobs
  <1>5. TypeOK
    <2>1. env \in Environments /\ losses \in 0 .. MaxLosses BY MurekaAssumption DEF Init
    <2>2. /\ spend \in BOOLEAN /\ refund \in BOOLEAN /\ tracks \in BOOLEAN
          /\ late \in BOOLEAN /\ sweep \in BOOLEAN
      BY DEF Init
    <2>3. vendor \in [Attempts -> {"unused", "none", "running", "complete", "error"}]
      BY DEF Init
    <2> QED BY <1>1, <1>2, <1>3, <1>4, <2>1, <2>2, <2>3 DEF TypeOK
  <1>6. TaskInv
    <2>1. \A e \in Execs : exec[e].task = NoTask /\ exec[e].pc = "idle"
      BY DEF Init, IdleExec
    <2>2. \A p \in Polls : ~Live(p) BY DEF Init, NoPoll, Live
    <2> QED BY <1>1, <1>2, <2>1, <2>2 DEF TaskInv
  <1> QED BY <1>2, <1>5, <1>6 DEF TypeInv

LEMMA LoseType == TypeInv /\ (\E f \in FaultKinds : Lose(f)) => losses' \in 0 .. MaxLosses
  BY MurekaAssumption DEF Lose, TypeInv, TypeOK

-----------------------------------------------------------------------------
(* The steps keep the types *)

LEMMA TypeClaim ==
    ASSUME TypeInv, [Next]_vars, NEW e \in Execs, ClaimDispatching(e)
    PROVE  TypeInv'
  <1>a. Accepted \subseteq Accepted' BY AcceptedGrows
  <1>b. TypeOK /\ TaskInv BY DEF TypeInv
  <1>c. UNCHANGED <<env, losses, spend, refund, tracks, poll, late, sweep>>
    BY DEF ClaimDispatching
  <1>d. exec[e] \in Executions /\ rec \in Records /\ exec[e].task \in Accepted \cup {NoTask}
    BY <1>b, Types DEF TaskInv
  <1>1. CASE rec.status = "pending" /\ rec.sub = "queued" /\ rec.task = NoTask
    <2>1. PICK a \in Fresh :
            /\ vendor' = [vendor EXCEPT ![a] = "none"]
            /\ rec' = [rec EXCEPT !.sub = "dispatching", !.attempt = a]
            /\ exec' = [exec EXCEPT ![e].pc = "post", ![e].attempt = a]
            /\ UNCHANGED job
      BY <1>1 DEF ClaimDispatching
    <2>2. a \in Attempts BY DEF Fresh, AnyOf
    <2> DEFINE x == [exec[e] EXCEPT !.pc = "post", !.attempt = a]
    <2>3. x \in Executions /\ x.task = exec[e].task /\ x.pc = "post" /\ x.attempt = a
      BY <1>d, <2>2 DEF Executions
    <2>4. exec' = [exec EXCEPT ![e] = x] BY <1>d, <2>1, Types DEF Executions
    <2> HIDE DEF x
    <2>5. GoesOn(e, x) BY <2>4 DEF GoesOn
    <2>6. RestTyped
      BY <1>a, <1>b, <1>c, <2>1, Types DEF RestTyped, TypeOK, VendorStates
    <2>7. RowTyped
      <3>1. rec' \in Records /\ rec'.task = rec.task /\ rec'.sub = "dispatching"
        BY <1>d, <2>1, <2>2 DEF Records
      <3> QED BY <1>a, <1>b, <3>1 DEF RowTyped, TaskInv
    <2> QED BY <1>a, <1>c, <1>d, <2>1, <2>2, <2>3, <2>5, <2>6, <2>7, ExecTyped, Unmoved, Assembled
  <1>2. CASE ~(rec.status = "pending" /\ rec.sub = "queued" /\ rec.task = NoTask)
    <2>1. End(e, "ok") /\ UNCHANGED <<rec, vendor>> BY <1>2 DEF ClaimDispatching
    <2>2. RestTyped BY <1>a, <1>b, <1>c, <2>1, Types DEF RestTyped, TypeOK
    <2>3. JobTyped BY <1>a, <1>b, <2>1, EndType DEF JobTyped, TaskInv
    <2>4. IdleExec.task = NoTask /\ IdleExec.pc = "idle" BY DEF IdleExec
    <2>5. GoesOn(e, IdleExec) BY <2>1, EndType DEF GoesOn
    <2> QED BY <1>a, <1>c, <2>1, <2>2, <2>3, <2>4, <2>5, IdleExecType, ExecTyped, Unmoved, Assembled
  <1> QED BY <1>1, <1>2

\* A step that ends execution e and changes the vendor's tasks and the polls
\* not at all.
LEMMA EndKeepsTypes ==
    ASSUME TypeInv, NEW e \in Execs, NEW how \in {"ok", "retry"}, End(e, how),
           RestTyped, RowTyped, PollsTyped
    PROVE  TypeInv'
  <1>1. Accepted \subseteq Accepted' /\ TaskInv BY DEF RestTyped, TypeInv
  <1>2. JobTyped BY <1>1, EndType DEF JobTyped, TaskInv
  <1>3. IdleExec.task = NoTask /\ IdleExec.pc = "idle" BY DEF IdleExec
  <1>4. GoesOn(e, IdleExec) BY EndType DEF GoesOn
  <1> QED BY <1>1, <1>2, <1>3, <1>4, IdleExecType, ExecTyped, Assembled

\* One that moves execution e to another step, with the task it has.
LEMMA GotoKeepsTypes ==
    ASSUME TypeInv, NEW e \in Execs, NEW pc \in ExecPcs \ {"post"}, Goto(e, pc),
           pc \in {"persist", "recovered", "poll"} => exec[e].task \in Accepted,
           RestTyped, RowTyped, JobTyped, PollsTyped
    PROVE  TypeInv'
  <1>1. Accepted \subseteq Accepted' /\ exec[e].task \in Accepted \cup {NoTask}
    BY DEF RestTyped, TypeInv, TaskInv
  <1> DEFINE x == [exec[e] EXCEPT !.pc = pc]
  <1>2. x \in Executions /\ x.pc = pc /\ x.task = exec[e].task /\ GoesOn(e, x)
    BY GotoGoesOn
  <1> HIDE DEF x
  <1> QED BY <1>1, <1>2, ExecTyped, Assembled

LEMMA TypePost ==
    ASSUME TypeInv, [Next]_vars, NEW e \in Execs, Post(e)
    PROVE  TypeInv'
  <1>a. Accepted \subseteq Accepted' BY AcceptedGrows
  <1>b. TypeOK /\ TaskInv BY DEF TypeInv
  <1>c. UNCHANGED <<env, losses, rec, spend, refund, tracks, job, poll, late, sweep>>
    BY DEF Post
  <1>d. exec[e] \in Executions /\ exec[e].attempt \in Attempts
    BY <1>b, Types DEF TaskInv, Post
  <1>1. PICK answer \in {"ok", "terminal", "capacity", "ambiguous"}, started \in BOOLEAN :
          /\ answer = "ok" => started
          /\ exec' = [exec EXCEPT ![e].pc = NextPc(answer, exec[e].last),
                                  ![e].task = IF answer = "ok" THEN exec[e].attempt
                                                               ELSE NoTask]
          /\ vendor' = IF started
                       THEN [vendor EXCEPT ![exec[e].attempt] = "running"]
                       ELSE vendor
    BY DEF Post
  <1> DEFINE task == IF answer = "ok" THEN exec[e].attempt ELSE NoTask
             x == [exec[e] EXCEPT !.pc = NextPc(answer, exec[e].last), !.task = task]
  <1>2. NextPc(answer, exec[e].last) \in {"persist", "unknown", "fail", "release"}
    BY DEF NextPc
  <1>3. NextPc(answer, exec[e].last) = "persist" => answer = "ok"
    BY DEF NextPc
  <1>4. vendor' \in [Attempts -> VendorStates] BY <1>1, Types DEF VendorStates
  <1>5. answer = "ok" => exec[e].attempt \in Accepted'
    <2>1. answer = "ok" => vendor'[exec[e].attempt] = "running" BY <1>1, <1>d, Types
    <2> QED BY <1>d, <2>1 DEF Accepted
  <1>6. task \in Accepted' \cup {NoTask} /\ (answer = "ok" => task \in Accepted')
    BY <1>5
  <1>7. task \in Attempts \cup {NoTask} BY <1>d
  <1> HIDE DEF task
  <1>8. x \in Executions /\ x.task = task /\ x.pc = NextPc(answer, exec[e].last)
    BY <1>d, <1>2, <1>7 DEF Executions
  <1>9. exec' = [exec EXCEPT ![e] = x] BY <1>1 DEF task
  <1> HIDE DEF x
  <1>10. GoesOn(e, x) BY <1>9 DEF GoesOn
  <1>11. RestTyped BY <1>a, <1>b, <1>c, <1>4 DEF RestTyped, TypeOK
  <1>12. RowTyped /\ JobTyped /\ PollsTyped BY <1>a, <1>c, Unmoved
  <1>13. /\ exec' \in [Execs -> Executions]
         /\ \A f \in Execs :
               /\ exec'[f].task \in Accepted' \cup {NoTask}
               /\ exec'[f].pc \in {"persist", "recovered", "poll"}
                     => exec'[f].task \in Accepted'
               /\ exec'[f].pc = "post" => exec'[f].attempt \in Attempts
    BY <1>a, <1>2, <1>3, <1>6, <1>8, <1>10, ExecTyped
  <1> QED BY <1>11, <1>12, <1>13, Assembled

LEMMA TypeExec ==
    ASSUME TypeInv, [Next]_vars, NEW e \in Execs,
           Generate(e) \/ DatabaseError(e) \/ CrashExec(e) \/ LoseLock(e)
    PROVE  TypeInv'
  <1>a. Accepted \subseteq Accepted' BY AcceptedGrows
  <1>b. TypeOK /\ JobInv /\ TaskInv BY DEF TypeInv
  <1>c. /\ rec \in Records /\ job \in Jobs /\ exec[e] \in Executions
        /\ exec[e].task \in Accepted \cup {NoTask}
    BY <1>b, Types DEF TaskInv
  <1>d. ASSUME UNCHANGED <<env, losses, spend, refund, tracks, late, sweep, vendor>>
        PROVE  RestTyped
    BY <1>a, <1>b, <1>d, Types DEF RestTyped, TypeOK
  <1>e. ASSUME UNCHANGED <<env, spend, refund, tracks, late, sweep, vendor>>,
               \E f \in FaultKinds : Lose(f)
        PROVE  RestTyped
    BY <1>a, <1>b, <1>e, Types, LoseType DEF RestTyped, TypeOK, TypeInv
  <1>f. {"worker_crash", "lock_loss", "db_error"} \subseteq FaultKinds BY DEF FaultKinds
  <1>1. CASE Start(e)
    <2>1. JobTyped
      <3>1. job' = [job EXCEPT !.state = "active", !.owner = e] /\ job.state = "waiting"
        BY <1>1 DEF Start
      <3>2. /\ job' \in Jobs /\ job'.recovered = job.recovered /\ job'.made = job.made
            /\ job'.state = "active"
        BY <1>c, <3>1 DEF Jobs
      <3>3. JobInv' BY <1>b, <3>1, <3>2 DEF JobInv
      <3> QED BY <1>a, <1>b, <3>2, <3>3 DEF JobTyped, TaskInv
    <2> DEFINE x == [pc |-> EntryPc, last |-> job.made + 1 >= MaxAttempts,
                     attempt |-> IF EntryPc = "prepare" THEN NoAttempt ELSE rec.attempt,
                     task |-> IF job.recovered # NoTask THEN job.recovered ELSE rec.task]
    <2>2. EntryPc \in {"return", "refund", "recovered", "unknown", "poll", "prepare"}
      BY <1>c DEF EntryPc, Records
    <2>3. EntryPc = "recovered" => job.recovered # NoTask BY DEF EntryPc
    <2>4. EntryPc = "poll" => rec.sub = "submitted" \/ rec.task # NoTask
      BY DEF EntryPc
    <2>5. job.recovered \in Accepted \cup {NoTask} /\ rec.task \in Accepted \cup {NoTask}
          /\ (rec.sub = "submitted" => rec.task \in Accepted)
      BY <1>b DEF TaskInv
    <2>6. x.task \in Accepted \cup {NoTask} BY <2>5
    <2>7. x.pc \in {"recovered", "poll"} => x.task \in Accepted BY <2>3, <2>4, <2>5
    <2>8. x.pc = EntryPc OBVIOUS
    <2>9. x \in Executions
      BY <1>c, <2>2, <2>6, Types DEF Executions, Records, Jobs, NoTask
    <2>10. exec' = [exec EXCEPT ![e] = x] BY <1>1 DEF Start
    <2> HIDE DEF x
    <2>11. GoesOn(e, x) BY <2>10 DEF GoesOn
    <2>12. RestTyped /\ RowTyped /\ PollsTyped BY <1>1, <1>a, <1>d, Unmoved DEF Start
    <2> QED
      BY <1>a, <2>1, <2>2, <2>6, <2>7, <2>8, <2>9, <2>11, <2>12, ExecTyped, Assembled
  <1>2. CASE Return(e)
    BY <1>2, <1>a, <1>d, Unmoved, EndKeepsTypes DEF Return
  <1>3. CASE Prepare(e)
    <2>1. RestTyped /\ RowTyped /\ PollsTyped BY <1>3, <1>a, <1>d, Unmoved DEF Prepare
    <2>2. CASE End(e, "retry") BY <2>1, <2>2, EndKeepsTypes
    <2>3. ASSUME NEW pc \in {"claim", "fail"}, Goto(e, pc), UNCHANGED job PROVE TypeInv'
      <3>1. JobTyped BY <2>3, <1>a, Unmoved
      <3> QED BY <2>1, <2>3, <3>1, GotoKeepsTypes DEF ExecPcs
    <2> QED BY <1>3, <2>2, <2>3 DEF Prepare
  <1>4. CASE ClaimDispatching(e) BY <1>4, TypeClaim
  <1>5. CASE Post(e) BY <1>5, TypePost
  <1>6. CASE PersistSubmittedTask(e)
    <2>1. exec[e].task \in Accepted BY <1>6, <1>b DEF PersistSubmittedTask, TaskInv
    <2>2. RowTyped
      <3>1. rec' \in Records /\ rec'.task = exec[e].task
        BY <1>c, <1>6 DEF PersistSubmittedTask, Records, Executions
      <3> QED BY <1>a, <2>1, <3>1 DEF RowTyped
    <2>3. RestTyped /\ JobTyped /\ PollsTyped
      BY <1>6, <1>a, <1>d, Unmoved DEF PersistSubmittedTask
    <2>4. Goto(e, "poll") BY <1>6 DEF PersistSubmittedTask
    <2> QED BY <2>1, <2>2, <2>3, <2>4, GotoKeepsTypes DEF ExecPcs
  <1>7. CASE GiveUpPersisting(e)
    <2>1. RestTyped
      <3>1. CASE Persistable(e) BY <1>7, <1>e, <1>f, <3>1 DEF GiveUpPersisting
      <3>2. CASE ~Persistable(e) BY <1>7, <1>d, <3>2 DEF GiveUpPersisting
      <3> QED BY <3>1, <3>2
    <2>2. RowTyped /\ PollsTyped BY <1>7, <1>a, Unmoved DEF GiveUpPersisting
    <2>3. CASE exec[e].pc = "recovered"
      BY <1>7, <2>1, <2>2, <2>3, EndKeepsTypes DEF GiveUpPersisting
    <2>4. CASE exec[e].pc # "recovered"
      <3>1. PICK saved \in {exec[e].task, job.recovered} :
              job' = [job EXCEPT !.recovered = saved]
        BY <1>7, <2>4 DEF GiveUpPersisting
      <3>2. saved \in Accepted \cup {NoTask} BY <1>b, <1>c DEF TaskInv
      <3>3. /\ job' \in Jobs /\ job'.recovered = saved /\ job'.owner = job.owner
            /\ job'.state = job.state /\ job'.made = job.made
        BY <1>c, <3>1, <3>2, Types DEF Jobs
      <3>4. JobTyped BY <1>a, <1>b, <3>2, <3>3 DEF JobTyped, JobInv
      <3>5. Goto(e, "unknown_retry") BY <1>7, <2>4 DEF GiveUpPersisting
      <3> QED BY <2>1, <2>2, <3>4, <3>5, GotoKeepsTypes DEF ExecPcs
    <2> QED BY <2>3, <2>4
  <1>8. CASE MarkSubmitUnknown(e)
    <2>1. RowTyped
      <3>1. /\ rec' \in Records /\ rec'.task = rec.task
            /\ rec'.sub = "submitted" => rec.sub = "submitted"
        BY <1>c, <1>8 DEF MarkSubmitUnknown, Records
      <3> QED BY <1>a, <1>b, <3>1 DEF RowTyped, TaskInv
    <2>2. RestTyped /\ PollsTyped BY <1>8, <1>a, <1>d, Unmoved DEF MarkSubmitUnknown
    <2>3. End(e, "ok") \/ End(e, "retry") BY <1>8 DEF MarkSubmitUnknown
    <2> QED BY <2>1, <2>2, <2>3, EndKeepsTypes
  <1>9. CASE ReleaseToQueued(e)
    <2>1. RowTyped
      <3>1. /\ rec' \in Records /\ rec'.task = rec.task
            /\ rec'.sub = "submitted" => rec.sub = "submitted"
        BY <1>c, <1>9 DEF ReleaseToQueued, Records
      <3> QED BY <1>a, <1>b, <3>1 DEF RowTyped, TaskInv
    <2>2. RestTyped /\ PollsTyped BY <1>9, <1>a, <1>d, Unmoved DEF ReleaseToQueued
    <2> QED BY <1>9, <2>1, <2>2, EndKeepsTypes DEF ReleaseToQueued
  <1>10. CASE EnqueueFirstPoll(e)
    <2>1. exec[e].task \in Accepted BY <1>10, <1>b DEF EnqueueFirstPoll, TaskInv
    <2>2. PollsTyped BY <1>10, <1>a, <2>1, AddPollTyped DEF EnqueueFirstPoll
    <2>3. RestTyped /\ RowTyped BY <1>10, <1>a, <1>d, Unmoved DEF EnqueueFirstPoll
    <2> QED BY <1>10, <2>2, <2>3, EndKeepsTypes DEF EnqueueFirstPoll
  <1>11. CASE FailMusicGeneration(e)
    <2>1. RowTyped
      <3>1. /\ rec' \in Records /\ rec'.task = rec.task
            /\ rec'.sub = "submitted" => rec.sub = "submitted"
        BY <1>c, <1>11 DEF FailMusicGeneration, Failed, Records
      <3> QED BY <1>a, <1>b, <3>1 DEF RowTyped, TaskInv
    <2>2. RestTyped /\ JobTyped /\ PollsTyped
      BY <1>11, <1>a, <1>d, Unmoved DEF FailMusicGeneration
    <2>3. Goto(e, "refund") BY <1>11 DEF FailMusicGeneration
    <2> QED BY <2>1, <2>2, <2>3, GotoKeepsTypes DEF ExecPcs
  <1>12. CASE RefundExec(e)
    <2>1. RestTyped BY <1>12, <1>a, <1>b, Types DEF RefundExec, RestTyped, TypeOK
    <2> QED BY <1>12, <1>a, <2>1, Unmoved, EndKeepsTypes DEF RefundExec
  <1>13. CASE DatabaseError(e)
    BY <1>13, <1>a, <1>e, <1>f, Unmoved, EndKeepsTypes DEF DatabaseError
  <1>14. CASE CrashExec(e)
    <2>1. JobTyped
      <3>1. CASE job.owner = e
        BY <1>14, <1>a, <1>b, <3>1, StalledType, MurekaAssumption
        DEF CrashExec, JobTyped, TaskInv
      <3>2. CASE job.owner # e BY <1>14, <1>a, <3>2, Unmoved DEF CrashExec
      <3> QED BY <3>1, <3>2
    <2>2. RestTyped BY <1>14, <1>e, <1>f DEF CrashExec
    <2>3. RowTyped /\ PollsTyped BY <1>14, <1>a, Unmoved DEF CrashExec
    <2>4. IdleExec.task = NoTask /\ IdleExec.pc = "idle" BY DEF IdleExec
    <2>5. GoesOn(e, IdleExec) BY <1>14 DEF CrashExec, GoesOn
    <2> QED
      BY <1>a, <2>1, <2>2, <2>3, <2>4, <2>5, IdleExecType, ExecTyped, Assembled
  <1>15. CASE LoseLock(e)
    <2>1. JobTyped
      BY <1>15, <1>a, <1>b, StalledType, MurekaAssumption DEF LoseLock, JobTyped, TaskInv
    <2>2. RestTyped BY <1>15, <1>e, <1>f DEF LoseLock
    <2> QED BY <1>15, <1>a, <2>1, <2>2, Unmoved, Assembled DEF LoseLock
  <1> QED
    BY <1>1, <1>2, <1>3, <1>4, <1>5, <1>6, <1>7, <1>8, <1>9, <1>10, <1>11, <1>12,
       <1>13, <1>14, <1>15
    DEF Generate

LEMMA TypePoll ==
    ASSUME TypeInv, [Next]_vars, NEW p \in Polls,
           PollStep(p) \/ InterruptPoll(p) \/ DuplicatePoll(p)
    PROVE  TypeInv'
  <1>a. Accepted \subseteq Accepted' BY AcceptedGrows
  <1>b. TypeOK /\ JobInv /\ TaskInv BY DEF TypeInv
  <1>c. rec \in Records /\ poll[p] \in PollJobs BY Types
  <1>d. UNCHANGED <<env, spend, job, exec, late, sweep, vendor>>
    BY DEF PollStep, StartPoll, QueryVendor, PollProgress, UpsertTracks,
           CompleteGeneration, FailPoll, RefundPoll, InterruptPoll, DuplicatePoll
  <1>e. ASSUME losses' \in 0 .. MaxLosses, refund' \in BOOLEAN, tracks' \in BOOLEAN,
               RowTyped, PollsTyped
        PROVE  TypeInv'
    <2>1. RestTyped BY <1>a, <1>b, <1>d, <1>e, Types DEF RestTyped, TypeOK
    <2> QED BY <1>a, <1>d, <1>e, <2>1, Unmoved, Assembled
  <1>f. /\ losses \in 0 .. MaxLosses /\ refund \in BOOLEAN /\ tracks \in BOOLEAN
    BY <1>b DEF TypeOK
  <1>g. ASSUME poll[p].pc # "none", PollEnds(p) \/ \E pc \in PollPcs : PollTo(p, pc)
        PROVE  PollsTyped
    BY <1>a, <1>g, PollMovesTyped DEF Live
  <1>1. CASE StartPoll(p)
    <2>1. PollEnds(p) \/ \E pc \in {"refund", "fail", "query"} : PollTo(p, pc)
      BY <1>1 DEF StartPoll
    <2>2. PollsTyped BY <1>1, <1>g, <2>1 DEF StartPoll, PollPcs
    <2> QED BY <1>1, <1>a, <1>e, <1>f, <2>2, Unmoved DEF StartPoll
  <1>2. CASE QueryVendor(p)
    <2>1. poll[p].task \in Accepted BY <1>2, <1>b DEF QueryVendor, TaskInv, Live
    <2>2. Answers(poll[p].task) \subseteq {"progress", "fail", "tracks"}
      <3>1. vendor[poll[p].task] \in {"running", "complete", "error"}
        BY <2>1 DEF Accepted
      <3>2. CASE vendor[poll[p].task] = "running" BY <3>2 DEF Answers
      <3>3. CASE vendor[poll[p].task] = "error" BY <3>3 DEF Answers
      <3>4. CASE vendor[poll[p].task] = "complete" BY <3>4 DEF Answers
      <3> QED BY <3>1, <3>2, <3>3, <3>4
    <2>3. PollEnds(p) \/ \E pc \in {"progress", "fail", "tracks", "waiting"} : PollTo(p, pc)
      BY <1>2, <2>2 DEF QueryVendor
    <2>4. PollsTyped BY <1>2, <1>g, <2>3 DEF QueryVendor, PollPcs
    <2> QED BY <1>2, <1>a, <1>e, <1>f, <2>4, Unmoved DEF QueryVendor
  <1>3. CASE PollProgress(p)
    <2>1. RowTyped
      <3>1. rec' \in Records /\ rec'.task = rec.task /\ rec'.sub = rec.sub
        BY <1>3, <1>c DEF PollProgress, Records
      <3> QED BY <1>a, <1>b, <3>1 DEF RowTyped, TaskInv
    <2>2. PollsTyped BY <1>3, <1>g DEF PollProgress, PollPcs
    <2> QED BY <1>3, <1>e, <1>f, <2>1, <2>2 DEF PollProgress
  <1>4. CASE UpsertTracks(p)
    <2>1. PollsTyped BY <1>4, <1>g DEF UpsertTracks, PollPcs
    <2> QED BY <1>4, <1>a, <1>e, <1>f, <2>1, Unmoved DEF UpsertTracks
  <1>5. CASE CompleteGeneration(p)
    <2>1. RowTyped
      <3>1. rec' \in Records /\ rec'.task = rec.task /\ rec'.sub = rec.sub
        BY <1>5, <1>c DEF CompleteGeneration, Records
      <3> QED BY <1>a, <1>b, <3>1 DEF RowTyped, TaskInv
    <2>2. PollsTyped BY <1>5, <1>g DEF CompleteGeneration
    <2> QED BY <1>5, <1>e, <1>f, <2>1, <2>2 DEF CompleteGeneration
  <1>6. CASE FailPoll(p)
    <2>1. RowTyped
      <3>1. /\ rec' \in Records /\ rec'.task = rec.task
            /\ rec'.sub = "submitted" => rec.sub = "submitted"
        BY <1>6, <1>c DEF FailPoll, Failed, Records
      <3> QED BY <1>a, <1>b, <3>1 DEF RowTyped, TaskInv
    <2>2. PollsTyped BY <1>6, <1>g DEF FailPoll, PollPcs
    <2> QED BY <1>6, <1>e, <1>f, <2>1, <2>2 DEF FailPoll
  <1>7. CASE RefundPoll(p)
    <2>1. PollsTyped BY <1>7, <1>g DEF RefundPoll
    <2> QED BY <1>7, <1>a, <1>e, <1>f, <2>1, Unmoved DEF RefundPoll
  <1>8. CASE InterruptPoll(p)
    <2>1. losses' \in 0 .. MaxLosses BY <1>8, LoseType DEF InterruptPoll, FaultKinds
    <2>2. PollsTyped BY <1>8, <1>g DEF InterruptPoll, PollPcs
    <2> QED BY <1>8, <1>a, <1>e, <1>f, <2>1, <2>2, Unmoved DEF InterruptPoll
  <1>9. CASE DuplicatePoll(p)
    <2>1. losses' \in 0 .. MaxLosses BY <1>9, LoseType DEF DuplicatePoll, FaultKinds
    <2>2. PICK q \in Free : poll' = [poll EXCEPT ![q] = [poll[p] EXCEPT !.pc = "waiting"]]
      BY <1>9 DEF DuplicatePoll
    <2>3. q \in Polls BY DEF Free, AnyOf
    <2>4. poll[p].task \in Accepted BY <1>9, <1>b DEF DuplicatePoll, TaskInv, Live
    <2> DEFINE x == [poll[p] EXCEPT !.pc = "waiting"]
    <2>5. x \in PollJobs /\ x.task = poll[p].task BY <1>c DEF PollJobs
    <2>6. poll' = [poll EXCEPT ![q] = x] BY <2>2
    <2> HIDE DEF x
    <2>7. PollsTyped BY <1>a, <2>3, <2>4, <2>5, <2>6, PollTyped
    <2> QED BY <1>9, <1>a, <1>e, <1>f, <2>1, <2>7, Unmoved DEF DuplicatePoll
  <1> QED
    BY <1>1, <1>2, <1>3, <1>4, <1>5, <1>6, <1>7, <1>8, <1>9 DEF PollStep

\* The API, the vendor, the clock and the sweeps.
LEMMA TypeOthers ==
    ASSUME TypeInv, [Next]_vars,
           \/ CommitGeneration \/ EnqueueGeneration \/ TimeOut \/ Sweep
           \/ FindFailed \/ RefundFound \/ \E a \in Attempts : VendorFinish(a)
    PROVE  TypeInv'
  <1>a. Accepted \subseteq Accepted' BY AcceptedGrows
  <1>b. TypeOK /\ JobInv /\ TaskInv BY DEF TypeInv
  <1>c. rec \in Records BY Types
  <1>d. UNCHANGED <<env, losses, tracks, exec>>
    BY DEF CommitGeneration, EnqueueGeneration, TimeOut, Sweep, ReconcileQueued,
           ReconcileSubmitted, SunoReconcile, FindFailed, RefundFound, VendorFinish
  <1>1. /\ spend' \in BOOLEAN /\ refund' \in BOOLEAN /\ late' \in BOOLEAN
        /\ sweep' \in BOOLEAN /\ vendor' \in [Attempts -> VendorStates]
    <2>1. /\ spend \in BOOLEAN /\ refund \in BOOLEAN /\ late \in BOOLEAN
          /\ sweep \in BOOLEAN /\ vendor \in [Attempts -> VendorStates]
      BY <1>b, Types DEF TypeOK
    <2> QED
      BY <2>1
      DEF CommitGeneration, EnqueueGeneration, TimeOut, Sweep, ReconcileQueued,
          ReconcileSubmitted, SunoReconcile, FindFailed, RefundFound, VendorFinish,
          VendorStates
  <1>2. RestTyped BY <1>a, <1>b, <1>d, <1>1 DEF RestTyped, TypeOK
  <1>3. RowTyped
    <2>1. /\ rec' \in Records /\ rec'.task = rec.task /\ rec'.sub = rec.sub
      BY <1>c
      DEF CommitGeneration, EnqueueGeneration, TimeOut, Sweep, ReconcileQueued,
          ReconcileSubmitted, SunoReconcile, FindFailed, RefundFound, VendorFinish,
          Records
    <2> QED BY <1>a, <1>b, <2>1 DEF RowTyped, TaskInv
  <1>4. JobTyped
    <2>1. job' = job \/ job' = NewJob
      BY DEF CommitGeneration, EnqueueGeneration, TimeOut, Sweep, ReconcileQueued,
             ReconcileSubmitted, SunoReconcile, FindFailed, RefundFound, VendorFinish,
             Readded
    <2>2. CASE job' = job BY <1>a, <2>2, Unmoved
    <2>3. CASE job' = NewJob
      BY <2>3, NewJobType, MurekaAssumption DEF JobTyped, JobInv
    <2> QED BY <2>1, <2>2, <2>3
  <1>5. PollsTyped
    <2>1. CASE UNCHANGED poll BY <1>a, <2>1, Unmoved
    <2>2. CASE ReconcileSubmitted
      <3>1. rec.task \in Accepted BY <1>b, <2>2 DEF ReconcileSubmitted, TaskInv
      <3> QED BY <1>a, <2>2, <3>1, AddPollTyped DEF ReconcileSubmitted
    <2> QED
      BY <2>1, <2>2
      DEF CommitGeneration, EnqueueGeneration, TimeOut, Sweep, ReconcileQueued,
          SunoReconcile, FindFailed, RefundFound, VendorFinish
  <1> QED BY <1>a, <1>d, <1>2, <1>3, <1>4, <1>5, Unmoved, Assembled

LEMMA TypeNext == TypeInv /\ [Next]_vars => TypeInv'
  <1> SUFFICES ASSUME TypeInv, [Next]_vars PROVE TypeInv' OBVIOUS
  <1>1. CASE UNCHANGED vars
    BY <1>1
    DEF vars, TypeInv, TypeOK, JobInv, TaskInv, Accepted, Live
  <1> QED BY <1>1, TypeExec, TypePoll, TypeOthers DEF Next

\* The row, the jobs of the queue and the program counters stay in the sets
\* that the code's enums name.
THEOREM TypeCorrect == Spec => []TypeOK
  <1>1. TypeInv => TypeOK BY DEF TypeInv
  <1> QED BY <1>1, TypeInit, TypeNext, PTL DEF Spec

\* A poll never asks for a task that Mureka did not start, and a record that
\* says it was submitted has one.
THEOREM TasksAreStarted == Spec => []TaskInv
  <1>1. TypeInv => TaskInv BY DEF TypeInv
  <1> QED BY <1>1, TypeInit, TypeNext, PTL DEF Spec

-----------------------------------------------------------------------------
(* The submit guard *)

\* An execution that may still post, or that knows its post was refused for
\* want of capacity.
Holds(e) == exec[e].pc \in {"post", "release"}

\* A started task is that of the attempt on the row, and the row is not queued.
AcceptedOnRow == \A a \in Accepted : rec.attempt = a /\ rec.sub # "queued"

\* A claim is held with an attempt of which the vendor knows nothing; until it
\* is posted the row stays off the queue and carries it.
HeldUnsent ==
    \A e \in Execs : Holds(e) =>
        /\ exec[e].attempt \in Attempts /\ vendor[exec[e].attempt] = "none"
        /\ exec[e].pc = "post" => rec.attempt = exec[e].attempt /\ rec.sub # "queued"

\* No attempt is held by two executions.
HeldOnce ==
    \A e, f \in Execs :
        Holds(e) /\ Holds(f) /\ exec[e].attempt = exec[f].attempt => e = f

GuardInv == AcceptedOnRow /\ HeldUnsent /\ HeldOnce

NoNewHold ==
    \A f \in Execs : Holds(f)' =>
        /\ Holds(f) /\ exec'[f].attempt = exec[f].attempt
        /\ exec'[f].pc = "post" => exec[f].pc = "post"

LEMMA GuardInit == Init => GuardInv
  BY DEF Init, GuardInv, AcceptedOnRow, Accepted, HeldUnsent, HeldOnce, Holds, IdleExec

\* A step that claims nothing, posts nothing and does not requeue the row.
LEMMA GuardKept ==
    ASSUME GuardInv, NoNewHold,
           Accepted' \subseteq Accepted,
           \A a \in Attempts : vendor[a] = "none" => vendor'[a] = "none",
           rec'.attempt = rec.attempt,
           rec.sub # "queued" => rec'.sub # "queued"
    PROVE  GuardInv'
  <1>1. AcceptedOnRow' BY DEF GuardInv, AcceptedOnRow
  <1>2. HeldUnsent' BY DEF GuardInv, HeldUnsent, NoNewHold
  <1>3. HeldOnce' BY DEF GuardInv, HeldOnce, NoNewHold
  <1> QED BY <1>1, <1>2, <1>3 DEF GuardInv

LEMMA UnchangedExecs == exec' = exec => NoNewHold
  BY DEF NoNewHold, Holds

\* Ending an execution, or moving it to a step that holds no attempt.
LEMMA LetGo ==
    ASSUME TypeInv, NEW e \in Execs, NEW x,
           exec' = [exec EXCEPT ![e] = x], x.pc \notin {"post", "release"}
    PROVE  NoNewHold
  <1>1. exec \in [Execs -> Executions] BY Types
  <1>2. exec'[e] = x /\ \A f \in Execs : f # e => exec'[f] = exec[f] BY <1>1
  <1> QED BY <1>2 DEF NoNewHold, Holds

LEMMA EndLetsGo ==
    ASSUME TypeInv, NEW e \in Execs, exec' = [exec EXCEPT ![e] = IdleExec]
    PROVE  NoNewHold
  BY LetGo DEF IdleExec

LEMMA GotoLetsGo ==
    ASSUME TypeInv, NEW e \in Execs, NEW pc \in ExecPcs \ {"post", "release"}, Goto(e, pc)
    PROVE  NoNewHold
  <1> DEFINE x == [exec[e] EXCEPT !.pc = pc]
  <1>1. pc \in ExecPcs /\ pc \notin {"post", "release"} OBVIOUS
  <1>2. GoesOn(e, x) /\ x.pc = pc BY <1>1, GotoGoesOn
  <1> HIDE DEF x
  <1>3. exec' = [exec EXCEPT ![e] = x] BY <1>2 DEF GoesOn
  <1> QED BY <1>1, <1>2, <1>3, LetGo

\* A claim finds the row queued: no task is started, no execution may still
\* post, and the attempt it takes is held by nobody.
LEMMA GuardClaim ==
    ASSUME TypeInv, GuardInv, NEW e \in Execs, NEW a \in Attempts,
           rec.sub = "queued", vendor[a] = "unused",
           vendor' = [vendor EXCEPT ![a] = "none"],
           rec' = [rec EXCEPT !.sub = "dispatching", !.attempt = a],
           exec' = [exec EXCEPT ![e].pc = "post", ![e].attempt = a]
    PROVE  GuardInv'
  <1>a. /\ rec \in Records /\ exec \in [Execs -> Executions]
        /\ vendor \in [Attempts -> VendorStates]
    BY Types
  <1>1. rec'.sub = "dispatching" /\ rec'.attempt = a BY <1>a DEF Records
  <1>2. exec'[e].pc = "post" /\ exec'[e].attempt = a
    <2>1. exec[e] \in Executions BY <1>a
    <2>2. exec'[e] = [exec[e] EXCEPT !.pc = "post", !.attempt = a]
      BY <1>a, <2>1 DEF Executions
    <2> QED BY <2>1, <2>2 DEF Executions
  <1>3. \A f \in Execs : f # e => exec'[f] = exec[f] BY <1>a
  <1>4. vendor'[a] = "none" /\ \A b \in Attempts : b # a => vendor'[b] = vendor[b]
    BY <1>a
  <1>5. Accepted = {} BY DEF GuardInv, AcceptedOnRow
  <1>6. Accepted' = {} BY <1>4, <1>5 DEF Accepted
  <1>7. \A f \in Execs : Holds(f) => exec[f].pc # "post" /\ exec[f].attempt # a
    BY DEF GuardInv, HeldUnsent
  <1>8. HeldUnsent'
    <2> SUFFICES ASSUME NEW f \in Execs, Holds(f)'
                 PROVE  /\ exec'[f].attempt \in Attempts
                        /\ vendor'[exec'[f].attempt] = "none"
                        /\ exec'[f].pc = "post"
                             => rec'.attempt = exec'[f].attempt /\ rec'.sub # "queued"
      BY DEF HeldUnsent
    <2>1. CASE f = e BY <1>1, <1>2, <1>4, <2>1
    <2>2. CASE f # e
      <3>1. Holds(f) /\ exec'[f] = exec[f] BY <1>3, <2>2 DEF Holds
      <3> QED BY <1>4, <1>7, <3>1 DEF GuardInv, HeldUnsent
    <2> QED BY <2>1, <2>2
  <1>9. HeldOnce'
    <2>1. \A f \in Execs : f # e /\ Holds(f)' =>
            Holds(f) /\ exec'[f].attempt = exec[f].attempt /\ exec[f].attempt # a
      BY <1>3, <1>7 DEF Holds
    <2> SUFFICES ASSUME NEW f \in Execs, NEW g \in Execs, Holds(f)', Holds(g)',
                        exec'[f].attempt = exec'[g].attempt, f # g
                 PROVE  FALSE
      BY DEF HeldOnce
    <2>2. CASE f = e BY <1>2, <2>1, <2>2
    <2>3. CASE g = e BY <1>2, <2>1, <2>3
    <2>4. CASE f # e /\ g # e
      <3>1. Holds(f) /\ Holds(g) /\ exec[f].attempt = exec[g].attempt BY <2>1, <2>4
      <3> QED BY <3>1 DEF GuardInv, HeldOnce
    <2> QED BY <2>2, <2>3, <2>4
  <1> QED BY <1>6, <1>8, <1>9 DEF GuardInv, AcceptedOnRow

\* The one that posts is the only holder of its attempt, the row carries it,
\* and it goes on holding it only if the vendor started nothing.
LEMMA GuardPost ==
    ASSUME TypeInv, GuardInv, NEW e \in Execs, Post(e)
    PROVE  GuardInv'
  <1>a. /\ exec \in [Execs -> Executions] /\ exec[e].pc = "post"
        /\ vendor \in [Attempts -> VendorStates] /\ rec' = rec
    BY Types DEF Post
  <1> DEFINE a == exec[e].attempt
  <1>1. a \in Attempts /\ vendor[a] = "none" /\ rec.attempt = a /\ rec.sub # "queued"
    BY <1>a DEF GuardInv, HeldUnsent, Holds
  <1>2. \A f \in Execs : Holds(f) /\ exec[f].attempt = a => f = e
    BY <1>a DEF GuardInv, HeldOnce, Holds
  <1>3. PICK answer \in {"ok", "terminal", "capacity", "ambiguous"}, started \in BOOLEAN :
          /\ answer = "capacity" => ~started
          /\ exec' = [exec EXCEPT ![e].pc = NextPc(answer, exec[e].last),
                                  ![e].task = IF answer = "ok" THEN exec[e].attempt
                                                               ELSE NoTask]
          /\ vendor' = IF started
                       THEN [vendor EXCEPT ![exec[e].attempt] = "running"]
                       ELSE vendor
    BY DEF Post
  <1>4. exec'[e].pc = NextPc(answer, exec[e].last) /\ exec'[e].attempt = a
    <2>1. exec[e] \in Executions BY <1>a
    <2>2. exec'[e] = [exec[e] EXCEPT
                        !.pc = NextPc(answer, exec[e].last),
                        !.task = IF answer = "ok" THEN exec[e].attempt ELSE NoTask]
      BY <1>a, <1>3
    <2> QED BY <2>1, <2>2 DEF Executions
  <1>5. \A f \in Execs : f # e => exec'[f] = exec[f] BY <1>a, <1>3
  <1>6. exec'[e].pc # "post" /\ (Holds(e)' => ~started)
    <2>1. CASE answer = "ok" BY <1>4, <2>1 DEF NextPc, Holds
    <2>2. CASE answer = "ambiguous" BY <1>4, <2>2 DEF NextPc, Holds
    <2>3. CASE answer = "terminal" BY <1>4, <2>3 DEF NextPc, Holds
    <2>4. CASE answer = "capacity" BY <1>3, <1>4, <2>4 DEF NextPc
    <2> QED BY <2>1, <2>2, <2>3, <2>4
  <1>7. \A b \in Attempts : b # a \/ ~started => vendor'[b] = vendor[b]
    BY <1>a, <1>3
  <1>8. AcceptedOnRow'
    BY <1>a, <1>1, <1>7 DEF GuardInv, AcceptedOnRow, Accepted
  <1>9. HeldUnsent'
    <2> SUFFICES ASSUME NEW f \in Execs, Holds(f)'
                 PROVE  /\ exec'[f].attempt \in Attempts
                        /\ vendor'[exec'[f].attempt] = "none"
                        /\ exec'[f].pc = "post"
                             => rec'.attempt = exec'[f].attempt /\ rec'.sub # "queued"
      BY DEF HeldUnsent
    <2>1. CASE f = e BY <1>1, <1>4, <1>6, <1>7, <2>1
    <2>2. CASE f # e
      <3>1. Holds(f) /\ exec'[f] = exec[f] BY <1>5, <2>2 DEF Holds
      <3>2. exec[f].attempt \in Attempts /\ exec[f].attempt # a
        BY <1>2, <2>2, <3>1 DEF GuardInv, HeldUnsent
      <3> QED BY <1>a, <1>7, <3>1, <3>2 DEF GuardInv, HeldUnsent
    <2> QED BY <2>1, <2>2
  <1>10. HeldOnce'
    <2>1. \A f \in Execs : Holds(f)' =>
            Holds(f) /\ exec'[f].attempt = exec[f].attempt
      BY <1>a, <1>4, <1>5 DEF Holds
    <2> QED BY <2>1 DEF GuardInv, HeldOnce
  <1> QED BY <1>8, <1>9, <1>10 DEF GuardInv

\* A refused claim goes back to the queue only while the row still carries it;
\* then nothing was started and nobody else may still post.
LEMMA GuardRelease ==
    ASSUME TypeInv, GuardInv, NEW e \in Execs, ReleaseToQueued(e)
    PROVE  GuardInv'
  <1>a. /\ exec \in [Execs -> Executions] /\ rec \in Records
        /\ exec[e].pc = "release" /\ vendor' = vendor
    BY Types DEF ReleaseToQueued
  <1> DEFINE a == exec[e].attempt
  <1>1. a \in Attempts /\ vendor[a] = "none"
    BY <1>a DEF GuardInv, HeldUnsent, Holds
  <1>2. NoNewHold BY EndLetsGo DEF ReleaseToQueued, End
  <1>3. CASE rec.sub = "dispatching" /\ rec.attempt = a
    <2>1. Accepted = {} BY <1>1, <1>3 DEF GuardInv, AcceptedOnRow, Accepted
    <2>2. \A f \in Execs : exec[f].pc # "post"
      BY <1>a, <1>3 DEF GuardInv, HeldUnsent, HeldOnce, Holds
    <2>3. AcceptedOnRow' BY <1>a, <2>1 DEF AcceptedOnRow, Accepted
    <2>4. HeldUnsent' BY <1>a, <1>2, <2>2 DEF GuardInv, HeldUnsent, NoNewHold
    <2>5. HeldOnce' BY <1>2 DEF GuardInv, HeldOnce, NoNewHold
    <2> QED BY <2>3, <2>4, <2>5 DEF GuardInv
  <1>4. CASE ~(rec.sub = "dispatching" /\ rec.attempt = a)
    <2>1. rec' = rec BY <1>4 DEF ReleaseToQueued
    <2> QED BY <1>a, <1>2, <2>1, GuardKept DEF Accepted
  <1> QED BY <1>3, <1>4

LEMMA GuardExec ==
    ASSUME TypeInv, GuardInv, NEW e \in Execs,
           Generate(e) \/ DatabaseError(e) \/ CrashExec(e) \/ LoseLock(e)
    PROVE  GuardInv'
  <1>a. rec \in Records /\ exec \in [Execs -> Executions] BY Types
  <1>b. ASSUME UNCHANGED vendor, NoNewHold, rec'.attempt = rec.attempt,
               rec.sub # "queued" => rec'.sub # "queued"
        PROVE  GuardInv'
    BY <1>b, GuardKept DEF Accepted
  <1>c. ASSUME NEW how, End(e, how) PROVE NoNewHold BY <1>c, EndLetsGo DEF End
  <1>1. CASE Start(e)
    <2>1. EntryPc \notin {"post", "release"} BY <1>a DEF EntryPc, Records
    <2>2. NoNewHold BY <1>1, <2>1, LetGo DEF Start
    <2> QED BY <1>1, <1>b, <2>2 DEF Start
  <1>2. CASE Return(e) BY <1>2, <1>b, <1>c DEF Return
  <1>3. CASE Prepare(e)
    <2>1. NoNewHold BY <1>3, <1>c, GotoLetsGo DEF Prepare, ExecPcs
    <2> QED BY <1>3, <1>b, <2>1 DEF Prepare
  <1>4. CASE ClaimDispatching(e)
    <2>1. CASE rec.status = "pending" /\ rec.sub = "queued" /\ rec.task = NoTask
      <3>1. \A a \in Fresh : a \in Attempts /\ vendor[a] = "unused" BY DEF Fresh, AnyOf
      <3> QED BY <1>4, <2>1, <3>1, GuardClaim DEF ClaimDispatching
    <2>2. CASE ~(rec.status = "pending" /\ rec.sub = "queued" /\ rec.task = NoTask)
      BY <1>4, <1>b, <1>c, <2>2 DEF ClaimDispatching
    <2> QED BY <2>1, <2>2
  <1>5. CASE Post(e) BY <1>5, GuardPost
  <1>6. CASE PersistSubmittedTask(e)
    <2>1. NoNewHold BY <1>6, GotoLetsGo DEF PersistSubmittedTask, ExecPcs
    <2> QED BY <1>a, <1>6, <1>b, <2>1 DEF PersistSubmittedTask, Records
  <1>7. CASE GiveUpPersisting(e)
    <2>1. NoNewHold BY <1>7, <1>c, GotoLetsGo DEF GiveUpPersisting, ExecPcs
    <2> QED BY <1>7, <1>b, <2>1 DEF GiveUpPersisting
  <1>8. CASE MarkSubmitUnknown(e)
    <2>1. NoNewHold BY <1>8, <1>c DEF MarkSubmitUnknown
    <2> QED BY <1>a, <1>8, <1>b, <2>1 DEF MarkSubmitUnknown, Records
  <1>9. CASE ReleaseToQueued(e) BY <1>9, GuardRelease
  <1>10. CASE EnqueueFirstPoll(e)
    <2>1. NoNewHold BY <1>10, <1>c DEF EnqueueFirstPoll
    <2> QED BY <1>10, <1>b, <2>1 DEF EnqueueFirstPoll
  <1>11. CASE FailMusicGeneration(e)
    <2>1. NoNewHold BY <1>11, GotoLetsGo DEF FailMusicGeneration, ExecPcs
    <2> QED BY <1>a, <1>11, <1>b, <2>1 DEF FailMusicGeneration, Failed, Records
  <1>12. CASE RefundExec(e) BY <1>12, <1>b, <1>c DEF RefundExec
  <1>13. CASE DatabaseError(e) BY <1>13, <1>b, <1>c DEF DatabaseError
  <1>14. CASE CrashExec(e) BY <1>14, <1>b, EndLetsGo DEF CrashExec
  <1>15. CASE LoseLock(e) BY <1>15, <1>b, UnchangedExecs DEF LoseLock
  <1> QED
    BY <1>1, <1>2, <1>3, <1>4, <1>5, <1>6, <1>7, <1>8, <1>9, <1>10, <1>11, <1>12,
       <1>13, <1>14, <1>15
    DEF Generate

\* Nothing else claims, posts or requeues.
LEMMA GuardOthers ==
    ASSUME TypeInv, GuardInv,
           \/ CommitGeneration \/ EnqueueGeneration \/ TimeOut \/ Sweep
           \/ FindFailed \/ RefundFound \/ \E a \in Attempts : VendorFinish(a)
           \/ \E p \in Polls : PollStep(p) \/ InterruptPoll(p) \/ DuplicatePoll(p)
    PROVE  GuardInv'
  <1>a. rec \in Records /\ vendor \in [Attempts -> VendorStates] BY Types
  <1>1. exec' = exec
    BY DEF CommitGeneration, EnqueueGeneration, TimeOut, Sweep, ReconcileQueued,
           ReconcileSubmitted, SunoReconcile, FindFailed, RefundFound, VendorFinish,
           PollStep, StartPoll, QueryVendor, PollProgress, UpsertTracks,
           CompleteGeneration, FailPoll, RefundPoll, InterruptPoll, DuplicatePoll
  <1>2. /\ Accepted' \subseteq Accepted
        /\ \A a \in Attempts : vendor[a] = "none" => vendor'[a] = "none"
    <2>1. CASE UNCHANGED vendor BY <2>1 DEF Accepted
    <2>2. ASSUME NEW a \in Attempts, VendorFinish(a)
          PROVE  /\ Accepted' \subseteq Accepted
                 /\ \A b \in Attempts : vendor[b] = "none" => vendor'[b] = "none"
      BY <1>a, <2>2 DEF VendorFinish, Accepted
    <2> QED
      BY <2>1, <2>2
      DEF CommitGeneration, EnqueueGeneration, TimeOut, Sweep, ReconcileQueued,
          ReconcileSubmitted, SunoReconcile, FindFailed, RefundFound,
          PollStep, StartPoll, QueryVendor, PollProgress, UpsertTracks,
          CompleteGeneration, FailPoll, RefundPoll, InterruptPoll, DuplicatePoll
  <1>3. rec'.attempt = rec.attempt /\ (rec.sub # "queued" => rec'.sub # "queued")
    <2>1. CASE rec' = rec BY <2>1
    <2>2. CASE CommitGeneration \/ SunoReconcile
      BY <1>a, <2>2 DEF CommitGeneration, SunoReconcile, Records
    <2>3. ASSUME NEW p \in Polls, PollProgress(p) \/ CompleteGeneration(p) \/ FailPoll(p)
          PROVE  rec'.attempt = rec.attempt /\ (rec.sub # "queued" => rec'.sub # "queued")
      BY <1>a, <2>3 DEF PollProgress, CompleteGeneration, FailPoll, Failed, Records
    <2> QED
      BY <2>1, <2>2, <2>3
      DEF EnqueueGeneration, TimeOut, Sweep, ReconcileQueued, ReconcileSubmitted,
          FindFailed, RefundFound, VendorFinish, PollStep, StartPoll, QueryVendor,
          UpsertTracks, RefundPoll, InterruptPoll, DuplicatePoll
  <1> QED BY <1>1, <1>2, <1>3, UnchangedExecs, GuardKept

LEMMA GuardNext == TypeInv /\ GuardInv /\ [Next]_vars => GuardInv'
  <1> SUFFICES ASSUME TypeInv, GuardInv, [Next]_vars PROVE GuardInv' OBVIOUS
  <1>1. CASE UNCHANGED vars BY <1>1, UnchangedExecs, GuardKept DEF vars, Accepted
  <1> QED BY <1>1, GuardExec, GuardOthers DEF Next

\* Whatever crashes, redelivered jobs, failing statements and the sweeps of both
\* providers do, Mureka starts at most one paid song for a record.
THEOREM OneTask == Spec => []AtMostOneTask
  <1>1. GuardInv => AtMostOneTask
    BY DEF GuardInv, AcceptedOnRow, AtMostOneTask
  <1> QED BY <1>1, TypeInit, TypeNext, GuardInit, GuardNext, PTL DEF Spec

-----------------------------------------------------------------------------
(* Delivered or refunded *)

\* No job is redelivered while it runs and no row waits beside a live job.
Calm == env \cap {"lock_loss", "backlog"} = {}

\* An execution owns the job: there is one at a time.
Alone == \A e \in Execs : exec[e].pc # "idle" => job.owner = e

\* A poll comes after the generate job, which will not run again, and so does
\* the end of the song.
AfterJob ==
    (\E p \in Polls : Live(p)) \/ rec.status = "completed" =>
        job.state \notin {"waiting", "active"} /\ rec.task # NoTask

\* There is one chain of polls.
OneChain == \A p, q \in Polls : Live(p) /\ Live(q) => p = q

\* What an execution has read of the row is still true when it writes.
ExecCurrent ==
    \A e \in Execs : exec[e].pc # "idle" =>
        /\ OwnAttempt(e)
        /\ exec[e].pc = "poll" => rec.task # NoTask
        /\ exec[e].pc = "refund" => rec.status = "failed"
        /\ exec[e].pc \notin {"return", "refund"} => rec.status \notin {"completed", "failed"}

\* Where a poll has read the row and not yet decided.
Deciding == {"query", "progress", "tracks", "complete", "fail"}

\* And what a poll has read.
PollCurrent ==
    \A p \in Polls :
        /\ poll[p].pc \in Deciding => rec.status \notin {"completed", "failed"}
        /\ poll[p].pc = "refund" => rec.status = "failed"

\* A song is refunded after it failed, and a failed song stays failed.
GivenBack == refund \/ sweep => rec.status = "failed"

\* The invariant of such behaviours.
CalmInv == Calm => Alone /\ AfterJob /\ OneChain /\ ExecCurrent /\ PollCurrent /\ GivenBack

\* While an execution runs, nobody else does anything about the song.
LEMMA RunsAlone ==
    ASSUME TypeInv, CalmInv, Calm, NEW e \in Execs, exec[e].pc # "idle"
    PROVE  /\ job.owner = e /\ job.state = "active"
           /\ \A f \in Execs : f # e => exec[f].pc = "idle"
           /\ \A p \in Polls : poll[p].pc = "none"
           /\ rec.status # "completed"
           /\ OwnAttempt(e)
           /\ exec[e].pc = "refund" => rec.status = "failed"
           /\ exec[e].pc = "poll" => rec.task # NoTask
           /\ exec[e].pc \notin {"return", "refund"} => rec.status # "failed"
           /\ refund \/ sweep => rec.status = "failed"
  <1>1. Alone /\ AfterJob /\ ExecCurrent /\ GivenBack BY DEF CalmInv
  <1>2. job.owner = e BY <1>1 DEF Alone
  <1>3. job.state = "active" BY <1>2, MurekaAssumption DEF TypeInv, JobInv
  <1>4. \A p \in Polls : poll[p].pc = "none" BY <1>1, <1>3 DEF AfterJob, Live
  <1> QED BY <1>1, <1>2, <1>3, <1>4 DEF Alone, AfterJob, ExecCurrent, GivenBack

\* A step of an execution that goes on, or ends, without adding a poll.
LEMMA ExecCalm ==
    ASSUME TypeInv, CalmInv, Calm, NEW e \in Execs, exec[e].pc # "idle",
           NEW x, GoesOn(e, x), poll' = poll,
           x.pc # "idle" =>
               /\ job'.owner = e
               /\ x.attempt \in {NoAttempt, rec'.attempt}
               /\ x.pc = "poll" => rec'.task # NoTask
               /\ x.pc = "refund" => rec'.status = "failed"
               /\ x.pc \notin {"return", "refund"} => rec'.status # "failed",
           rec'.status # "completed",
           refund' \/ sweep' => rec'.status = "failed"
    PROVE  CalmInv'
  <1>1. exec \in [Execs -> Executions] BY Types
  <1>2. \A f \in Execs : exec'[f] = IF f = e THEN x ELSE exec[f] BY <1>1 DEF GoesOn
  <1>3. \A f \in Execs : f # e => exec'[f].pc = "idle" BY <1>2, RunsAlone
  <1>4. exec'[e] = x BY <1>2
  <1>5. \A p \in Polls : poll'[p].pc = "none" BY RunsAlone
  <1>6. Alone' BY <1>3, <1>4 DEF Alone
  <1>7. AfterJob' /\ OneChain' /\ PollCurrent'
    BY <1>5 DEF AfterJob, OneChain, PollCurrent, Live, Deciding
  <1>8. ExecCurrent' BY <1>3, <1>4 DEF ExecCurrent, OwnAttempt
  <1>9. GivenBack' BY DEF GivenBack
  <1> QED BY <1>6, <1>7, <1>8, <1>9 DEF CalmInv

\* An execution that ends.
LEMMA EndCalm ==
    ASSUME TypeInv, CalmInv, Calm, NEW e \in Execs, exec[e].pc # "idle",
           exec' = [exec EXCEPT ![e] = IdleExec], poll' = poll,
           rec'.status # "completed",
           refund' \/ sweep' => rec'.status = "failed"
    PROVE  CalmInv'
  <1>1. GoesOn(e, IdleExec) /\ IdleExec.pc = "idle" BY DEF GoesOn, IdleExec
  <1> QED BY <1>1, ExecCalm

\* An execution that goes on while the row keeps its attempt.
LEMMA GotoCalm ==
    ASSUME TypeInv, CalmInv, Calm, NEW e \in Execs, exec[e].pc # "idle",
           NEW pc \in ExecPcs, Goto(e, pc), poll' = poll,
           job'.owner = job.owner, rec'.attempt = rec.attempt,
           pc = "poll" => rec'.task # NoTask,
           pc = "refund" => rec'.status = "failed",
           pc \notin {"return", "refund"} => rec'.status # "failed",
           rec'.status # "completed",
           refund' \/ sweep' => rec'.status = "failed"
    PROVE  CalmInv'
  <1> DEFINE x == [exec[e] EXCEPT !.pc = pc]
  <1>1. GoesOn(e, x) /\ x.pc = pc /\ x.attempt = exec[e].attempt BY GotoGoesOn
  <1>2. job'.owner = e /\ exec[e].attempt \in {NoAttempt, rec'.attempt}
    BY RunsAlone DEF OwnAttempt
  <1> HIDE DEF x
  <1> QED BY <1>1, <1>2, ExecCalm

\* ClaimDispatching: the new attempt is on the row and in the execution.
LEMMA ClaimCalm ==
    ASSUME TypeInv, CalmInv, Calm, NEW e \in Execs, ClaimDispatching(e) PROVE CalmInv'
  <1>1. /\ exec[e].pc = "claim" /\ poll' = poll /\ UNCHANGED <<refund, sweep>>
        /\ exec[e] \in Executions /\ rec \in Records /\ exec \in [Execs -> Executions]
    BY Types DEF ClaimDispatching
  <1>2. /\ rec.status \notin {"completed", "failed"} /\ job.owner = e
        /\ refund \/ sweep => rec.status = "failed"
    BY <1>1, RunsAlone
  <1>3. CASE rec.status = "pending" /\ rec.sub = "queued" /\ rec.task = NoTask
    <2>1. PICK a \in Fresh :
            /\ rec' = [rec EXCEPT !.sub = "dispatching", !.attempt = a]
            /\ exec' = [exec EXCEPT ![e].pc = "post", ![e].attempt = a]
            /\ UNCHANGED job
      BY <1>3 DEF ClaimDispatching
    <2> DEFINE x == [exec[e] EXCEPT !.pc = "post", !.attempt = a]
    <2>2. x.pc = "post" /\ x.attempt = a BY <1>1 DEF Executions
    <2>3. exec' = [exec EXCEPT ![e] = x] BY <1>1, <2>1 DEF Executions
    <2> HIDE DEF x
    <2>4. rec'.attempt = a /\ rec'.status = rec.status BY <1>1, <2>1 DEF Records
    <2> QED BY <1>1, <1>2, <2>1, <2>2, <2>3, <2>4, ExecCalm DEF GoesOn
  <1>4. CASE ~(rec.status = "pending" /\ rec.sub = "queued" /\ rec.task = NoTask)
    <2>1. End(e, "ok") /\ rec' = rec BY <1>4 DEF ClaimDispatching
    <2> QED BY <1>1, <1>2, <2>1, EndCalm DEF End
  <1> QED BY <1>3, <1>4

\* Post does not touch the row.
LEMMA PostCalm ==
    ASSUME TypeInv, CalmInv, Calm, NEW e \in Execs, Post(e) PROVE CalmInv'
  <1>1. /\ exec[e].pc = "post" /\ UNCHANGED <<rec, job, poll, refund, sweep>>
        /\ exec[e] \in Executions /\ exec \in [Execs -> Executions]
    BY Types DEF Post
  <1>2. /\ rec.status \notin {"completed", "failed"} /\ job.owner = e /\ OwnAttempt(e)
        /\ refund \/ sweep => rec.status = "failed"
    BY <1>1, RunsAlone
  <1>3. PICK answer \in {"ok", "terminal", "capacity", "ambiguous"} :
          exec' = [exec EXCEPT ![e].pc = NextPc(answer, exec[e].last),
                               ![e].task = IF answer = "ok" THEN exec[e].attempt ELSE NoTask]
    BY DEF Post
  <1> DEFINE pc == NextPc(answer, exec[e].last)
             task == IF answer = "ok" THEN exec[e].attempt ELSE NoTask
             x == [exec[e] EXCEPT !.pc = pc, !.task = task]
  <1>4. pc \in {"persist", "unknown", "fail", "release"} BY DEF NextPc
  <1>5. exec' = [exec EXCEPT ![e].pc = pc, ![e].task = task] BY <1>3
  <1> HIDE DEF pc, task
  <1>6. x.pc = pc /\ x.attempt = exec[e].attempt BY <1>1 DEF Executions
  <1>7. exec' = [exec EXCEPT ![e] = x] BY <1>1, <1>5 DEF Executions
  <1> HIDE DEF x
  <1> QED BY <1>1, <1>2, <1>4, <1>6, <1>7, ExecCalm DEF GoesOn, OwnAttempt

\* PersistSubmittedTask and GiveUpPersisting: a song that is neither failed
\* nor completed.
LEMMA PersistCalm ==
    ASSUME TypeInv, CalmInv, Calm, NEW e \in Execs,
           PersistSubmittedTask(e) \/ GiveUpPersisting(e)
    PROVE  CalmInv'
  <1>1. /\ exec[e].pc \in {"persist", "recovered"} /\ poll' = poll
        /\ UNCHANGED <<refund, sweep>>
        /\ rec \in Records /\ exec[e].task \in Accepted /\ NoTask \notin Accepted
    BY Types DEF PersistSubmittedTask, GiveUpPersisting, TypeInv, TaskInv
  <1>2. /\ rec.status \notin {"completed", "failed"} /\ job.owner = e
        /\ refund \/ sweep => rec.status = "failed"
    BY <1>1, RunsAlone
  <1>3. CASE PersistSubmittedTask(e)
    <2>1. /\ Goto(e, "poll") /\ job' = job
          /\ rec' = [rec EXCEPT !.task = exec[e].task, !.sub = "submitted",
                                !.status = "processing"]
      BY <1>3 DEF PersistSubmittedTask
    <2>2. rec'.task = exec[e].task /\ rec'.status = "processing" /\ rec'.attempt = rec.attempt
      BY <1>1, <2>1 DEF Records
    <2> QED BY <1>1, <1>2, <2>1, <2>2, GotoCalm DEF ExecPcs
  <1>4. CASE GiveUpPersisting(e)
    <2>1. rec' = rec BY <1>4 DEF GiveUpPersisting
    <2>2. CASE exec[e].pc = "recovered"
      BY <1>1, <1>2, <1>4, <2>1, <2>2, EndCalm DEF GiveUpPersisting, End
    <2>3. CASE exec[e].pc # "recovered"
      <3>1. Goto(e, "unknown_retry") /\ \E t \in {exec[e].task, job.recovered} :
               job' = [job EXCEPT !.recovered = t]
        BY <1>4, <2>3 DEF GiveUpPersisting
      <3>2. job'.owner = job.owner BY <3>1, Types DEF Jobs
      <3> QED BY <1>1, <1>2, <2>1, <3>1, <3>2, GotoCalm DEF ExecPcs
    <2> QED BY <2>2, <2>3
  <1> QED BY <1>3, <1>4

\* Start reads the row that it will write.
LEMMA StartCalm ==
    ASSUME TypeInv, CalmInv, Calm, NEW e \in Execs, Start(e) PROVE CalmInv'
  <1>1. /\ exec[e].pc = "idle" /\ job.state = "waiting"
        /\ job' = [job EXCEPT !.state = "active", !.owner = e]
        /\ UNCHANGED <<rec, refund, sweep, poll>>
        /\ job \in Jobs /\ rec \in Records /\ exec \in [Execs -> Executions]
    BY Types DEF Start
  <1> DEFINE x == [pc |-> EntryPc, last |-> job.made + 1 >= MaxAttempts,
                   attempt |-> IF EntryPc = "prepare" THEN NoAttempt ELSE rec.attempt,
                   task |-> IF job.recovered # NoTask THEN job.recovered ELSE rec.task]
  <1>2. exec' = [exec EXCEPT ![e] = x] BY DEF Start
  <1>3. x.pc = EntryPc /\ x.attempt \in {NoAttempt, rec.attempt} OBVIOUS
  <1> HIDE DEF x
  <1>4. exec'[e] = x /\ \A f \in Execs : f # e => exec'[f] = exec[f] BY <1>1, <1>2
  <1>5. job'.owner = e BY <1>1 DEF Jobs
  <1>6. job.owner = NoExec BY <1>1, MurekaAssumption DEF TypeInv, JobInv
  <1>7. Alone /\ AfterJob /\ OneChain /\ PollCurrent /\ GivenBack BY DEF CalmInv
  <1>8. \A f \in Execs : f # e => exec'[f].pc = "idle"
    BY <1>4, <1>6, <1>7, MurekaAssumption DEF Alone
  <1>9. (\A p \in Polls : ~Live(p)) /\ rec.status # "completed" BY <1>1, <1>7 DEF AfterJob
  <1>10. /\ EntryPc \in {"refund", "recovered", "return", "unknown", "poll", "prepare"}
         /\ EntryPc = "refund" => rec.status = "failed"
         /\ EntryPc \notin {"return", "refund"} => rec.status # "failed"
         /\ EntryPc = "poll" => rec.task # NoTask
    <2>1. rec.sub = "submitted" => rec.task # NoTask BY Types DEF TypeInv, TaskInv
    <2> QED BY <1>9, <2>1 DEF EntryPc
  <1>11. ExecCurrent'
    BY <1>1, <1>3, <1>4, <1>8, <1>9, <1>10 DEF ExecCurrent, OwnAttempt
  <1>12. Alone' BY <1>4, <1>5, <1>8 DEF Alone
  <1>13. AfterJob' BY <1>1, <1>9 DEF AfterJob, Live
  <1>14. OneChain' /\ PollCurrent' /\ GivenBack'
    BY <1>1, <1>7 DEF OneChain, PollCurrent, GivenBack, Live
  <1> QED BY <1>11, <1>12, <1>13, <1>14 DEF CalmInv

\* EnqueueFirstPoll: the job completes, and the first chain begins.
LEMMA FirstPollCalm ==
    ASSUME TypeInv, CalmInv, Calm, NEW e \in Execs, EnqueueFirstPoll(e) PROVE CalmInv'
  <1>1. /\ exec[e].pc = "poll" /\ AddPoll(exec[e].task) /\ End(e, "ok")
        /\ UNCHANGED <<rec, refund, sweep>>
        /\ job \in Jobs /\ exec \in [Execs -> Executions] /\ poll \in [Polls -> PollJobs]
    BY Types DEF EnqueueFirstPoll
  <1>2. /\ job.owner = e /\ rec.task # NoTask /\ rec.status \notin {"completed", "failed"}
        /\ \A f \in Execs : f # e => exec[f].pc = "idle"
        /\ \A p \in Polls : poll[p].pc = "none"
        /\ refund \/ sweep => rec.status = "failed"
    BY <1>1, RunsAlone
  <1>3. PICK p \in Free : poll' = [poll EXCEPT ![p] = [pc |-> "waiting", task |-> exec[e].task]]
    BY <1>1, <1>2 DEF AddPoll, Live
  <1>4. p \in Polls BY DEF Free, AnyOf
  <1>5. poll'[p].pc = "waiting" /\ \A q \in Polls : q # p => poll'[q].pc = "none"
    BY <1>1, <1>2, <1>3, <1>4
  <1>6. \A f \in Execs : exec'[f].pc = "idle"
    BY <1>1, <1>2 DEF End, IdleExec
  <1>7. job'.state = "completed" BY <1>1, <1>2 DEF End, Ended, Jobs
  <1>8. Alone' /\ ExecCurrent' BY <1>6 DEF Alone, ExecCurrent
  <1>9. AfterJob' BY <1>1, <1>2, <1>7 DEF AfterJob
  <1>10. OneChain' BY <1>5 DEF OneChain, Live
  <1>11. PollCurrent' BY <1>5 DEF PollCurrent, Deciding
  <1>12. GivenBack' BY <1>1, <1>2 DEF GivenBack
  <1> QED BY <1>8, <1>9, <1>10, <1>11, <1>12 DEF CalmInv

\* The rest of a worker's steps.
LEMMA ExecCalms ==
    ASSUME TypeInv, CalmInv, Calm, NEW e \in Execs,
           Generate(e) \/ DatabaseError(e) \/ CrashExec(e) \/ LoseLock(e)
    PROVE  CalmInv'
  <1>a. rec \in Records /\ job \in Jobs BY Types
  <1>1. CASE Return(e)
    <2>1. exec[e].pc = "return" /\ End(e, "ok") /\ UNCHANGED <<rec, refund, sweep, poll>>
      BY <1>1 DEF Return
    <2> QED BY <2>1, RunsAlone, EndCalm DEF End
  <1>2. CASE Prepare(e)
    <2>1. exec[e].pc = "prepare" /\ UNCHANGED <<rec, refund, sweep, poll>>
      BY <1>2 DEF Prepare
    <2>2. CASE End(e, "retry") BY <2>1, <2>2, RunsAlone, EndCalm DEF End
    <2>3. ASSUME NEW pc \in {"claim", "fail"}, Goto(e, pc), UNCHANGED job PROVE CalmInv'
      BY <2>1, <2>3, RunsAlone, GotoCalm DEF ExecPcs
    <2> QED BY <1>2, <2>2, <2>3 DEF Prepare
  <1>3. CASE MarkSubmitUnknown(e)
    <2>1. /\ exec[e].pc \in {"unknown", "unknown_retry"} /\ UNCHANGED <<refund, sweep, poll>>
          /\ exec' = [exec EXCEPT ![e] = IdleExec]
          /\ rec' = rec \/ rec' = [rec EXCEPT !.sub = "submit_unknown"]
      BY <1>3 DEF MarkSubmitUnknown, End
    <2>2. rec'.status = rec.status BY <1>a, <2>1 DEF Records
    <2> QED BY <2>1, <2>2, RunsAlone, EndCalm
  <1>4. CASE ReleaseToQueued(e)
    <2>1. /\ exec[e].pc = "release" /\ UNCHANGED <<refund, sweep, poll>>
          /\ exec' = [exec EXCEPT ![e] = IdleExec]
          /\ rec' = rec \/ rec' = [rec EXCEPT !.sub = "queued"]
      BY <1>4 DEF ReleaseToQueued, End
    <2>2. rec'.status = rec.status BY <1>a, <2>1 DEF Records
    <2> QED BY <2>1, <2>2, RunsAlone, EndCalm
  <1>5. CASE FailMusicGeneration(e)
    <2>1. /\ exec[e].pc = "fail" /\ UNCHANGED <<refund, sweep, poll, job>>
          /\ rec' = Failed(OwnAttempt(e)) /\ Goto(e, "refund")
      BY <1>5 DEF FailMusicGeneration
    <2>2. rec.status # "completed" /\ OwnAttempt(e) BY <2>1, RunsAlone
    <2>3. rec'.status = "failed" /\ rec'.attempt = rec.attempt
      BY <1>a, <2>1, <2>2 DEF Failed, Records
    <2> QED BY <2>1, <2>3, GotoCalm DEF ExecPcs
  <1>6. CASE RefundExec(e)
    <2>1. exec[e].pc = "refund" /\ End(e, "ok") /\ UNCHANGED <<rec, poll>>
      BY <1>6 DEF RefundExec
    <2> QED BY <2>1, RunsAlone, EndCalm DEF End
  <1>7. CASE DatabaseError(e)
    <2>1. exec[e].pc # "idle" /\ End(e, "retry") /\ UNCHANGED <<rec, refund, sweep, poll>>
      BY <1>7 DEF DatabaseError
    <2> QED BY <2>1, RunsAlone, EndCalm DEF End
  <1>8. CASE CrashExec(e)
    <2>1. /\ exec[e].pc # "idle" /\ exec' = [exec EXCEPT ![e] = IdleExec]
          /\ UNCHANGED <<rec, refund, sweep, poll>>
      BY <1>8 DEF CrashExec
    <2> QED BY <2>1, RunsAlone, EndCalm
  <1>9. CASE LoseLock(e) BY <1>9 DEF LoseLock, Lose, Calm
  <1> QED
    BY <1>1, <1>2, <1>3, <1>4, <1>5, <1>6, <1>7, <1>8, <1>9, StartCalm, ClaimCalm,
       PostCalm, PersistCalm, FirstPollCalm
    DEF Generate

\* While a poll is there, no execution runs and no other poll.
LEMMA PollsAlone ==
    ASSUME TypeInv, CalmInv, Calm, NEW p \in Polls, Live(p)
    PROVE  /\ \A e \in Execs : exec[e].pc = "idle"
           /\ \A q \in Polls : q # p => poll[q].pc = "none"
           /\ job.state \notin {"waiting", "active"} /\ rec.task # NoTask
           /\ poll[p].pc \in Deciding => rec.status \notin {"completed", "failed"}
           /\ poll[p].pc = "refund" => rec.status = "failed"
           /\ refund \/ sweep => rec.status = "failed"
  <1>1. Alone /\ AfterJob /\ OneChain /\ PollCurrent /\ GivenBack BY DEF CalmInv
  <1>2. job.state \notin {"waiting", "active"} /\ rec.task # NoTask BY <1>1 DEF AfterJob
  <1>3. job.owner = NoExec BY <1>2 DEF TypeInv, JobInv
  <1>4. \A e \in Execs : exec[e].pc = "idle"
    BY <1>1, <1>3, MurekaAssumption DEF Alone
  <1>5. \A q \in Polls : q # p => poll[q].pc = "none" BY <1>1 DEF OneChain, Live
  <1> QED BY <1>1, <1>2, <1>4, <1>5 DEF PollCurrent, GivenBack

\* A step of that poll.
LEMMA PollCalm ==
    ASSUME TypeInv, CalmInv, Calm, NEW p \in Polls, Live(p), NEW x,
           poll' = [poll EXCEPT ![p] = x], UNCHANGED <<job, exec>>, rec'.task = rec.task,
           x.pc \in Deciding => rec'.status \notin {"completed", "failed"},
           x.pc = "refund" => rec'.status = "failed",
           refund' \/ sweep' => rec'.status = "failed"
    PROVE  CalmInv'
  <1>1. poll \in [Polls -> PollJobs] BY Types
  <1>2. poll'[p] = x /\ \A q \in Polls : q # p => poll'[q].pc = "none"
    BY <1>1, PollsAlone
  <1>3. \A e \in Execs : exec'[e].pc = "idle" BY PollsAlone
  <1>4. Alone' /\ ExecCurrent' BY <1>3 DEF Alone, ExecCurrent
  <1>5. AfterJob' BY PollsAlone DEF AfterJob
  <1>6. OneChain' BY <1>2 DEF OneChain, Live
  <1>7. PollCurrent' BY <1>2 DEF PollCurrent, Deciding
  <1>8. GivenBack' BY DEF GivenBack
  <1> QED BY <1>4, <1>5, <1>6, <1>7, <1>8 DEF CalmInv

\* A poll that moves on, or is done.
LEMMA PollMovesCalm ==
    ASSUME TypeInv, CalmInv, Calm, NEW p \in Polls, Live(p), NEW pc \in PollPcs,
           PollTo(p, pc) \/ PollEnds(p), UNCHANGED <<job, exec>>, rec'.task = rec.task,
           PollTo(p, pc) /\ pc \in Deciding => rec'.status \notin {"completed", "failed"},
           PollTo(p, pc) /\ pc = "refund" => rec'.status = "failed",
           refund' \/ sweep' => rec'.status = "failed"
    PROVE  CalmInv'
  <1>1. poll[p] \in PollJobs BY Types
  <1>2. CASE PollTo(p, pc)
    <2> DEFINE x == [poll[p] EXCEPT !.pc = pc]
    <2>1. x.pc = pc BY <1>1 DEF PollJobs
    <2>2. poll' = [poll EXCEPT ![p] = x] BY <1>2 DEF PollTo
    <2> HIDE DEF x
    <2> QED BY <1>2, <2>1, <2>2, PollCalm
  <1>3. CASE PollEnds(p)
    <2>1. poll' = [poll EXCEPT ![p] = NoPoll] /\ NoPoll.pc = "none"
      BY <1>3 DEF PollEnds, NoPoll
    <2> QED BY <2>1, PollCalm DEF Deciding
  <1> QED BY <1>2, <1>3

\* The steps of a poll.
LEMMA PollCalms ==
    ASSUME TypeInv, CalmInv, Calm, NEW p \in Polls,
           PollStep(p) \/ InterruptPoll(p) \/ DuplicatePoll(p)
    PROVE  CalmInv'
  <1>a. rec \in Records BY Types
  <1>1. CASE StartPoll(p)
    <2>1. poll[p].pc = "waiting" /\ UNCHANGED <<job, exec, rec, refund, sweep>>
      BY <1>1 DEF StartPoll
    <2>2. Live(p) BY <2>1 DEF Live
    <2>3. CASE PollEnds(p) BY <2>1, <2>2, <2>3, PollsAlone, PollMovesCalm DEF PollPcs
    <2>4. CASE rec.status = "failed"
      <3>1. PollTo(p, "refund") BY <1>1, <2>4 DEF StartPoll
      <3> QED BY <2>1, <2>2, <2>4, <3>1, PollsAlone, PollMovesCalm DEF PollPcs, Deciding
    <2>5. CASE rec.status \notin {"failed", "completed"} /\ rec.task = poll[p].task
      <3>1. PICK pc \in {"fail", "query"} : PollTo(p, pc) BY <1>1, <2>5 DEF StartPoll
      <3> QED BY <2>1, <2>2, <2>5, <3>1, PollsAlone, PollMovesCalm DEF PollPcs
    <2> QED BY <1>1, <2>3, <2>4, <2>5 DEF StartPoll
  <1>2. CASE QueryVendor(p)
    <2>1. poll[p].pc = "query" /\ UNCHANGED <<job, exec, rec, refund, sweep>>
      BY <1>2 DEF QueryVendor
    <2>2. Live(p) /\ poll[p].pc \in Deciding BY <2>1 DEF Live, Deciding
    <2>3. rec.status \notin {"completed", "failed"} BY <2>2, PollsAlone
    <2>4. CASE PollEnds(p) \/ PollTo(p, "waiting")
      BY <2>1, <2>2, <2>3, <2>4, PollsAlone, PollMovesCalm DEF PollPcs
    <2>5. ASSUME NEW pc \in Answers(poll[p].task), PollTo(p, pc) PROVE CalmInv'
      <3>1. pc \in {"progress", "fail", "tracks"}
        <4>1. vendor[poll[p].task] \in {"running", "error", "complete"}
          BY <2>2 DEF TypeInv, TaskInv, Accepted
        <4> QED BY <2>5, <4>1 DEF Answers
      <3> QED BY <2>1, <2>2, <2>3, <2>5, <3>1, PollsAlone, PollMovesCalm DEF PollPcs
    <2> QED BY <1>2, <2>4, <2>5 DEF QueryVendor
  <1>3. CASE PollProgress(p)
    <2>1. /\ poll[p].pc = "progress" /\ UNCHANGED <<job, exec, refund, sweep>>
          /\ PollTo(p, "waiting") \/ PollEnds(p)
      BY <1>3 DEF PollProgress
    <2>2. Live(p) /\ poll[p].pc \in Deciding BY <2>1 DEF Live, Deciding
    <2>3. rec.status \notin {"completed", "failed"} /\ ~refund /\ ~sweep
      BY <2>2, PollsAlone
    <2>4. rec'.task = rec.task
      BY <1>a, <1>3 DEF PollProgress, Records
    <2> QED BY <2>1, <2>2, <2>3, <2>4, PollMovesCalm DEF PollPcs, Deciding
  <1>4. CASE UpsertTracks(p)
    <2>1. /\ poll[p].pc = "tracks" /\ UNCHANGED <<job, exec, rec, refund, sweep>>
          /\ PollTo(p, "complete")
      BY <1>4 DEF UpsertTracks
    <2>2. Live(p) /\ poll[p].pc \in Deciding BY <2>1 DEF Live, Deciding
    <2> QED BY <2>1, <2>2, PollsAlone, PollMovesCalm DEF PollPcs
  <1>5. CASE CompleteGeneration(p)
    <2>1. /\ poll[p].pc = "complete" /\ UNCHANGED <<job, exec, refund, sweep>>
          /\ PollEnds(p) /\ rec' = [rec EXCEPT !.status = "completed"]
      BY <1>5 DEF CompleteGeneration
    <2>2. Live(p) /\ poll[p].pc \in Deciding BY <2>1 DEF Live, Deciding
    <2>3. ~refund /\ ~sweep BY <2>2, PollsAlone
    <2>4. rec'.task = rec.task BY <1>a, <2>1 DEF Records
    <2>5. poll' = [poll EXCEPT ![p] = NoPoll] /\ NoPoll.pc = "none"
      BY <2>1 DEF PollEnds, NoPoll
    <2> QED BY <2>1, <2>2, <2>3, <2>4, <2>5, PollCalm DEF Deciding
  <1>6. CASE FailPoll(p)
    <2>1. /\ poll[p].pc = "fail" /\ UNCHANGED <<job, exec, refund, sweep>>
          /\ PollTo(p, "refund") /\ rec' = Failed(TRUE)
      BY <1>6 DEF FailPoll
    <2>2. Live(p) /\ poll[p].pc \in Deciding BY <2>1 DEF Live, Deciding
    <2>3. rec.status # "completed" BY <2>2, PollsAlone
    <2>4. rec'.task = rec.task /\ rec'.status = "failed"
      BY <1>a, <2>1, <2>3 DEF Failed, Records
    <2> QED BY <2>1, <2>2, <2>4, PollMovesCalm DEF PollPcs, Deciding
  <1>7. CASE RefundPoll(p)
    <2>1. poll[p].pc = "refund" /\ UNCHANGED <<job, exec, rec>> /\ PollEnds(p)
      BY <1>7 DEF RefundPoll
    <2>2. Live(p) BY <2>1 DEF Live
    <2> QED BY <2>1, <2>2, PollsAlone, PollMovesCalm DEF PollPcs
  <1>8. CASE InterruptPoll(p)
    <2>1. /\ poll[p].pc \notin {"none", "waiting"}
          /\ UNCHANGED <<job, exec, rec, refund, sweep>>
          /\ PollTo(p, "waiting") \/ PollEnds(p)
      BY <1>8 DEF InterruptPoll
    <2>2. Live(p) BY <2>1 DEF Live
    <2> QED BY <2>1, <2>2, PollsAlone, PollMovesCalm DEF PollPcs, Deciding
  <1>9. CASE DuplicatePoll(p) BY <1>9 DEF DuplicatePoll, Lose, Calm
  <1> QED
    BY <1>1, <1>2, <1>3, <1>4, <1>5, <1>6, <1>7, <1>8, <1>9 DEF PollStep

\* A step that leaves polls and executions alone, with no execution that runs
\* unless the row and the job stay as they are.
LEMMA RestCalm ==
    ASSUME TypeInv, CalmInv, Calm, UNCHANGED <<exec, poll>>,
           UNCHANGED <<rec, job>> \/
              /\ \A e \in Execs : exec[e].pc = "idle"
              /\ \A p \in Polls : poll[p].pc = "none"
              /\ rec'.status # "completed",
           refund' \/ sweep' => rec'.status = "failed"
    PROVE  CalmInv'
  <1>1. Alone /\ AfterJob /\ OneChain /\ ExecCurrent /\ PollCurrent BY DEF CalmInv
  <1>2. OneChain' /\ GivenBack' BY <1>1 DEF OneChain, Live, GivenBack
  <1>3. CASE UNCHANGED <<rec, job>>
    BY <1>1, <1>2, <1>3
    DEF Alone, AfterJob, ExecCurrent, PollCurrent, OwnAttempt, Live, CalmInv
  <1>4. CASE /\ \A e \in Execs : exec[e].pc = "idle"
             /\ \A p \in Polls : poll[p].pc = "none"
             /\ rec'.status # "completed"
    BY <1>2, <1>4 DEF Alone, AfterJob, ExecCurrent, PollCurrent, Live, Deciding, CalmInv
  <1> QED BY <1>3, <1>4

\* The API, the vendor, time and the sweeps, which act when nothing else does.
LEMMA OthersCalm ==
    ASSUME TypeInv, CalmInv, Calm,
           \/ CommitGeneration \/ EnqueueGeneration \/ TimeOut \/ Sweep
           \/ FindFailed \/ RefundFound \/ \E a \in Attempts : VendorFinish(a)
    PROVE  CalmInv'
  <1>a. rec \in Records /\ job \in Jobs BY Types
  <1>b. Alone /\ AfterJob /\ OneChain /\ ExecCurrent /\ PollCurrent /\ GivenBack
    BY DEF CalmInv
  <1>c. Stale => /\ job.state \notin {"waiting", "active"}
                 /\ \A e \in Execs : exec[e].pc = "idle"
                 /\ \A p \in Polls : poll[p].pc = "none"
    BY DEF Stale, Calm, Live
  <1>d. job.state # "active" => \A e \in Execs : exec[e].pc = "idle"
    BY <1>b, MurekaAssumption DEF Alone, TypeInv, JobInv
  <1>1. CASE CommitGeneration
    <2>1. /\ rec.status = "absent" /\ rec' = [rec EXCEPT !.status = "pending"]
          /\ UNCHANGED <<job, exec, poll, refund, sweep>>
      BY <1>1 DEF CommitGeneration
    <2>2. /\ rec'.status = "pending" /\ rec'.task = rec.task
          /\ rec'.attempt = rec.attempt
      BY <1>a, <2>1 DEF Records
    <2>3. Alone' /\ OneChain' BY <1>b, <2>1 DEF Alone, OneChain, Live
    <2>4. AfterJob' BY <1>b, <2>1, <2>2 DEF AfterJob, Live
    <2>5. ExecCurrent' BY <1>b, <2>1, <2>2 DEF ExecCurrent, OwnAttempt
    <2>6. PollCurrent' BY <1>b, <2>1, <2>2 DEF PollCurrent
    <2>7. GivenBack' BY <1>b, <2>1, <2>2 DEF GivenBack
    <2> QED BY <2>3, <2>4, <2>5, <2>6, <2>7 DEF CalmInv
  <1>2. CASE EnqueueGeneration
    <2>1. /\ rec.task = NoTask /\ job.state = "absent"
          /\ UNCHANGED <<rec, exec, poll, refund, sweep>>
      BY <1>2 DEF EnqueueGeneration
    <2>2. rec.status # "completed" /\ \A p \in Polls : poll[p].pc = "none"
      BY <1>b, <2>1 DEF AfterJob, Live
    <2> QED BY <1>b, <1>d, <2>1, <2>2, RestCalm DEF GivenBack
  <1>3. CASE TimeOut \/ \E a \in Attempts : VendorFinish(a)
    <2>1. UNCHANGED <<rec, job, exec, poll, refund, sweep>>
      BY <1>3 DEF TimeOut, VendorFinish
    <2> QED BY <1>b, <2>1, RestCalm DEF GivenBack
  <1>4. CASE ReconcileQueued
    <2>1. /\ Stale /\ rec.status = "pending" /\ UNCHANGED <<rec, exec, poll, refund, sweep>>
      BY <1>4 DEF ReconcileQueued, Waiting
    <2> QED BY <1>b, <1>c, <2>1, RestCalm DEF GivenBack
  <1>5. CASE SunoReconcile
    <2>1. /\ Stale /\ rec' = [rec EXCEPT !.status = "failed", !.reason = "missing_spend"]
          /\ UNCHANGED <<job, exec, poll, refund, sweep>>
      BY <1>5 DEF SunoReconcile, Waiting
    <2>2. rec'.status = "failed" BY <1>a, <2>1 DEF Records
    <2> QED BY <1>c, <2>1, <2>2, RestCalm
  <1>6. CASE ReconcileSubmitted
    <2>1. /\ Stale /\ rec.status \in {"pending", "processing"} /\ rec.task # NoTask
          /\ AddPoll(rec.task) /\ UNCHANGED <<rec, job, exec, refund, sweep>>
      BY <1>6 DEF ReconcileSubmitted
    <2>2. PICK p \in Free : poll' = [poll EXCEPT ![p] = [pc |-> "waiting", task |-> rec.task]]
      BY <1>c, <2>1 DEF AddPoll, Live
    <2>3. p \in Polls /\ poll \in [Polls -> PollJobs] BY Types DEF Free, AnyOf
    <2>4. poll'[p].pc = "waiting" /\ \A q \in Polls : q # p => poll'[q].pc = "none"
      BY <1>c, <2>1, <2>2, <2>3
    <2>5. Alone' /\ ExecCurrent' BY <1>c, <2>1 DEF Alone, ExecCurrent
    <2>6. AfterJob' BY <1>c, <2>1 DEF AfterJob
    <2>7. OneChain' BY <2>4 DEF OneChain, Live
    <2>8. PollCurrent' BY <2>4 DEF PollCurrent, Deciding
    <2>9. GivenBack' BY <1>b, <2>1 DEF GivenBack
    <2> QED BY <2>5, <2>6, <2>7, <2>8, <2>9 DEF CalmInv
  <1>7. CASE FindFailed
    <2>1. rec.status = "failed" /\ UNCHANGED <<rec, job, exec, poll>>
      BY <1>7 DEF FindFailed
    <2> QED BY <2>1, RestCalm
  <1>8. CASE RefundFound
    <2>1. sweep /\ UNCHANGED <<rec, job, exec, poll>> BY <1>8 DEF RefundFound
    <2> QED BY <1>b, <2>1, RestCalm DEF GivenBack
  <1> QED BY <1>1, <1>2, <1>3, <1>4, <1>5, <1>6, <1>7, <1>8 DEF Sweep

\* A song begins in the invariant.
LEMMA CalmBegins == Init => CalmInv
  <1> SUFFICES ASSUME Init PROVE CalmInv OBVIOUS
  <1>1. /\ \A e \in Execs : exec[e].pc = "idle"
        /\ \A p \in Polls : poll[p].pc = "none"
        /\ ~refund /\ ~sweep /\ rec.status = "absent"
    BY DEF Init, IdleExec, NoPoll
  <1> QED
    BY <1>1
    DEF CalmInv, Alone, AfterJob, OneChain, ExecCurrent, PollCurrent, GivenBack, Live, Deciding

\* The faults of a behaviour do not change.
LEMMA SameFaults == [Next]_vars => UNCHANGED env
  BY DEF Next, vars, CommitGeneration, EnqueueGeneration, Generate, Start, Return, Prepare,
         ClaimDispatching, Post, PersistSubmittedTask, GiveUpPersisting, MarkSubmitUnknown,
         ReleaseToQueued, EnqueueFirstPoll, FailMusicGeneration, RefundExec, DatabaseError,
         CrashExec, LoseLock, PollStep, StartPoll, QueryVendor, PollProgress, UpsertTracks,
         CompleteGeneration, FailPoll, RefundPoll, InterruptPoll, DuplicatePoll,
         VendorFinish, TimeOut, Sweep, ReconcileQueued, ReconcileSubmitted, SunoReconcile,
         FindFailed, RefundFound

\* Every step keeps it.
LEMMA CalmNext == TypeInv /\ CalmInv /\ [Next]_vars => CalmInv'
  <1> SUFFICES ASSUME TypeInv, CalmInv, [Next]_vars PROVE CalmInv' OBVIOUS
  <1>1. CASE ~Calm BY <1>1, SameFaults DEF Calm, CalmInv
  <1>2. CASE Calm
    <2>1. CASE UNCHANGED vars
      <3>1. UNCHANGED <<rec, job, exec, poll, refund, sweep>> BY <2>1 DEF vars
      <3> QED BY <1>2, <3>1, RestCalm DEF CalmInv, GivenBack
    <2> QED BY <1>2, <2>1, ExecCalms, PollCalms, OthersCalm DEF Next
  <1> QED BY <1>1, <1>2

\* RefundedOrDelivered: without overlapping jobs, and without rows that wait
\* beside a live job, refundMusicGeneration and the completion of
\* processMusicPoll exclude each other, whatever dies, fails or times out
\* between the statements and whichever sweeps run.
THEOREM NotBoth == Spec => []RefundedOrDelivered
  <1>1. CalmInv => RefundedOrDelivered
    BY DEF CalmInv, Calm, GivenBack, RefundedOrDelivered
  <1>2. Init => TypeInv /\ CalmInv BY TypeInit, CalmBegins
  <1>3. TypeInv /\ CalmInv /\ [Next]_vars => (TypeInv /\ CalmInv)'
    BY TypeNext, CalmNext
  <1> QED BY <1>1, <1>2, <1>3, PTL DEF Spec
=============================================================================
