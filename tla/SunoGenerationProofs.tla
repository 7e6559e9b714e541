------------------------- MODULE SunoGenerationProofs -------------------------
(***************************************************************************)
(* Proofs about SunoGeneration, for every number of attempts, worker slots *)
(* and handlers and for every choice of faults, overlapping executions     *)
(* included: the types, that the vendor starts at most one task, and that  *)
(* a submit of unknown outcome is not taken back for another attempt.      *)
(* And, where executions do not overlap and the queue answers: that the    *)
(* statuses which end a song are final, that a submit of unknown outcome   *)
(* is neither failed nor refunded, and that a song implements              *)
(* GenerationContract.                                                     *)
(*                                                                         *)
(* For the contract, two things matter.  Before the POST the execution is  *)
(* the only one that can move the row, so what it read is still so when it *)
(* writes; after it, the row can only be bound, and every refund waits for *)
(* an error that the vendor reported.                                      *)
(***************************************************************************)
EXTENDS SunoGeneration, TLAPS

-----------------------------------------------------------------------------
(* Types *)

\* An owned job is active, and a job that may still run has attempts left.
JobInv ==
    /\ job.owner # NoExec => job.state = "active"
    /\ job.state \in {"absent", "waiting", "active"} => job.made < MaxAttempts

TypeInv == TypeOK /\ JobInv

LEMMA IdleExecType == IdleExec \in Executions
  BY DEF IdleExec, Executions, ExecPcs, NoTask

LEMMA BlankJobType == BlankJob \in Jobs
  BY ConstantsAssumption DEF BlankJob, Jobs, NoTask

\* Whatever the way in which execution e ends, the job keeps its shape.
LEMMA EndedType ==
    ASSUME TypeInv, NEW e \in Execs, NEW how \in {"ok", "retry", "fatal"}
    PROVE  /\ Ended(e, how) \in Jobs
           /\ Ended(e, how).owner # NoExec => Ended(e, how).state = "active"
           /\ Ended(e, how).state \in {"absent", "waiting", "active"}
                => Ended(e, how).made < MaxAttempts
  <1>1. job \in Jobs /\ JobInv BY DEF TypeInv, TypeOK
  <1>2. CASE job.owner # e
    BY <1>1, <1>2 DEF Ended, JobInv
  <1>3. CASE job.owner = e
    <2>1. job.made < MaxAttempts
      BY <1>1, <1>3, ConstantsAssumption DEF JobInv
    <2>2. CASE how = "ok" BY <1>1, <1>3, <2>2 DEF Ended, Jobs
    <2>3. CASE how = "fatal" BY <1>1, <1>3, <2>3 DEF Ended, Jobs
    <2>4. CASE how = "retry"
      <3>1. Ended(e, how) =
              [job EXCEPT !.made = @ + 1, !.owner = NoExec,
                          !.state = IF job.made + 1 < MaxAttempts
                                    THEN "waiting" ELSE "failed"]
        BY <1>3, <2>4 DEF Ended
      <3>2. job.made + 1 \in 0 .. MaxAttempts
        BY <1>1, <2>1, ConstantsAssumption DEF Jobs
      <3>3. Ended(e, how) \in Jobs BY <1>1, <3>1, <3>2 DEF Jobs
      <3>4. Ended(e, how).owner = NoExec /\ Ended(e, how).made = job.made + 1
        BY <1>1, <3>1 DEF Jobs
      <3>5. Ended(e, how).state = IF job.made + 1 < MaxAttempts
                                  THEN "waiting" ELSE "failed"
        BY <1>1, <3>1 DEF Jobs
      <3> QED BY <3>3, <3>4, <3>5
    <2> QED BY <2>2, <2>3, <2>4
  <1> QED BY <1>2, <1>3

LEMMA EndType ==
    ASSUME TypeInv, NEW e \in Execs, NEW how \in {"ok", "retry", "fatal"},
           End(e, how)
    PROVE  job' \in Jobs /\ JobInv' /\ exec' \in [Execs -> Executions]
  <1>1. job' = Ended(e, how) /\ exec' = [exec EXCEPT ![e] = IdleExec] BY DEF End
  <1>2. exec \in [Execs -> Executions] BY DEF TypeInv, TypeOK
  <1> QED BY <1>1, <1>2, EndedType, IdleExecType DEF JobInv

LEMMA GotoType ==
    ASSUME TypeInv, NEW e \in Execs, NEW pc \in ExecPcs, Goto(e, pc)
    PROVE  exec' \in [Execs -> Executions]
  <1>1. exec \in [Execs -> Executions] BY DEF TypeInv, TypeOK
  <1>2. [exec[e] EXCEPT !.pc = pc] \in Executions BY <1>1 DEF Executions
  <1>3. exec' = [exec EXCEPT ![e] = [exec[e] EXCEPT !.pc = pc]]
    BY DEF Goto
  <1> QED BY <1>1, <1>2, <1>3

LEMMA StalledType ==
    ASSUME TypeInv, job.owner # NoExec, job' = Stalled
    PROVE  job' \in Jobs /\ JobInv'
  <1>1. job \in Jobs /\ job.made < MaxAttempts
    BY DEF TypeInv, TypeOK, JobInv
  <1>2. job.stalls + 1 \in Nat BY <1>1 DEF Jobs
  <1>3. job' \in Jobs BY <1>1, <1>2 DEF Stalled, Jobs
  <1>4. job'.owner = NoExec /\ job'.made = job.made
    BY <1>1 DEF Stalled, Jobs
  <1> QED BY <1>1, <1>3, <1>4 DEF JobInv

LEMMA AddedType ==
    ASSUME TypeInv, job' = Added
    PROVE  job' \in Jobs /\ JobInv'
  <1>1. job \in Jobs /\ JobInv BY DEF TypeInv, TypeOK
  <1> QED BY <1>1 DEF Added, Jobs, JobInv, TypeInv

LEMMA TypeInit == Init => TypeInv
  <1> SUFFICES ASSUME Init PROVE TypeInv OBVIOUS
  <1>1. rec \in Records BY DEF Init, Records, NoTask
  <1>2. job \in Jobs /\ JobInv
    BY BlankJobType, ConstantsAssumption DEF Init, JobInv, BlankJob
  <1>3. exec \in [Execs -> Executions] BY IdleExecType DEF Init
  <1>4. hand \in [Handlers -> Handlings]
    BY DEF Init, Handlings
  <1> QED BY <1>1, <1>2, <1>3, <1>4 DEF Init, TypeInv, TypeOK

\* The API, the retention window and the reconciler.
LEMMA TypeRequests ==
    ASSUME TypeInv,
           \/ CommitGeneration \/ EnqueueGeneration
           \/ CreateRemix \/ SpendRemix \/ EnqueueRemix \/ FailRemix
           \/ RefundRemix \/ CrashApi \/ Evict \/ Reconcile
    PROVE  TypeInv'
  <1> USE DEF TypeInv, TypeOK
  <1>1. CASE CommitGeneration
    BY <1>1 DEF CommitGeneration, Records, JobInv
  <1>2. CASE EnqueueGeneration
    BY <1>2, AddedType DEF EnqueueGeneration
  <1>3. CASE CreateRemix BY <1>3 DEF CreateRemix, Records, JobInv
  <1>4. CASE SpendRemix BY <1>4 DEF SpendRemix, JobInv
  <1>5. CASE EnqueueRemix
    <2>1. job' \in Jobs /\ JobInv'
      <3>1. job' = Added \/ job' = job BY <1>5 DEF EnqueueRemix
      <3> QED BY <3>1, AddedType DEF JobInv
    <2> QED BY <1>5, <2>1 DEF EnqueueRemix
  <1>6. CASE FailRemix BY <1>6 DEF FailRemix, Records, JobInv
  <1>7. CASE RefundRemix BY <1>7 DEF RefundRemix, RefundOrSwallow, JobInv
  <1>8. CASE CrashApi BY <1>8 DEF CrashApi, JobInv
  <1>9. CASE Evict
    <2>1. JobInv'
      BY <1>9, ConstantsAssumption DEF Evict, BlankJob, JobInv
    <2> QED BY <1>9, <2>1, BlankJobType DEF Evict
  <1>10. CASE Reconcile
    <2>1. job' \in Jobs /\ JobInv'
      <3>1. job' = Added \/ job' = job BY <1>10 DEF Reconcile
      <3> QED BY <3>1, AddedType DEF JobInv
    <2>2. rec' \in Records BY <1>10 DEF Reconcile, Records
    <2> QED BY <1>10, <2>1, <2>2 DEF Reconcile
  <1> QED
    BY <1>1, <1>2, <1>3, <1>4, <1>5, <1>6, <1>7, <1>8, <1>9, <1>10

\* The steps of a worker execution.
LEMMA TypeExec ==
    ASSUME TypeInv, NEW e \in Execs,
           Exec(e) \/ DatabaseError(e) \/ CrashExec(e) \/ LoseLock(e)
    PROVE  TypeInv'
  <1>a. /\ rec \in Records /\ job \in Jobs /\ JobInv
        /\ exec \in [Execs -> Executions]
    BY DEF TypeInv, TypeOK
  <1>b. exec[e] \in Executions BY <1>a
  <1>1. CASE Start(e)
    <2>1. job' \in Jobs /\ JobInv'
      BY <1>a, <1>1 DEF Start, Jobs, JobInv
    <2>2. EntryPc \in ExecPcs
      BY <1>a DEF EntryPc, ExecPcs, Records
    <2>3. [pc |-> EntryPc, last |-> job.made + 1 >= MaxAttempts,
           attempt |-> rec.attempt, task |-> job.recovered] \in Executions
      BY <1>a, <2>2 DEF Records, Jobs, Executions
    <2>4. exec' \in [Execs -> Executions] BY <1>a, <1>1, <2>3 DEF Start
    <2> QED BY <1>1, <2>1, <2>4 DEF Start, TypeInv, TypeOK
  <1>2. CASE Return(e)
    BY <1>2, EndType DEF Return, TypeInv, TypeOK
  <1>3. CASE Preflight(e)
    <2>1. CASE End(e, "retry")
      BY <1>3, <2>1, EndType DEF Preflight, TypeInv, TypeOK
    <2>2. CASE (Goto(e, "claim") \/ Goto(e, "preflight_failed")) /\ UNCHANGED job
      <3>1. exec' \in [Execs -> Executions]
        BY <2>2, GotoType DEF ExecPcs
      <3> QED BY <1>3, <2>2, <3>1 DEF Preflight, TypeInv, TypeOK, JobInv
    <2> QED BY <1>3, <2>1, <2>2 DEF Preflight
  <1>4. CASE MarkMusicGenerateFailed(e)
    <2>1. exec' \in [Execs -> Executions]
      BY <1>4, GotoType DEF MarkMusicGenerateFailed, ExecPcs
    <2>2. rec' \in Records BY <1>a, <1>4 DEF MarkMusicGenerateFailed, Records
    <2> QED
      BY <1>4, <2>1, <2>2 DEF MarkMusicGenerateFailed, TypeInv, TypeOK, JobInv
  <1>5. CASE ClaimDispatching(e)
    <2>1. CASE rec.sub = "queued" /\ rec.status = "pending" /\ rec.task = NoTask
      <3>1. PICK a \in Attempts :
              /\ vendor' = [vendor EXCEPT ![a] = "none"]
              /\ rec' = [rec EXCEPT !.sub = "dispatching", !.attempt = a]
              /\ exec' = [exec EXCEPT ![e].pc = "post", ![e].attempt = a]
              /\ UNCHANGED job
        BY <1>5, <2>1 DEF ClaimDispatching
      <3>2. rec' \in Records BY <1>a, <3>1 DEF Records
      <3>3. [exec[e] EXCEPT !.pc = "post", !.attempt = a] \in Executions
        BY <1>b DEF Executions, ExecPcs
      <3>4. exec' = [exec EXCEPT ![e] = [exec[e] EXCEPT !.pc = "post", !.attempt = a]]
        BY <1>a, <1>b, <3>1 DEF Executions
      <3>5. exec' \in [Execs -> Executions] BY <1>a, <3>3, <3>4
      <3>6. vendor' \in [Attempts -> {"unused", "none", "running", "complete", "error"}]
        BY <3>1 DEF TypeInv, TypeOK
      <3> QED
        BY <1>5, <3>1, <3>2, <3>5, <3>6
        DEF ClaimDispatching, TypeInv, TypeOK, JobInv
    <2>2. CASE ~(rec.sub = "queued" /\ rec.status = "pending" /\ rec.task = NoTask)
      <3>1. \E how \in {"ok", "retry", "fatal"} : End(e, how)
        BY <1>5, <2>2 DEF ClaimDispatching
      <3>2. job' \in Jobs /\ JobInv' /\ exec' \in [Execs -> Executions]
        BY <3>1, EndType
      <3> QED BY <1>5, <2>2, <3>2 DEF ClaimDispatching, TypeInv, TypeOK
    <2> QED BY <2>1, <2>2
  <1>6. CASE Post(e)
    <2>1. PICK answer \in {"ok", "terminal", "capacity", "ambiguous"},
               started \in BOOLEAN :
            /\ exec' = [exec EXCEPT ![e].pc = NextPc(answer),
                                    ![e].task = IF answer = "ok" THEN exec[e].attempt
                                                                 ELSE NoTask]
            /\ vendor' = IF started
                         THEN [vendor EXCEPT ![exec[e].attempt] = "running"]
                         ELSE vendor
      BY <1>6 DEF Post
    <2> DEFINE task == IF answer = "ok" THEN exec[e].attempt ELSE NoTask
    <2>2. NextPc(answer) \in ExecPcs BY DEF NextPc, ExecPcs
    <2>3. task \in Attempts \cup {NoTask} BY <1>b DEF Executions, NoTask
    <2> HIDE DEF task
    <2>4. [exec[e] EXCEPT !.pc = NextPc(answer), !.task = task] \in Executions
      BY <1>b, <2>2, <2>3 DEF Executions
    <2>5. exec' = [exec EXCEPT ![e] =
                     [exec[e] EXCEPT !.pc = NextPc(answer), !.task = task]]
      BY <2>1 DEF task
    <2>6. exec' \in [Execs -> Executions] BY <1>a, <2>4, <2>5
    <2>7. vendor' \in [Attempts -> {"unused", "none", "running", "complete", "error"}]
      BY <2>1 DEF TypeInv, TypeOK
    <2> QED BY <1>6, <2>6, <2>7 DEF Post, TypeInv, TypeOK, JobInv
  <1>7. CASE PersistProviderTaskId(e)
    <2>1. rec' \in Records
      BY <1>a, <1>b, <1>7 DEF PersistProviderTaskId, Records, Executions
    <2>2. job' \in Jobs /\ JobInv' /\ exec' \in [Execs -> Executions]
      BY <1>7, EndType DEF PersistProviderTaskId
    <2> QED BY <1>7, <2>1, <2>2 DEF PersistProviderTaskId, TypeInv, TypeOK
  <1>8. CASE GiveUpPersisting(e)
    <2>1. PICK saved \in {exec[e].task, job.recovered} :
            IF exec[e].last
             THEN /\ Goto(e, "unknown")
                  /\ job' = [job EXCEPT !.recovered = saved]
             ELSE /\ exec' = [exec EXCEPT ![e] = IdleExec]
                  /\ job' = [Ended(e, "retry") EXCEPT !.recovered = saved]
      BY <1>8 DEF GiveUpPersisting
    <2>2. saved \in Attempts \cup {NoTask}
      BY <1>a, <1>b DEF Jobs, Executions
    <2>3. \E j \in Jobs :
            /\ job' = [j EXCEPT !.recovered = saved]
            /\ j.owner # NoExec => j.state = "active"
            /\ j.state \in {"absent", "waiting", "active"} => j.made < MaxAttempts
      BY <1>a, <2>1, EndedType DEF JobInv
    <2>4. job' \in Jobs /\ JobInv' BY <2>2, <2>3 DEF Jobs, JobInv
    <2>5. exec' \in [Execs -> Executions]
      BY <1>a, <2>1, GotoType, IdleExecType DEF ExecPcs
    <2> QED BY <1>8, <2>4, <2>5 DEF GiveUpPersisting, TypeInv, TypeOK
  <1>9. CASE MarkSubmitUnknown(e)
    <2>1. rec' \in Records BY <1>a, <1>9 DEF MarkSubmitUnknown, Records
    <2> QED
      BY <1>9, <2>1, EndType DEF MarkSubmitUnknown, TypeInv, TypeOK
  <1>10. CASE ReleaseToQueued(e)
    <2>1. rec' \in Records BY <1>a, <1>10 DEF ReleaseToQueued, Records
    <2>2. job' \in Jobs /\ JobInv' /\ exec' \in [Execs -> Executions]
      <3>1. CASE exec[e].last
        BY <1>a, <1>10, <3>1, GotoType DEF ReleaseToQueued, ExecPcs, JobInv
      <3>2. CASE ~exec[e].last
        BY <1>10, <3>2, EndType DEF ReleaseToQueued
      <3> QED BY <3>1, <3>2
    <2> QED BY <1>10, <2>1, <2>2 DEF ReleaseToQueued, TypeInv, TypeOK
  <1>11. CASE TransitionFailed(e)
    <2>1. rec' \in Records BY <1>a, <1>11 DEF TransitionFailed, Records
    <2>2. exec' \in [Execs -> Executions]
      BY <1>11, GotoType DEF TransitionFailed, ExecPcs
    <2> QED BY <1>11, <2>1, <2>2 DEF TransitionFailed, TypeInv, TypeOK, JobInv
  <1>12. CASE RefundExec(e)
    BY <1>12, EndType DEF RefundExec, RefundOrSwallow, TypeInv, TypeOK
  <1>13. CASE DatabaseError(e)
    BY <1>13, EndType DEF DatabaseError, TypeInv, TypeOK
  <1>14. CASE CrashExec(e)
    <2>1. exec' \in [Execs -> Executions]
      BY <1>a, <1>14, IdleExecType DEF CrashExec
    <2>2. job' \in Jobs /\ JobInv'
      <3>1. CASE job.owner = e
        BY <1>14, <3>1, StalledType, ConstantsAssumption DEF CrashExec
      <3>2. CASE job.owner # e BY <1>a, <1>14, <3>2 DEF CrashExec, JobInv
      <3> QED BY <3>1, <3>2
    <2> QED BY <1>14, <2>1, <2>2 DEF CrashExec, TypeInv, TypeOK
  <1>15. CASE LoseLock(e)
    <2>1. job' \in Jobs /\ JobInv'
      BY <1>15, StalledType, ConstantsAssumption DEF LoseLock
    <2> QED BY <1>15, <2>1 DEF LoseLock, TypeInv, TypeOK
  <1> QED
    BY <1>1, <1>2, <1>3, <1>4, <1>5, <1>6, <1>7, <1>8, <1>9, <1>10, <1>11,
       <1>12, <1>13, <1>14, <1>15
    DEF Exec

\* The vendor, the callbacks and the polls.
LEMMA TypeHandlers ==
    ASSUME TypeInv,
           \/ \E a \in Attempts : VendorFinish(a)
           \/ \E h \in Handlers :
                 \/ \E a \in Attempts,
                      kind \in {"progress", "completed", "failed", "ignored"} :
                      Callback(h, a, kind)
                 \/ Poll(h) \/ Handle(h) \/ CrashHandler(h)
    PROVE  TypeInv'
  <1>a. rec \in Records /\ hand \in [Handlers -> Handlings]
    BY DEF TypeInv, TypeOK
  <1>b. IdleHandler \in Handlings BY DEF IdleHandler, Handlings
  <1>1. ASSUME NEW a \in Attempts, VendorFinish(a) PROVE TypeInv'
    BY <1>1 DEF VendorFinish, TypeInv, TypeOK, JobInv
  <1>2. ASSUME NEW h \in Handlers, NEW a \in Attempts,
               NEW kind \in {"progress", "completed", "failed", "ignored"},
               Callback(h, a, kind)
        PROVE  TypeInv'
    <2>1. rec' \in Records BY <1>a, <1>2 DEF Callback, Records
    <2>2. hand' \in [Handlers -> Handlings]
      BY <1>a, <1>2 DEF Callback, Handlings
    <2> QED BY <1>2, <2>1, <2>2 DEF Callback, TypeInv, TypeOK, JobInv
  <1>3. ASSUME NEW h \in Handlers, Poll(h) PROVE TypeInv'
    <2>1. hand' \in [Handlers -> Handlings]
      BY <1>a, <1>3 DEF Poll, Kinds, Handlings
    <2> QED BY <1>3, <2>1 DEF Poll, TypeInv, TypeOK, JobInv
  <1>4. ASSUME NEW h \in Handlers, Apply(h) PROVE TypeInv'
    <2>1. rec' \in Records
      <3>1. CASE rec.status \in Allowed
        <4>1. hand[h].kind \in {"progress", "completed", "failed"}
          BY <1>a, <1>4 DEF Apply, Handlings, IdleHandler
        <4> QED BY <1>a, <1>4, <3>1, <4>1 DEF Apply, Target, Records
      <3>2. CASE rec.status \notin Allowed BY <1>a, <1>4, <3>2 DEF Apply
      <3> QED BY <3>1, <3>2
    <2>2. hand' \in [Handlers -> Handlings]
      <3>1. hand[h] \in Handlings /\ hand[h].pc = "apply" BY <1>a, <1>4 DEF Apply
      <3>2. \A pc \in {"refund", "tracks"} : [hand[h] EXCEPT !.pc = pc] \in Handlings
        BY <3>1 DEF Handlings, IdleHandler
      <3> QED BY <1>a, <1>b, <1>4, <3>2 DEF Apply
    <2> QED BY <1>4, <2>1, <2>2 DEF Apply, TypeInv, TypeOK, JobInv
  <1>5. ASSUME NEW h \in Handlers, UpsertTracks(h) PROVE TypeInv'
    BY <1>a, <1>b, <1>5 DEF UpsertTracks, TypeInv, TypeOK, JobInv
  <1>6. ASSUME NEW h \in Handlers, RefundFailed(h) PROVE TypeInv'
    BY <1>a, <1>b, <1>6 DEF RefundFailed, RefundOrSwallow, TypeInv, TypeOK, JobInv
  <1>7. ASSUME NEW h \in Handlers, CrashHandler(h) PROVE TypeInv'
    BY <1>a, <1>b, <1>7 DEF CrashHandler, TypeInv, TypeOK, JobInv
  <1> QED BY <1>1, <1>2, <1>3, <1>4, <1>5, <1>6, <1>7 DEF Handle

LEMMA TypeNext == TypeInv /\ [Next]_vars => TypeInv'
  <1>1. TypeInv /\ UNCHANGED vars => TypeInv'
    BY DEF vars, TypeInv, TypeOK, JobInv
  <1>2. TypeInv /\ Next => TypeInv'
    BY TypeRequests, TypeExec, TypeHandlers DEF Next
  <1> QED BY <1>1, <1>2

\* Every reachable state is well typed: the row, the job of the queue and the
\* program counters stay in the sets that the code's enums name.
THEOREM TypeCorrect == Spec => []TypeOK
  <1>1. TypeInv => TypeOK BY DEF TypeInv
  <1> QED BY <1>1, TypeInit, TypeNext, PTL DEF Spec

-----------------------------------------------------------------------------
(* The submit guard *)

\* An execution that may still post, or that knows its post was refused.
Holds(e) == exec[e].pc \in {"post", "release", "fail"}

\* A started task is that of the attempt on the row, and the row is not queued.
AcceptedOnRow == \A a \in Accepted : rec.attempt = a /\ rec.sub # "queued"

\* A claim is held with an attempt of which the vendor knows nothing; until it
\* is posted the row stays off the queue and carries it.
HeldUnsent ==
    \A e \in Execs : Holds(e) =>
        /\ exec[e].attempt \in Attempts /\ vendor[exec[e].attempt] = "none"
        /\ exec[e].pc = "post" => rec.attempt = exec[e].attempt /\ rec.sub # "queued"

\* No attempt is held by two executions.
HeldOnce ==
    \A e, f \in Execs :
        Holds(e) /\ Holds(f) /\ exec[e].attempt = exec[f].attempt => e = f

GuardInv == AcceptedOnRow /\ HeldUnsent /\ HeldOnce

\* What a step may do to the executions without a new claim: an attempt that is
\* held afterwards was held before, and by the same execution.
NoNewHold ==
    \A f \in Execs : Holds(f)' =>
        /\ Holds(f) /\ exec'[f].attempt = exec[f].attempt
        /\ exec'[f].pc = "post" => exec[f].pc = "post"

LEMMA GuardInit == Init => GuardInv
  BY ConstantsAssumption
  DEF Init, GuardInv, AcceptedOnRow, Accepted, HeldUnsent, HeldOnce, Holds,
      IdleExec

\* A step that claims nothing, posts nothing and does not requeue the row.
LEMMA GuardKept ==
    ASSUME GuardInv, NoNewHold,
           Accepted' \subseteq Accepted,
           \A a \in Attempts : vendor[a] = "none" => vendor'[a] = "none",
           rec'.attempt = rec.attempt,
           rec.sub # "queued" => rec'.sub # "queued"
    PROVE  GuardInv'
  <1>1. AcceptedOnRow' BY DEF GuardInv, AcceptedOnRow
  <1>2. HeldUnsent' BY DEF GuardInv, HeldUnsent, NoNewHold
  <1>3. HeldOnce' BY DEF GuardInv, HeldOnce, NoNewHold
  <1> QED BY <1>1, <1>2, <1>3 DEF GuardInv

LEMMA UnchangedExecs == exec' = exec => NoNewHold
  BY DEF NoNewHold, Holds

\* Ending an execution, or moving it to a step that holds no attempt.
LEMMA LetGo ==
    ASSUME TypeInv, NEW e \in Execs, NEW x,
           exec' = [exec EXCEPT ![e] = x], x.pc \notin {"post", "release", "fail"}
    PROVE  NoNewHold
  <1>1. exec \in [Execs -> Executions] BY DEF TypeInv, TypeOK
  <1>2. exec'[e] = x /\ \A f \in Execs : f # e => exec'[f] = exec[f] BY <1>1
  <1> QED BY <1>2 DEF NoNewHold, Holds

LEMMA EndLetsGo ==
    ASSUME TypeInv, NEW e \in Execs, exec' = [exec EXCEPT ![e] = IdleExec]
    PROVE  NoNewHold
  BY LetGo DEF IdleExec

LEMMA GotoLetsGo ==
    ASSUME TypeInv, NEW e \in Execs, NEW pc, Goto(e, pc),
           pc \notin {"post", "release", "fail"}
    PROVE  NoNewHold
  <1>1. exec[e] \in Executions BY DEF TypeInv, TypeOK
  <1>2. [exec[e] EXCEPT !.pc = pc].pc = pc BY <1>1 DEF Executions
  <1>3. exec' = [exec EXCEPT ![e] = [exec[e] EXCEPT !.pc = pc]] BY DEF Goto
  <1> QED BY <1>2, <1>3, LetGo

\* A claim finds the row queued: no task is accepted, no execution may still
\* post, and the attempt it takes is held by nobody.
LEMMA GuardClaim ==
    ASSUME TypeInv, GuardInv, NEW e \in Execs, NEW a \in Attempts,
           rec.sub = "queued", vendor[a] = "unused",
           vendor' = [vendor EXCEPT ![a] = "none"],
           rec' = [rec EXCEPT !.sub = "dispatching", !.attempt = a],
           exec' = [exec EXCEPT ![e].pc = "post", ![e].attempt = a]
    PROVE  GuardInv'
  <1>a. /\ rec \in Records /\ exec \in [Execs -> Executions]
        /\ vendor \in [Attempts -> {"unused", "none", "running", "complete", "error"}]
    BY DEF TypeInv, TypeOK
  <1>1. rec'.sub = "dispatching" /\ rec'.attempt = a BY <1>a DEF Records
  <1>2. exec'[e].pc = "post" /\ exec'[e].attempt = a
    <2>1. exec[e] \in Executions BY <1>a
    <2>2. exec'[e] = [exec[e] EXCEPT !.pc = "post", !.attempt = a]
      BY <1>a, <2>1 DEF Executions
    <2> QED BY <2>1, <2>2 DEF Executions
  <1>3. \A f \in Execs : f # e => exec'[f] = exec[f] BY <1>a
  <1>4. vendor'[a] = "none" /\ \A b \in Attempts : b # a => vendor'[b] = vendor[b]
    BY <1>a
  <1>5. Accepted = {} BY DEF GuardInv, AcceptedOnRow
  <1>6. Accepted' = {} BY <1>4, <1>5 DEF Accepted
  <1>7. \A f \in Execs : Holds(f) => exec[f].pc # "post" /\ exec[f].attempt # a
    BY DEF GuardInv, HeldUnsent
  <1>8. HeldUnsent'
    <2> SUFFICES ASSUME NEW f \in Execs, Holds(f)'
                 PROVE  /\ exec'[f].attempt \in Attempts
                        /\ vendor'[exec'[f].attempt] = "none"
                        /\ exec'[f].pc = "post"
                             => rec'.attempt = exec'[f].attempt /\ rec'.sub # "queued"
      BY DEF HeldUnsent
    <2>1. CASE f = e BY <1>1, <1>2, <1>4, <2>1
    <2>2. CASE f # e
      <3>1. Holds(f) /\ exec'[f] = exec[f] BY <1>3, <2>2 DEF Holds
      <3> QED BY <1>4, <1>7, <3>1 DEF GuardInv, HeldUnsent
    <2> QED BY <2>1, <2>2
  <1>9. HeldOnce'
    <2>1. \A f \in Execs : f # e /\ Holds(f)' =>
            Holds(f) /\ exec'[f].attempt = exec[f].attempt /\ exec[f].attempt # a
      BY <1>3, <1>7 DEF Holds
    <2>2. exec'[e].attempt = a BY <1>2
    <2> SUFFICES ASSUME NEW f \in Execs, NEW g \in Execs, Holds(f)', Holds(g)',
                        exec'[f].attempt = exec'[g].attempt
                 PROVE  f = g
      BY DEF HeldOnce
    <2>3. CASE f = e
      <3>1. ~(g # e) BY <2>1, <2>2, <2>3
      <3> QED BY <2>3, <3>1
    <2>4. CASE g = e
      <3>1. ~(f # e) BY <2>1, <2>2, <2>4
      <3> QED BY <2>4, <3>1
    <2>5. CASE f # e /\ g # e
      <3>1. Holds(f) /\ Holds(g) /\ exec[f].attempt = exec[g].attempt BY <2>1, <2>5
      <3> QED BY <3>1 DEF GuardInv, HeldOnce
    <2> QED BY <2>3, <2>4, <2>5
  <1> QED BY <1>6, <1>8, <1>9 DEF GuardInv, AcceptedOnRow

\* The one that posts is the only holder of its attempt, and the row carries it.
LEMMA GuardPost ==
    ASSUME TypeInv, GuardInv, NEW e \in Execs, Post(e)
    PROVE  GuardInv'
  <1>a. /\ exec \in [Execs -> Executions] /\ exec[e].pc = "post"
        /\ vendor \in [Attempts -> {"unused", "none", "running", "complete", "error"}]
        /\ rec' = rec
    BY DEF TypeInv, TypeOK, Post
  <1> DEFINE a == exec[e].attempt
  <1>1. a \in Attempts /\ vendor[a] = "none" /\ rec.attempt = a /\ rec.sub # "queued"
    BY <1>a DEF GuardInv, HeldUnsent, Holds
  <1>2. \A f \in Execs : Holds(f) /\ exec[f].attempt = a => f = e
    BY <1>a DEF GuardInv, HeldOnce, Holds
  <1>3. PICK answer \in {"ok", "terminal", "capacity", "ambiguous"},
             started \in BOOLEAN :
          /\ answer = "ok" => started
          /\ answer \in {"terminal", "capacity"} => ~started
          /\ exec' = [exec EXCEPT ![e].pc = NextPc(answer),
                                  ![e].task = IF answer = "ok" THEN exec[e].attempt
                                                               ELSE NoTask]
          /\ vendor' = IF started
                       THEN [vendor EXCEPT ![exec[e].attempt] = "running"]
                       ELSE vendor
    BY DEF Post
  <1>4. exec'[e].pc = NextPc(answer) /\ exec'[e].attempt = a
    <2>1. exec[e] \in Executions BY <1>a
    <2>2. exec'[e] = [exec[e] EXCEPT
                        !.pc = NextPc(answer),
                        !.task = IF answer = "ok" THEN exec[e].attempt ELSE NoTask]
      BY <1>a, <1>3
    <2> QED BY <2>1, <2>2 DEF Executions
  <1>5. \A f \in Execs : f # e => exec'[f] = exec[f] BY <1>a, <1>3
  <1>6. exec'[e].pc # "post" /\ (Holds(e)' => ~started)
    <2>1. CASE answer = "ok" BY <1>4, <2>1 DEF NextPc, Holds
    <2>2. CASE answer = "ambiguous" BY <1>4, <2>2 DEF NextPc, Holds
    <2>3. CASE answer \in {"terminal", "capacity"}
      <3>1. ~started BY <1>3, <2>3
      <3>2. NextPc(answer) # "post" BY <2>3 DEF NextPc
      <3> QED BY <1>4, <3>1, <3>2
    <2> QED BY <2>1, <2>2, <2>3
  <1>7. \A b \in Attempts : b # a \/ ~started => vendor'[b] = vendor[b]
    BY <1>a, <1>3
  <1>8. AcceptedOnRow'
    BY <1>a, <1>1, <1>7 DEF GuardInv, AcceptedOnRow, Accepted
  <1>9. HeldUnsent'
    <2> SUFFICES ASSUME NEW f \in Execs, Holds(f)'
                 PROVE  /\ exec'[f].attempt \in Attempts
                        /\ vendor'[exec'[f].attempt] = "none"
                        /\ exec'[f].pc = "post"
                             => rec'.attempt = exec'[f].attempt /\ rec'.sub # "queued"
      BY DEF HeldUnsent
    <2>1. CASE f = e BY <1>1, <1>4, <1>6, <1>7, <2>1
    <2>2. CASE f # e
      <3>1. Holds(f) /\ exec'[f] = exec[f] BY <1>5, <2>2 DEF Holds
      <3>2. exec[f].attempt \in Attempts /\ exec[f].attempt # a
        BY <1>2, <2>2, <3>1 DEF GuardInv, HeldUnsent
      <3> QED BY <1>a, <1>7, <3>1, <3>2 DEF GuardInv, HeldUnsent
    <2> QED BY <2>1, <2>2
  <1>10. HeldOnce'
    <2>1. \A f \in Execs : Holds(f)' =>
            Holds(f) /\ exec'[f].attempt = exec[f].attempt
      BY <1>a, <1>4, <1>5 DEF Holds
    <2> QED BY <2>1 DEF GuardInv, HeldOnce
  <1> QED BY <1>8, <1>9, <1>10 DEF GuardInv

\* A refused claim goes back to the queue only while the row still carries it;
\* then nothing was accepted and nobody else may still post.
LEMMA GuardRelease ==
    ASSUME TypeInv, GuardInv, NEW e \in Execs, ReleaseToQueued(e)
    PROVE  GuardInv'
  <1>a. /\ exec \in [Execs -> Executions] /\ rec \in Records
        /\ exec[e].pc = "release" /\ vendor' = vendor
    BY DEF TypeInv, TypeOK, ReleaseToQueued
  <1> DEFINE a == exec[e].attempt
  <1>1. a \in Attempts /\ vendor[a] = "none"
    BY <1>a DEF GuardInv, HeldUnsent, Holds
  <1>2. \A f \in Execs : f # e => exec'[f] = exec[f]
    BY <1>a DEF ReleaseToQueued, Goto, End
  <1>3. exec'[e].pc \in {"fail", "idle"} /\ (Holds(e)' => exec'[e].attempt = a)
    <2>1. CASE exec[e].last
      <3>1. exec[e] \in Executions BY <1>a
      <3>2. exec'[e] = [exec[e] EXCEPT !.pc = "fail"]
        BY <1>a, <2>1 DEF ReleaseToQueued, Goto
      <3> QED BY <3>1, <3>2 DEF Executions
    <2>2. CASE ~exec[e].last
      BY <1>a, <2>2 DEF ReleaseToQueued, End, IdleExec, Holds
    <2> QED BY <2>1, <2>2
  <1>4. NoNewHold BY <1>a, <1>2, <1>3 DEF NoNewHold, Holds
  <1>5. CASE rec.sub = "dispatching" /\ rec.attempt = a
    <2>1. rec' = [rec EXCEPT !.sub = "queued"] BY <1>5 DEF ReleaseToQueued
    <2>2. Accepted = {}
      BY <1>1, <1>5 DEF GuardInv, AcceptedOnRow, Accepted
    <2>3. \A f \in Execs : exec[f].pc # "post"
      BY <1>a, <1>5 DEF GuardInv, HeldUnsent, HeldOnce, Holds
    <2>4. AcceptedOnRow' BY <1>a, <2>2 DEF AcceptedOnRow, Accepted
    <2>5. HeldUnsent' BY <1>a, <1>4, <2>3 DEF GuardInv, HeldUnsent, NoNewHold
    <2>6. HeldOnce' BY <1>4 DEF GuardInv, HeldOnce, NoNewHold
    <2> QED BY <2>4, <2>5, <2>6 DEF GuardInv
  <1>6. CASE ~(rec.sub = "dispatching" /\ rec.attempt = a)
    <2>1. rec' = rec BY <1>6 DEF ReleaseToQueued
    <2> QED BY <1>a, <1>4, <2>1, GuardKept DEF Accepted
  <1> QED BY <1>5, <1>6

LEMMA GuardExec ==
    ASSUME TypeInv, GuardInv, NEW e \in Execs,
           Exec(e) \/ DatabaseError(e) \/ CrashExec(e) \/ LoseLock(e)
    PROVE  GuardInv'
  <1>a. rec \in Records /\ exec \in [Execs -> Executions]
    BY DEF TypeInv, TypeOK
  <1>b. ASSUME UNCHANGED vendor, NoNewHold, rec'.attempt = rec.attempt,
               rec.sub # "queued" => rec'.sub # "queued"
        PROVE  GuardInv'
    BY <1>b, GuardKept DEF Accepted
  <1>1. CASE Start(e)
    <2>1. EntryPc \notin {"post", "release", "fail"}
      BY <1>a DEF EntryPc, Records
    <2>2. NoNewHold BY <1>1, <2>1, LetGo DEF Start
    <2> QED BY <1>1, <1>b, <2>2 DEF Start
  <1>2. CASE Return(e)
    BY <1>2, <1>b, EndLetsGo DEF Return, End
  <1>3. CASE Preflight(e)
    <2>1. NoNewHold BY <1>3, EndLetsGo, GotoLetsGo DEF Preflight, End
    <2> QED BY <1>3, <1>b, <2>1 DEF Preflight
  <1>4. CASE MarkMusicGenerateFailed(e)
    <2>1. NoNewHold BY <1>4, GotoLetsGo DEF MarkMusicGenerateFailed
    <2> QED BY <1>a, <1>4, <1>b, <2>1 DEF MarkMusicGenerateFailed, Records
  <1>5. CASE ClaimDispatching(e)
    <2>1. CASE rec.sub = "queued" /\ rec.status = "pending" /\ rec.task = NoTask
      BY <1>5, <2>1, GuardClaim DEF ClaimDispatching
    <2>2. CASE ~(rec.sub = "queued" /\ rec.status = "pending" /\ rec.task = NoTask)
      <3>1. NoNewHold BY <1>5, <2>2, EndLetsGo DEF ClaimDispatching, End
      <3> QED BY <1>5, <1>b, <2>2, <3>1 DEF ClaimDispatching
    <2> QED BY <2>1, <2>2
  <1>6. CASE Post(e) BY <1>6, GuardPost
  <1>7. CASE PersistProviderTaskId(e)
    <2>1. NoNewHold BY <1>7, EndLetsGo DEF PersistProviderTaskId, End
    <2> QED BY <1>a, <1>7, <1>b, <2>1 DEF PersistProviderTaskId, Records
  <1>8. CASE GiveUpPersisting(e)
    <2>1. NoNewHold BY <1>8, EndLetsGo, GotoLetsGo DEF GiveUpPersisting
    <2> QED BY <1>8, <1>b, <2>1 DEF GiveUpPersisting
  <1>9. CASE MarkSubmitUnknown(e)
    <2>1. NoNewHold BY <1>9, EndLetsGo DEF MarkSubmitUnknown, End
    <2> QED BY <1>a, <1>9, <1>b, <2>1 DEF MarkSubmitUnknown, Records
  <1>10. CASE ReleaseToQueued(e) BY <1>10, GuardRelease
  <1>11. CASE TransitionFailed(e)
    <2>1. NoNewHold BY <1>11, GotoLetsGo DEF TransitionFailed
    <2> QED BY <1>a, <1>11, <1>b, <2>1 DEF TransitionFailed, Records
  <1>12. CASE RefundExec(e)
    BY <1>12, <1>b, EndLetsGo DEF RefundExec, End
  <1>13. CASE DatabaseError(e)
    BY <1>13, <1>b, EndLetsGo DEF DatabaseError, End
  <1>14. CASE CrashExec(e)
    BY <1>14, <1>b, EndLetsGo DEF CrashExec
  <1>15. CASE LoseLock(e)
    BY <1>15, <1>b, UnchangedExecs DEF LoseLock
  <1> QED
    BY <1>1, <1>2, <1>3, <1>4, <1>5, <1>6, <1>7, <1>8, <1>9, <1>10, <1>11,
       <1>12, <1>13, <1>14, <1>15
    DEF Exec

\* Nothing else claims, posts or requeues: callbacks and polls, the API and the
\* reconciler leave the attempt alone and only move the row off the queue.
LEMMA GuardOthers ==
    ASSUME TypeInv, GuardInv,
           \/ CommitGeneration \/ EnqueueGeneration
           \/ CreateRemix \/ SpendRemix \/ EnqueueRemix \/ FailRemix
           \/ RefundRemix \/ CrashApi \/ Evict \/ Reconcile
           \/ \E a \in Attempts : VendorFinish(a)
           \/ \E h \in Handlers :
                 \/ \E a \in Attempts,
                      kind \in {"progress", "completed", "failed", "ignored"} :
                      Callback(h, a, kind)
                 \/ Poll(h) \/ Handle(h) \/ CrashHandler(h)
    PROVE  GuardInv'
  <1>1. rec \in Records
    BY DEF TypeInv, TypeOK
  <1>2. exec' = exec
    BY DEF CommitGeneration, EnqueueGeneration, CreateRemix, SpendRemix,
           EnqueueRemix, FailRemix, RefundRemix, CrashApi, Evict, Reconcile,
           VendorFinish, Callback, Poll, Handle, Apply, UpsertTracks,
           RefundFailed, CrashHandler
  <1>3. /\ Accepted' \subseteq Accepted
        /\ \A a \in Attempts : vendor[a] = "none" => vendor'[a] = "none"
    <2>1. CASE UNCHANGED vendor BY <2>1 DEF Accepted
    <2>2. ASSUME NEW a \in Attempts, VendorFinish(a)
          PROVE  /\ Accepted' \subseteq Accepted
                 /\ \A b \in Attempts : vendor[b] = "none" => vendor'[b] = "none"
      BY <2>2 DEF VendorFinish, Accepted, TypeInv, TypeOK
    <2> QED
      BY <2>1, <2>2
      DEF CommitGeneration, EnqueueGeneration, CreateRemix, SpendRemix,
          EnqueueRemix, FailRemix, RefundRemix, CrashApi, Evict, Reconcile,
          Callback, Poll, Handle, Apply, UpsertTracks, RefundFailed,
          CrashHandler
  <1>4. rec'.attempt = rec.attempt /\ (rec.sub # "queued" => rec'.sub # "queued")
    <2>1. CASE rec' = rec BY <2>1
    <2>2. CASE \E s \in {"pending", "processing", "completed", "failed"} :
                 rec' = [rec EXCEPT !.status = s]
      BY <1>1, <2>2 DEF Records
    <2>3. CASE \E a \in Attempts : rec' = [rec EXCEPT !.task = a, !.sub = "submitted"]
      BY <1>1, <2>3 DEF Records
    <2>4. ASSUME NEW h \in Handlers, Apply(h)
          PROVE  \/ rec' = rec
                 \/ \E s \in {"pending", "processing", "completed", "failed"} :
                       rec' = [rec EXCEPT !.status = s]
      BY <2>4 DEF Apply, Target, TypeInv, TypeOK, Handlings, IdleHandler
    <2> QED
      BY <2>1, <2>2, <2>3, <2>4
      DEF CommitGeneration, EnqueueGeneration, CreateRemix, SpendRemix,
          EnqueueRemix, FailRemix, RefundRemix, CrashApi, Evict, Reconcile,
          VendorFinish, Callback, Poll, Handle, UpsertTracks, RefundFailed,
          CrashHandler
  <1> QED BY <1>2, <1>3, <1>4, UnchangedExecs, GuardKept

LEMMA GuardNext == TypeInv /\ GuardInv /\ [Next]_vars => GuardInv'
  <1>1. TypeInv /\ GuardInv /\ UNCHANGED vars => GuardInv'
    <2> SUFFICES ASSUME GuardInv, UNCHANGED vars PROVE GuardInv'
      OBVIOUS
    <2> QED BY UnchangedExecs, GuardKept DEF vars, Accepted
  <1>2. TypeInv /\ GuardInv /\ Next => GuardInv'
    BY GuardExec, GuardOthers DEF Next
  <1> QED BY <1>1, <1>2

\* Whatever crashes, redeliveries and failing statements do to the executions of
\* processMusicGenerateJob, and however many there are, the vendor starts at most
\* one task for the generation.
THEOREM OneTask == Spec => []AtMostOneTask
  <1>1. GuardInv => AtMostOneTask
    BY DEF GuardInv, AcceptedOnRow, AtMostOneTask
  <1> QED BY <1>1, TypeInit, TypeNext, GuardInit, GuardNext, PTL DEF Spec

-----------------------------------------------------------------------------
(* A submit whose outcome is unknown *)

OnlyBinds ==
    rec.sub = "submit_unknown" => /\ rec'.sub \in {"submit_unknown", "submitted"}
                                  /\ rec'.attempt = rec.attempt

\* The statements that leave "submitted" or "submit_unknown" in the row, or that
\* do not write the column, are all there is for such a row; and only a claim,
\* which such a row refuses, writes an attempt.
LEMMA OnlyBindsNext == TypeInv /\ [Next]_vars => OnlyBinds
  <1> SUFFICES ASSUME TypeInv, [Next]_vars PROVE OnlyBinds
    OBVIOUS
  <1> USE DEF OnlyBinds
  <1>a. rec \in Records BY DEF TypeInv, TypeOK
  <1>1. CASE \/ UNCHANGED vars \/ CommitGeneration \/ EnqueueGeneration
             \/ CreateRemix \/ SpendRemix \/ EnqueueRemix \/ FailRemix
             \/ RefundRemix \/ CrashApi \/ Evict \/ Reconcile
             \/ \E a \in Attempts : VendorFinish(a)
    BY <1>a, <1>1
    DEF CommitGeneration, EnqueueGeneration, CreateRemix, SpendRemix,
        EnqueueRemix, FailRemix, RefundRemix, CrashApi, Evict, Reconcile,
        VendorFinish, Records, vars
  <1>2. ASSUME NEW h \in Handlers,
               \/ \E a \in Attempts,
                    kind \in {"progress", "completed", "failed", "ignored"} :
                    Callback(h, a, kind)
               \/ Poll(h) \/ Handle(h) \/ CrashHandler(h)
        PROVE  OnlyBinds
    BY <1>a, <1>2
    DEF Callback, Poll, Handle, Apply, UpsertTracks, RefundFailed, CrashHandler,
        Records
  <1>3. ASSUME NEW e \in Execs,
               Exec(e) \/ DatabaseError(e) \/ CrashExec(e) \/ LoseLock(e)
        PROVE  OnlyBinds
    <2>1. CASE ClaimDispatching(e) BY <1>a, <2>1 DEF ClaimDispatching
    <2>2. CASE \/ PersistProviderTaskId(e) \/ MarkSubmitUnknown(e)
               \/ MarkMusicGenerateFailed(e) \/ ReleaseToQueued(e)
               \/ TransitionFailed(e)
      BY <1>a, <2>2
      DEF PersistProviderTaskId, MarkSubmitUnknown, MarkMusicGenerateFailed,
          ReleaseToQueued, TransitionFailed, Records
    <2> QED
      BY <1>3, <2>1, <2>2
      DEF Exec, Start, Return, Preflight, Post, GiveUpPersisting, RefundExec,
          DatabaseError, CrashExec, LoseLock
  <1> QED BY <1>1, <1>2, <1>3 DEF Next

-----------------------------------------------------------------------------
(* One execution at a time *)

Final == {"completed", "failed"}

\* The vendor reported an error of what it had accepted.
Errored == \E a \in Accepted : vendor[a] = "error"

\* An execution that is under way owns the job.
Owned == \A e \in Execs : exec[e].pc # "idle" => job.owner = e

\* What the request that made the record has left undone.
RequestAlone ==
    /\ api = "none" <=> rec.status = "absent"
    /\ api \in {"none", "remix_created"} => ~spend
    /\ api \in {"committed", "remix_charged", "remix_failed", "remix_refund"} => spend
    /\ api = "none" \/ MidRequest \/ ~spend => job.state = "absent"
    /\ api = "none" \/ MidRequest \/ ~spend => Accepted = {}
    /\ api \in {"remix_created", "remix_charged", "remix_failed"} => rec.status = "pending"
    /\ api = "remix_refund" => rec.status = "failed"
    /\ refund => spend

\* Until it has posted, an execution is the only one that can change the row.
UnsentAlone(e) ==
    /\ exec[e].pc \in {"preflight", "preflight_failed", "claim"}
          => rec.sub = "queued" /\ rec.status = "pending" /\ Accepted = {}
    /\ exec[e].pc \in {"post", "release"}
          => /\ rec.sub = "dispatching" /\ rec.status = "pending" /\ Accepted = {}
             /\ rec.attempt = exec[e].attempt
    /\ exec[e].pc = "fail"
          => /\ rec.sub \in {"dispatching", "queued"} /\ rec.status = "pending"
             /\ Accepted = {} /\ rec.attempt = exec[e].attempt
    /\ exec[e].pc = "refund" => rec.status = "failed" /\ Accepted = {}
    /\ exec[e].pc \in {"persist", "recovered"} => exec[e].task # NoTask

\* News are of a task that was accepted and bound to the row.
NewsAlone(h) ==
    hand[h].pc # "idle" =>
        /\ rec.task # NoTask /\ Accepted # {}
        /\ hand[h].kind = "failed" \/ hand[h].pc = "refund" => Errored

\* The row is bound only when submitted, at its end only when no execution can
\* submit it any more, and refunded only when the vendor has no work in hand.
RowAlone ==
    /\ rec.task # NoTask => rec.sub = "submitted"
    /\ Accepted = {} => rec.status \in {"absent", "pending", "failed"}
    /\ rec.status \in Final => \/ rec.sub \in {"submitted", "failed"}
                               \/ job.state = "absent" /\ api # "committed"
    /\ refund => \/ rec.status = "failed" /\ Accepted = {}
                 \/ rec.task # NoTask /\ Errored

AloneInv ==
    /\ Owned /\ RequestAlone /\ RowAlone
    /\ \A e \in Execs : UnsentAlone(e)
    /\ \A h \in Handlers : NewsAlone(h)

\* All that the steps need to know.
AloneParts == TypeInv /\ GuardInv /\ AloneInv

\* Nothing is charged, queued or sent in the beginning.
LEMMA AloneInit == Init => AloneInv
  <1> SUFFICES ASSUME Init PROVE AloneInv OBVIOUS
  <1>1. Accepted = {} BY DEF Init, Accepted
  <1>2. \A e \in Execs : exec[e].pc = "idle" BY DEF Init, IdleExec
  <1>3. \A h \in Handlers : hand[h].pc = "idle" BY DEF Init, IdleHandler
  <1>4. job.state = "absent" BY DEF Init, BlankJob
  <1> QED
    BY <1>1, <1>2, <1>3, <1>4
    DEF Init, AloneInv, Owned, RequestAlone, RowAlone, UnsentAlone, NewsAlone,
        MidRequest, Final

\* Where the job is not being executed, nobody executes it; and two do not.
LEMMA NobodyRuns ==
    ASSUME AloneParts, job.state # "active" PROVE \A e \in Execs : exec[e].pc = "idle"
  BY ConstantsAssumption DEF AloneParts, AloneInv, Owned, TypeInv, JobInv

LEMMA OneRuns ==
    ASSUME AloneParts, NEW e \in Execs, exec[e].pc # "idle"
    PROVE  /\ job.owner = e /\ job.state = "active"
           /\ \A f \in Execs : f # e => exec[f].pc = "idle"
  BY ConstantsAssumption DEF AloneParts, AloneInv, Owned, TypeInv, JobInv

\* A step of the execution E, which leaves it as X.
LEMMA RunsAlone ==
    ASSUME AloneParts, NEW e \in Execs, NEW x \in Executions, job.state # "absent",
           UNCHANGED <<api, spend, hand>>, exec' = [exec EXCEPT ![e] = x],
           \A f \in Execs : f # e => exec[f].pc = "idle",
           x.pc # "idle" => job'.owner = e,
           rec.task # NoTask => rec'.task # NoTask,
           rec.status # "absent" => rec'.status # "absent",
           Accepted # {} => Accepted' # {}, Errored => Errored', refund' => refund \/ spend,
           RowAlone', UnsentAlone(e)'
    PROVE  AloneInv'
  <1>1. exec \in [Execs -> Executions] BY DEF AloneParts, TypeInv, TypeOK
  <1>2. exec'[e] = x /\ \A f \in Execs : f # e => exec'[f] = exec[f] BY <1>1
  <1>3. Owned' BY <1>2 DEF Owned
  <1>4. api # "none" /\ ~MidRequest /\ spend
    BY DEF AloneParts, AloneInv, RequestAlone
  <1>5. RequestAlone' BY <1>4 DEF AloneParts, AloneInv, RequestAlone, MidRequest
  <1>6. \A f \in Execs : UnsentAlone(f)'
    <2>1. \A f \in Execs : f # e => exec'[f].pc = "idle" BY <1>2
    <2> QED BY <2>1 DEF UnsentAlone
  <1>7. \A h \in Handlers : NewsAlone(h)'
    BY DEF AloneParts, AloneInv, NewsAlone
  <1> QED BY <1>3, <1>5, <1>6, <1>7 DEF AloneInv

\* What holds while an execution is under way.
LEMMA Running ==
    ASSUME AloneParts, NEW e \in Execs, exec[e].pc # "idle"
    PROVE  /\ exec[e] \in Executions /\ rec \in Records
           /\ job.state = "active" /\ job.owner = e /\ api # "none" /\ ~MidRequest /\ spend
           /\ rec.status # "absent"
           /\ rec.status \in Final => rec.sub \in {"submitted", "failed"}
           /\ UnsentAlone(e) /\ RowAlone
  <1>1. job.state = "active" /\ job.owner = e BY OneRuns
  <1> QED BY <1>1 DEF AloneParts, TypeInv, TypeOK, AloneInv, RequestAlone, RowAlone

\* A step that leaves the row, the vendor and the refund alone, while the job
\* is there.
LEMMA RowStays ==
    ASSUME AloneParts, job.state # "absent", UNCHANGED <<rec, vendor, refund>>
    PROVE  RowAlone'
  BY DEF AloneParts, AloneInv, RowAlone, Accepted, Errored

\* The end of an execution: it was the only one.
LEMMA EndsAlone ==
    ASSUME AloneParts, NEW e \in Execs, exec[e].pc # "idle",
           exec' = [exec EXCEPT ![e] = IdleExec], UNCHANGED <<api, spend, hand, vendor>>,
           rec.task # NoTask => rec'.task # NoTask, rec'.status # "absent", RowAlone'
    PROVE  AloneInv'
  <1>1. job.state # "absent" /\ spend /\ \A f \in Execs : f # e => exec[f].pc = "idle"
    BY Running, OneRuns
  <1>2. exec'[e].pc = "idle" BY DEF AloneParts, TypeInv, TypeOK, IdleExec
  <1>3. UnsentAlone(e)' BY <1>2 DEF UnsentAlone
  <1>4. (Accepted # {} => Accepted' # {}) /\ (Errored => Errored')
    BY DEF Accepted, Errored
  <1>5. IdleExec \in Executions /\ IdleExec.pc = "idle" BY IdleExecType DEF IdleExec
  <1> QED BY <1>1, <1>3, <1>4, <1>5, RunsAlone

\* An execution that goes on, and keeps the job.
LEMMA GoesAlone ==
    ASSUME AloneParts, NEW e \in Execs, exec[e].pc # "idle", NEW pc \in ExecPcs, Goto(e, pc),
           UNCHANGED <<api, spend, hand, vendor, refund>>, job'.owner = job.owner,
           rec.task # NoTask => rec'.task # NoTask, rec'.status # "absent", RowAlone',
           UnsentAlone(e)'
    PROVE  AloneInv'
  <1> DEFINE x == [exec[e] EXCEPT !.pc = pc]
  <1>1. /\ job.state # "absent" /\ job.owner = e /\ exec[e] \in Executions
        /\ \A f \in Execs : f # e => exec[f].pc = "idle"
    BY Running, OneRuns
  <1>2. x \in Executions BY <1>1 DEF Executions
  <1>3. exec' = [exec EXCEPT ![e] = x] BY DEF Goto
  <1>4. (Accepted # {} => Accepted' # {}) /\ (Errored => Errored')
    BY DEF Accepted, Errored
  <1> HIDE DEF x
  <1> QED BY <1>1, <1>2, <1>3, <1>4, RunsAlone

\* The entry of the execution, by what the row says.
LEMMA StartAlone == ASSUME AloneParts, NEW e \in Execs, Start(e) PROVE AloneInv'
  <1> DEFINE x == [pc |-> EntryPc, last |-> job.made + 1 >= MaxAttempts,
                   attempt |-> rec.attempt, task |-> job.recovered]
  <1>1. job.state = "waiting" /\ \A f \in Execs : exec[f].pc = "idle"
    BY NobodyRuns DEF Start
  <1>2. /\ rec \in Records /\ job \in Jobs /\ exec \in [Execs -> Executions]
        /\ UNCHANGED <<api, rec, spend, refund, tracks, hand, vendor>>
        /\ exec' = [exec EXCEPT ![e] = x] /\ job'.owner = e
    BY DEF Start, AloneParts, TypeInv, TypeOK, Jobs
  <1>3. EntryPc \in ExecPcs BY <1>2 DEF EntryPc, ExecPcs, Records
  <1>4. x \in Executions BY <1>2, <1>3 DEF Executions, Records, Jobs
  <1>5. RowAlone' BY <1>1, <1>2, RowStays
  <1>6. UnsentAlone(e)'
    <2>1. exec'[e].pc = EntryPc /\ exec'[e].task = job.recovered BY <1>2
    <2>2. EntryPc = "recovered" => job.recovered # NoTask BY <1>2 DEF EntryPc, Records
    <2>3. EntryPc \notin {"preflight_failed", "claim", "post", "release", "fail", "refund",
                          "persist"}
      BY <1>2 DEF EntryPc, Records
    <2>4. CASE EntryPc = "preflight"
      <3>1. rec.sub = "queued" /\ rec.status \notin Final
        BY <1>2, <2>4 DEF EntryPc, Records, Final
      <3>2. Accepted = {} BY <3>1 DEF AloneParts, GuardInv, AcceptedOnRow
      <3>3. rec.status = "pending"
        BY <1>1, <1>2, <3>1, <3>2
        DEF AloneParts, AloneInv, RowAlone, RequestAlone, Records, Final
      <3> QED BY <1>2, <2>1, <2>4, <3>1, <3>2, <3>3 DEF UnsentAlone, Accepted
    <2>5. CASE EntryPc # "preflight" BY <1>2, <2>1, <2>2, <2>3, <2>5 DEF UnsentAlone
    <2> QED BY <2>4, <2>5
  <1>7. (Accepted # {} => Accepted' # {}) /\ (Errored => Errored')
    BY <1>2 DEF Accepted, Errored
  <1> HIDE DEF x
  <1> QED BY <1>1, <1>2, <1>4, <1>5, <1>6, <1>7, RunsAlone

\* The steps of an execution that change nothing but itself and its job.
LEMMA QuietAlone ==
    ASSUME AloneParts, NEW e \in Execs,
           Return(e) \/ Preflight(e) \/ GiveUpPersisting(e) \/ DatabaseError(e) \/ CrashExec(e)
    PROVE  AloneInv'
  <1>1. exec[e].pc # "idle"
    BY DEF Return, Preflight, GiveUpPersisting, DatabaseError, CrashExec
  <1>2. /\ UNCHANGED <<api, rec, spend, refund, tracks, hand, vendor>>
        /\ rec.status # "absent" /\ job.state # "absent" /\ UnsentAlone(e)
        /\ exec \in [Execs -> Executions] /\ exec[e] \in Executions /\ job \in Jobs
    BY <1>1, Running
    DEF Return, Preflight, GiveUpPersisting, DatabaseError, CrashExec, AloneParts, TypeInv, TypeOK
  <1>3. RowAlone' BY <1>2, RowStays
  <1>4. CASE exec' = [exec EXCEPT ![e] = IdleExec] BY <1>1, <1>2, <1>3, <1>4, EndsAlone
  <1>5. ASSUME NEW pc \in {"claim", "preflight_failed", "unknown"}, Goto(e, pc),
               job'.owner = job.owner, pc # "unknown" => exec[e].pc = "preflight"
        PROVE  AloneInv'
    <2>1. exec'[e].pc = pc BY <1>2, <1>5 DEF Goto, Executions
    <2>2. UnsentAlone(e)' BY <1>2, <1>5, <2>1 DEF UnsentAlone, Accepted
    <2>3. pc \in ExecPcs BY DEF ExecPcs
    <2> QED BY <1>1, <1>2, <1>3, <1>5, <2>2, <2>3, GoesAlone
  <1>6. \/ exec' = [exec EXCEPT ![e] = IdleExec]
        \/ \E pc \in {"claim", "preflight_failed", "unknown"} :
              /\ Goto(e, pc) /\ job'.owner = job.owner
              /\ pc # "unknown" => exec[e].pc = "preflight"
    <2>1. CASE GiveUpPersisting(e) BY <1>2, <2>1 DEF GiveUpPersisting, Jobs
    <2>2. CASE Preflight(e) BY <2>2 DEF Preflight, End
    <2>3. CASE Return(e) \/ DatabaseError(e) \/ CrashExec(e)
      BY <2>3 DEF Return, DatabaseError, CrashExec, End
    <2> QED BY <2>1, <2>2, <2>3
  <1> QED BY <1>4, <1>5, <1>6

\* A refusal before the POST, an unknown outcome, a release and a failure: the
\* row changes only where it is the execution's own.
LEMMA RowStepsAlone ==
    ASSUME AloneParts, NEW e \in Execs,
           \/ MarkMusicGenerateFailed(e) \/ MarkSubmitUnknown(e) \/ ReleaseToQueued(e)
           \/ TransitionFailed(e)
    PROVE  AloneInv'
  <1>1. exec[e].pc # "idle"
    BY DEF MarkMusicGenerateFailed, MarkSubmitUnknown, ReleaseToQueued, TransitionFailed
  <1>2. /\ UNCHANGED <<api, spend, refund, tracks, hand, vendor>>
        /\ rec \in Records /\ rec.status # "absent" /\ UnsentAlone(e) /\ RowAlone
        /\ rec.status \in Final => rec.sub \in {"submitted", "failed"}
        /\ exec \in [Execs -> Executions] /\ exec[e] \in Executions
    BY <1>1, Running
    DEF MarkMusicGenerateFailed, MarkSubmitUnknown, ReleaseToQueued, TransitionFailed,
        AloneParts, TypeInv, TypeOK
  <1>3. Accepted' = Accepted /\ Errored' = Errored BY <1>2 DEF Accepted, Errored
  <1>4. ASSUME rec.task # NoTask => rec'.task # NoTask, rec'.status # "absent", RowAlone',
               exec' = [exec EXCEPT ![e] = IdleExec]
        PROVE  AloneInv'
    BY <1>1, <1>2, <1>4, EndsAlone
  <1>5. CASE MarkMusicGenerateFailed(e)
    <2>1. /\ rec' = [rec EXCEPT !.status = "failed", !.sub = "failed"] /\ Accepted = {}
          /\ rec.task = NoTask /\ Goto(e, "refund") /\ job' = job
      BY <1>2, <1>5 DEF MarkMusicGenerateFailed, UnsentAlone, RowAlone
    <2>2. /\ rec'.status = "failed" /\ rec'.sub = "failed" /\ rec'.task = NoTask
      BY <1>2, <2>1 DEF Records
    <2>3. RowAlone' BY <1>2, <1>3, <2>1, <2>2 DEF RowAlone, Final
    <2>4. exec'[e].pc = "refund" BY <1>2, <2>1 DEF Goto, Executions
    <2>5. UnsentAlone(e)' BY <1>3, <2>1, <2>2, <2>4 DEF UnsentAlone
    <2> QED BY <1>1, <1>2, <2>1, <2>2, <2>3, <2>5, GoesAlone DEF ExecPcs
  <1>6. CASE TransitionFailed(e)
    <2>1. /\ rec' = [rec EXCEPT !.status = "failed", !.sub = "failed"] /\ Accepted = {}
          /\ rec.task = NoTask /\ Goto(e, "refund") /\ job' = job
      BY <1>2, <1>6 DEF TransitionFailed, UnsentAlone, RowAlone
    <2>2. /\ rec'.status = "failed" /\ rec'.sub = "failed" /\ rec'.task = NoTask
      BY <1>2, <2>1 DEF Records
    <2>3. RowAlone' BY <1>2, <1>3, <2>1, <2>2 DEF RowAlone, Final
    <2>4. exec'[e].pc = "refund" BY <1>2, <2>1 DEF Goto, Executions
    <2>5. UnsentAlone(e)' BY <1>3, <2>1, <2>2, <2>4 DEF UnsentAlone
    <2> QED BY <1>1, <1>2, <2>1, <2>2, <2>3, <2>5, GoesAlone DEF ExecPcs
  <1>7. CASE MarkSubmitUnknown(e)
    <2>1. \/ rec' = rec
          \/ rec' = [rec EXCEPT !.sub = "submit_unknown"] /\ rec.sub \in {"dispatching", "submit_unknown"}
      BY <1>7 DEF MarkSubmitUnknown
    <2>2. rec'.status = rec.status /\ rec'.task = rec.task BY <1>2, <2>1 DEF Records
    <2>3. RowAlone' BY <1>2, <1>3, <2>1, <2>2 DEF RowAlone, Final
    <2> QED BY <1>2, <1>4, <1>7, <2>2, <2>3 DEF MarkSubmitUnknown, End
  <1>8. CASE ReleaseToQueued(e)
    <2>1. /\ rec' = [rec EXCEPT !.sub = "queued"] /\ Accepted = {} /\ rec.status = "pending"
          /\ rec.task = NoTask /\ rec.attempt = exec[e].attempt
      BY <1>2, <1>8 DEF ReleaseToQueued, UnsentAlone, RowAlone
    <2>2. /\ rec'.status = "pending" /\ rec'.sub = "queued" /\ rec'.task = NoTask
          /\ rec'.attempt = rec.attempt
      BY <1>2, <2>1 DEF Records
    <2>3. RowAlone' BY <1>2, <1>3, <2>1, <2>2 DEF RowAlone, Final
    <2>4. CASE exec[e].last
      <3>1. Goto(e, "fail") /\ job' = job BY <1>8, <2>4 DEF ReleaseToQueued
      <3>2. exec'[e].pc = "fail" /\ exec'[e].attempt = exec[e].attempt
        BY <1>2, <3>1 DEF Goto, Executions
      <3>3. UnsentAlone(e)' BY <1>3, <2>1, <2>2, <3>2 DEF UnsentAlone
      <3> QED BY <1>1, <1>2, <2>1, <2>2, <2>3, <3>1, <3>3, GoesAlone DEF ExecPcs
    <2>5. CASE ~exec[e].last
      BY <1>2, <1>4, <1>8, <2>1, <2>2, <2>3, <2>5 DEF ReleaseToQueued, End
    <2> QED BY <2>4, <2>5
  <1> QED BY <1>5, <1>6, <1>7, <1>8

\* A task id reaches a row that has not ended.
LEMMA PersistAlone ==
    ASSUME AloneParts, NEW e \in Execs, PersistProviderTaskId(e)
    PROVE  AloneInv' /\ (rec.status \in Final => rec' = rec)
  <1>1. exec[e].pc \in {"persist", "recovered"} BY DEF PersistProviderTaskId
  <1>2. /\ UNCHANGED <<api, spend, refund, tracks, hand, vendor>>
        /\ exec' = [exec EXCEPT ![e] = IdleExec]
        /\ rec \in Records /\ rec.status # "absent" /\ RowAlone /\ exec[e].task # NoTask
        /\ rec.status \in Final => rec.sub \in {"submitted", "failed"}
        /\ job.state # "absent" /\ exec[e] \in Executions
    BY <1>1, Running DEF PersistProviderTaskId, End, UnsentAlone
  <1>3. Accepted' = Accepted /\ Errored' = Errored BY <1>2 DEF Accepted, Errored
  <1>4. CASE rec' = rec
    <2>1. RowAlone' BY <1>2, <1>4, RowStays
    <2> QED BY <1>1, <1>2, <1>4, <2>1, EndsAlone
  <1>5. CASE /\ Persistable(exec[e].attempt)
             /\ rec' = [rec EXCEPT !.task = exec[e].task, !.sub = "submitted",
                                   !.status = "pending"]
    <2>1. rec.status \notin Final BY <1>2, <1>5 DEF Persistable
    <2>2. rec'.task # NoTask /\ rec'.sub = "submitted" /\ rec'.status = "pending"
      BY <1>2, <1>5 DEF Records
    <2>3. refund => Errored BY <1>2, <2>1 DEF RowAlone, Final
    <2>4. RowAlone' BY <1>2, <1>3, <2>2, <2>3 DEF RowAlone, Final
    <2> QED BY <1>1, <1>2, <2>1, <2>2, <2>4, EndsAlone
  <1> QED BY <1>4, <1>5 DEF PersistProviderTaskId

\* A claim: only a pending row in the queue is claimed, by the only execution.
LEMMA ClaimAlone == ASSUME AloneParts, NEW e \in Execs, ClaimDispatching(e) PROVE AloneInv'
  <1>1. exec[e].pc = "claim" BY DEF ClaimDispatching
  <1>2. /\ UNCHANGED <<api, spend, refund, tracks, hand>>
        /\ rec \in Records /\ RowAlone /\ exec[e] \in Executions
        /\ exec \in [Execs -> Executions] /\ job.owner = e /\ job.state # "absent"
        /\ rec.sub = "queued" /\ rec.status = "pending" /\ Accepted = {}
        /\ vendor \in [Attempts -> {"unused", "none", "running", "complete", "error"}]
        /\ \A f \in Execs : f # e => exec[f].pc = "idle"
    BY <1>1, Running, OneRuns DEF ClaimDispatching, AloneParts, TypeInv, TypeOK, UnsentAlone
  <1>3. rec.task = NoTask BY <1>2 DEF RowAlone
  <1>4. PICK a \in Attempts :
          /\ vendor[a] = "unused" /\ vendor' = [vendor EXCEPT ![a] = "none"]
          /\ rec' = [rec EXCEPT !.sub = "dispatching", !.attempt = a]
          /\ exec' = [exec EXCEPT ![e].pc = "post", ![e].attempt = a]
          /\ UNCHANGED job
    BY <1>2, <1>3 DEF ClaimDispatching
  <1> DEFINE x == [exec[e] EXCEPT !.pc = "post", !.attempt = a]
  <1>5. x \in Executions /\ x.pc = "post" /\ x.attempt = a BY <1>2 DEF Executions, ExecPcs
  <1>6. exec' = [exec EXCEPT ![e] = x] BY <1>2, <1>4 DEF Executions
  <1> HIDE DEF x
  <1>7. exec'[e] = x BY <1>2, <1>6
  <1>8. Accepted' = {} BY <1>2, <1>4 DEF Accepted
  <1>9. /\ rec'.status = "pending" /\ rec'.sub = "dispatching" /\ rec'.attempt = a
        /\ rec'.task = NoTask
    BY <1>2, <1>3, <1>4 DEF Records
  <1>10. UnsentAlone(e)' BY <1>5, <1>7, <1>8, <1>9 DEF UnsentAlone
  <1>11. ~refund /\ ~Errored BY <1>2, <1>3 DEF RowAlone, Errored
  <1>12. RowAlone' BY <1>2, <1>8, <1>9, <1>11 DEF RowAlone, Final
  <1> QED BY <1>2, <1>3, <1>4, <1>5, <1>6, <1>9, <1>10, <1>11, <1>12, RunsAlone

\* The POST: until now the vendor had nothing of this generation, and it was not
\* given back.
LEMMA PostAlone ==
    ASSUME AloneParts, NEW e \in Execs, Post(e)
    PROVE  /\ AloneInv'
           /\ Accepted = {} /\ ~refund /\ spend
           /\ \/ vendor' = vendor
              \/ Accepted' = {exec[e].attempt} /\ vendor'[exec[e].attempt] = "running"
  <1>1. exec[e].pc = "post" BY DEF Post
  <1> DEFINE a == exec[e].attempt
  <1>2. /\ UNCHANGED <<api, rec, spend, refund, tracks, job, hand>>
        /\ rec \in Records /\ RowAlone /\ exec[e] \in Executions /\ spend
        /\ exec \in [Execs -> Executions] /\ job.owner = e /\ job.state # "absent"
        /\ rec.sub = "dispatching" /\ rec.status = "pending" /\ Accepted = {}
        /\ rec.attempt = a
        /\ vendor \in [Attempts -> {"unused", "none", "running", "complete", "error"}]
        /\ \A f \in Execs : f # e => exec[f].pc = "idle"
    BY <1>1, Running, OneRuns DEF Post, AloneParts, TypeInv, TypeOK, UnsentAlone
  <1>3. a \in Attempts BY <1>1 DEF AloneParts, GuardInv, HeldUnsent, Holds
  <1>4. rec.task = NoTask /\ ~refund /\ ~Errored BY <1>2 DEF RowAlone, Errored
  <1>5. PICK answer \in {"ok", "terminal", "capacity", "ambiguous"}, started \in BOOLEAN :
          /\ answer = "ok" => started
          /\ answer \in {"terminal", "capacity"} => ~started
          /\ exec' = [exec EXCEPT ![e].pc = NextPc(answer),
                                  ![e].task = IF answer = "ok" THEN exec[e].attempt ELSE NoTask]
          /\ vendor' = IF started THEN [vendor EXCEPT ![exec[e].attempt] = "running"]
                       ELSE vendor
    BY DEF Post
  <1> DEFINE task == IF answer = "ok" THEN a ELSE NoTask
             x == [exec[e] EXCEPT !.pc = NextPc(answer), !.task = task]
  <1>6. NextPc(answer) \in {"persist", "fail", "release", "unknown"} BY DEF NextPc
  <1>7. task \in Attempts \cup {NoTask} /\ (answer = "ok" => task # NoTask)
    BY <1>3, ConstantsAssumption DEF NoTask
  <1>8. exec' = [exec EXCEPT ![e] = x] BY <1>2, <1>5 DEF Executions
  <1> HIDE DEF task
  <1>9. x \in Executions /\ x.pc = NextPc(answer) /\ x.task = task /\ x.attempt = a
    BY <1>2, <1>6, <1>7 DEF Executions, ExecPcs
  <1> HIDE DEF x
  <1>10. exec'[e] = x BY <1>2, <1>8
  <1>11. Accepted' = IF started THEN {a} ELSE {}
    <2>1. CASE started BY <1>2, <1>3, <1>5, <2>1 DEF Accepted
    <2>2. CASE ~started BY <1>2, <1>5, <2>2 DEF Accepted
    <2> QED BY <2>1, <2>2
  <1>12. vendor' = vendor \/ (Accepted' = {a} /\ vendor'[a] = "running")
    BY <1>2, <1>3, <1>5, <1>11
  <1>13. UnsentAlone(e)'
    <2>1. CASE answer = "ok" BY <1>7, <1>9, <1>10, <2>1 DEF UnsentAlone, NextPc
    <2>2. CASE answer = "ambiguous" BY <1>9, <1>10, <2>2 DEF UnsentAlone, NextPc
    <2>3. CASE answer \in {"terminal", "capacity"}
      <3>1. ~started /\ NextPc(answer) \in {"fail", "release"} BY <1>5, <2>3 DEF NextPc
      <3>2. Accepted' = {} BY <1>11, <3>1
      <3> QED BY <1>2, <1>9, <1>10, <3>1, <3>2 DEF UnsentAlone
    <2> QED BY <2>1, <2>2, <2>3
  <1>14. RowAlone' BY <1>2, <1>4 DEF RowAlone, Final
  <1>15. AloneInv'
    BY <1>2, <1>4, <1>8, <1>9, <1>13, <1>14, RunsAlone
  <1> QED BY <1>2, <1>4, <1>12, <1>15

\* An execution refunds what was never accepted.
LEMMA RefundExecAlone ==
    ASSUME AloneParts, NEW e \in Execs, RefundExec(e)
    PROVE  AloneInv' /\ Accepted = {} /\ spend
  <1>1. exec[e].pc = "refund" BY DEF RefundExec
  <1>2. /\ UNCHANGED <<api, rec, spend, tracks, hand, vendor>>
        /\ exec' = [exec EXCEPT ![e] = IdleExec]
        /\ rec.status = "failed" /\ Accepted = {} /\ RowAlone /\ spend
        /\ job.state # "absent" /\ rec.sub \in {"submitted", "failed"}
        /\ \A f \in Execs : f # e => exec[f].pc = "idle"
    BY <1>1, Running, OneRuns DEF RefundExec, End, UnsentAlone, Final
  <1>3. Accepted' = {} /\ (Errored => Errored') BY <1>2 DEF Accepted, Errored
  <1>4. RowAlone' BY <1>2, <1>3 DEF RowAlone, Final
  <1> QED BY <1>1, <1>2, <1>4, EndsAlone

\* A step of no execution, while there is something to hear of the vendor.
LEMMA HearsAlone ==
    ASSUME AloneParts, UNCHANGED <<api, spend, exec, job>>, Accepted # {}, Accepted' # {},
           rec.task # NoTask => rec'.task # NoTask, rec' \in Records,
           rec'.status # "absent", Errored => Errored', RowAlone',
           \A h \in Handlers : NewsAlone(h)'
    PROVE  AloneInv'
  <1>1. Owned' BY DEF AloneParts, AloneInv, Owned
  <1>2. api # "none" /\ ~MidRequest /\ spend
    BY DEF AloneParts, AloneInv, RequestAlone
  <1>3. RequestAlone' BY <1>2 DEF AloneParts, AloneInv, RequestAlone, MidRequest
  <1>4. \A e \in Execs : UnsentAlone(e)' BY DEF AloneParts, AloneInv, UnsentAlone
  <1> QED BY <1>1, <1>3, <1>4 DEF AloneInv

\* A step of the handler H, which leaves it as Y.
LEMMA HandlesAlone ==
    ASSUME AloneParts, NEW h \in Handlers, NEW y, hand' = [hand EXCEPT ![h] = y],
           UNCHANGED <<api, spend, exec, job, vendor>>, Accepted # {},
           rec.task # NoTask => rec'.task # NoTask, rec' \in Records,
           rec'.status # "absent", RowAlone',
           y.pc # "idle" => /\ rec'.task # NoTask
                            /\ y.kind = "failed" \/ y.pc = "refund" => Errored
    PROVE  AloneInv'
  <1>1. hand \in [Handlers -> Handlings] BY DEF AloneParts, TypeInv, TypeOK
  <1>2. Accepted' = Accepted /\ Errored' = Errored BY DEF Accepted, Errored
  <1>3. hand'[h] = y /\ \A k \in Handlers : k # h => hand'[k] = hand[k] BY <1>1
  <1>4. \A k \in Handlers : NewsAlone(k)'
    BY <1>2, <1>3 DEF AloneParts, AloneInv, NewsAlone
  <1> QED BY <1>2, <1>4, HearsAlone

\* What a handler at work has heard of.
LEMMA Handling ==
    ASSUME AloneParts, NEW h \in Handlers, hand[h].pc # "idle"
    PROVE  /\ rec \in Records /\ rec.task # NoTask /\ rec.sub = "submitted"
           /\ Accepted # {} /\ RowAlone /\ spend /\ rec.status # "absent"
           /\ hand[h].kind = "failed" \/ hand[h].pc = "refund" => Errored
           /\ hand[h].kind \in {"progress", "completed", "failed"}
           /\ hand \in [Handlers -> Handlings]
  <1>1. hand \in [Handlers -> Handlings] /\ rec \in Records
    BY DEF AloneParts, TypeInv, TypeOK
  <1>2. hand[h].kind \in {"progress", "completed", "failed"}
    BY <1>1 DEF Handlings, IdleHandler
  <1>3. NewsAlone(h) /\ RowAlone /\ RequestAlone BY DEF AloneParts, AloneInv
  <1> QED BY <1>1, <1>2, <1>3 DEF NewsAlone, RowAlone, RequestAlone

\* The vendor ends a task; an error stays one.
LEMMA VendorAlone ==
    ASSUME AloneParts, NEW a \in Attempts, VendorFinish(a)
    PROVE  AloneInv' /\ Accepted' = Accepted /\ a \in Accepted
  <1>1. /\ UNCHANGED <<api, rec, spend, refund, tracks, job, exec, hand>>
        /\ vendor[a] = "running" /\ rec \in Records
        /\ vendor \in [Attempts -> {"unused", "none", "running", "complete", "error"}]
        /\ RowAlone /\ RequestAlone
    BY DEF VendorFinish, AloneParts, TypeInv, TypeOK, AloneInv
  <1>2. PICK end \in {"complete", "error"} : vendor' = [vendor EXCEPT ![a] = end]
    BY DEF VendorFinish
  <1>3. a \in Accepted /\ Accepted' = Accepted BY <1>1, <1>2 DEF Accepted
  <1>4. Errored => Errored' BY <1>1, <1>2, <1>3 DEF Errored
  <1>5. RowAlone' BY <1>1, <1>3, <1>4 DEF RowAlone
  <1>6. \A h \in Handlers : NewsAlone(h)'
    BY <1>1, <1>3, <1>4 DEF AloneParts, AloneInv, NewsAlone
  <1>7. rec'.status # "absent" BY <1>1, <1>3 DEF RequestAlone
  <1> QED BY <1>1, <1>3, <1>4, <1>5, <1>6, <1>7, HearsAlone

\* News come in, and may bind their task to the row.
LEMMA NewsComeAlone ==
    ASSUME AloneParts, NEW h \in Handlers,
           \/ \E a \in Attempts, kind \in {"progress", "completed", "failed", "ignored"} :
                 Callback(h, a, kind)
           \/ Poll(h)
    PROVE  AloneInv' /\ rec'.status = rec.status
  <1>1. /\ rec \in Records /\ RowAlone /\ RequestAlone
        /\ hand \in [Handlers -> Handlings]
        /\ UNCHANGED <<api, spend, refund, tracks, job, exec, vendor>>
    BY DEF AloneParts, TypeInv, TypeOK, AloneInv, Callback, Poll
  <1>2. Accepted' = Accepted /\ Errored' = Errored BY <1>1 DEF Accepted, Errored
  <1>3. CASE Poll(h)
    <2>1. PICK kind \in Kinds(rec.task) :
            /\ vendor[rec.task] # "running" => kind # "progress"
            /\ hand' = [hand EXCEPT ![h] = [pc |-> "apply", kind |-> kind]]
      BY <1>3 DEF Poll
    <2>2. rec.task \in Attempts /\ rec' = rec BY <1>1, <1>3 DEF Poll, Records, NoTask
    <2>3. rec.task \in Accepted BY <2>1, <2>2 DEF Kinds, Accepted
    <2>4. kind = "failed" => Errored BY <2>1, <2>3 DEF Kinds, Errored
    <2>5. RowAlone' BY <1>1, <1>2, <2>2 DEF RowAlone
    <2>6. rec'.status # "absent" /\ rec.task # NoTask
      BY <1>3, <2>2 DEF Poll
    <2> QED BY <1>1, <2>1, <2>2, <2>3, <2>4, <2>5, <2>6, HandlesAlone
  <1>4. ASSUME NEW a \in Attempts, NEW kind \in {"progress", "completed", "failed", "ignored"},
               Callback(h, a, kind)
        PROVE  AloneInv' /\ rec'.status = rec.status
    <2>1. /\ a \in Accepted /\ kind \in Kinds(a) \cup {"ignored"}
          /\ \/ rec' = rec /\ rec.task = a
             \/ /\ rec.task = NoTask /\ rec.sub \in {"dispatching", "submit_unknown"}
                /\ rec' = [rec EXCEPT !.task = a, !.sub = "submitted"]
          /\ hand' = IF kind = "ignored" THEN hand
                     ELSE [hand EXCEPT ![h] = [pc |-> "apply", kind |-> kind]]
      BY <1>4 DEF Callback
    <2>2. a # NoTask BY ConstantsAssumption DEF NoTask
    <2>3. rec' \in Records /\ rec'.task = a /\ rec'.status = rec.status
          /\ (rec' = rec \/ rec'.sub = "submitted")
      BY <1>1, <2>1 DEF Records
    <2>4. rec'.sub = "submitted" BY <1>1, <2>1, <2>2, <2>3 DEF RowAlone
    <2>5. rec.status # "absent" BY <1>1, <2>1 DEF RequestAlone
    <2>6. refund => Errored
      <3>1. CASE rec' = rec BY <1>1, <2>1, <2>2, <3>1 DEF RowAlone
      <3>2. CASE rec.task = NoTask BY <1>1, <2>1, <3>2 DEF RowAlone
      <3> QED BY <2>1, <3>1, <3>2
    <2>7. RowAlone' BY <1>1, <1>2, <2>1, <2>2, <2>3, <2>4, <2>6 DEF RowAlone, Final
    <2>8. kind = "failed" => Errored BY <2>1 DEF Kinds, Errored
    <2>9. CASE kind = "ignored"
      <3>1. \A k \in Handlers : NewsAlone(k)'
        BY <1>2, <2>1, <2>2, <2>3, <2>9 DEF AloneParts, AloneInv, NewsAlone
      <3> QED BY <1>1, <1>2, <2>1, <2>2, <2>3, <2>5, <2>7, <3>1, HearsAlone
    <2>10. CASE kind # "ignored"
      <3> DEFINE y == [pc |-> "apply", kind |-> kind]
      <3>1. hand' = [hand EXCEPT ![h] = y] BY <2>1, <2>10
      <3>2. y.pc = "apply" /\ y.kind = kind OBVIOUS
      <3> HIDE DEF y
      <3> QED BY <1>1, <2>1, <2>2, <2>3, <2>5, <2>7, <2>8, <3>1, <3>2, HandlesAlone
    <2> QED BY <2>3, <2>9, <2>10
  <1> QED BY <1>3, <1>4

\* The statements of a handler, and its death.
LEMMA HandleAlone ==
    ASSUME AloneParts, NEW h \in Handlers, Handle(h) \/ CrashHandler(h)
    PROVE  /\ AloneInv' /\ (rec.status \in Final => rec'.status = rec.status)
           /\ Accepted # {}
           /\ refund' # refund => Errored /\ spend /\ refund' = TRUE
  <1>1. hand[h].pc # "idle" BY DEF Handle, Apply, UpsertTracks, RefundFailed, CrashHandler
  <1>2. /\ rec \in Records /\ rec.task # NoTask /\ rec.sub = "submitted"
        /\ Accepted # {} /\ RowAlone /\ spend /\ rec.status # "absent"
        /\ hand[h].kind = "failed" \/ hand[h].pc = "refund" => Errored
        /\ hand[h].kind \in {"progress", "completed", "failed"}
        /\ hand \in [Handlers -> Handlings]
    BY <1>1, Handling
  <1>3. UNCHANGED <<api, spend, job, exec, vendor>>
    BY DEF Handle, Apply, UpsertTracks, RefundFailed, CrashHandler
  <1>4. Accepted' = Accepted /\ Errored' = Errored BY <1>3 DEF Accepted, Errored
  <1>5. IdleHandler.pc = "idle" BY DEF IdleHandler
  <1>6. CASE Apply(h)
    <2>1. \/ rec' = rec
          \/ /\ rec.status \in Allowed
             /\ rec' = [rec EXCEPT !.status = Target(hand[h].kind)]
      BY <1>6 DEF Apply
    <2>2. Target(hand[h].kind) \in {"processing", "completed", "failed"} BY <1>2 DEF Target
    <2>3. /\ rec' \in Records /\ rec'.task = rec.task /\ rec'.sub = "submitted"
          /\ rec'.status # "absent" /\ (rec.status \in Final => rec'.status = rec.status)
      BY <1>2, <2>1, <2>2 DEF Records, Allowed, Final
    <2>4. refund' = refund BY <1>6 DEF Apply
    <2>5. RowAlone' BY <1>2, <1>3, <1>4, <2>3, <2>4 DEF RowAlone, Final
    <2>6. \E y : /\ hand' = [hand EXCEPT ![h] = y]
                 /\ y.pc = "idle" \/ ((y.kind = "failed" \/ y.pc = "refund") => hand[h].kind = "failed")
      <3>1. hand[h] \in Handlings BY <1>2
      <3>2. CASE hand' = [hand EXCEPT ![h] = IdleHandler] BY <1>5, <3>2
      <3>3. CASE \/ hand[h].kind = "failed" /\ hand' = [hand EXCEPT ![h].pc = "refund"]
                 \/ hand[h].kind # "failed" /\ hand' = [hand EXCEPT ![h].pc = "tracks"]
        <4>1. PICK pc \in {"refund", "tracks"} :
                /\ hand' = [hand EXCEPT ![h].pc = pc]
                /\ pc = "refund" <=> hand[h].kind = "failed"
          BY <3>3
        <4> DEFINE y == [hand[h] EXCEPT !.pc = pc]
        <4>2. hand' = [hand EXCEPT ![h] = y] BY <4>1
        <4>3. y.pc = pc /\ y.kind = hand[h].kind BY <1>1, <3>1 DEF Handlings, IdleHandler
        <4> HIDE DEF y
        <4> QED BY <4>1, <4>2, <4>3
      <3> QED BY <1>6, <3>2, <3>3 DEF Apply
    <2>7. PICK y : /\ hand' = [hand EXCEPT ![h] = y]
                   /\ y.pc = "idle" \/ ((y.kind = "failed" \/ y.pc = "refund") => hand[h].kind = "failed")
      BY <2>6
    <2> QED BY <1>2, <1>3, <2>3, <2>4, <2>5, <2>7, HandlesAlone
  <1>7. CASE \/ UpsertTracks(h) \/ CrashHandler(h)
    <2>1. rec' = rec /\ refund' = refund /\ hand' = [hand EXCEPT ![h] = IdleHandler]
      BY <1>7 DEF UpsertTracks, CrashHandler
    <2>2. RowAlone' BY <1>2, <1>3, <1>4, <2>1 DEF RowAlone
    <2> QED BY <1>2, <1>3, <1>5, <2>1, <2>2, HandlesAlone
  <1>8. CASE RefundFailed(h)
    <2>1. rec' = rec /\ hand' = [hand EXCEPT ![h] = IdleHandler] /\ hand[h].pc = "refund"
      BY <1>8 DEF RefundFailed
    <2>2. refund' = refund \/ refund' = TRUE BY <1>8 DEF RefundFailed, RefundOrSwallow
    <2>3. RowAlone' BY <1>2, <1>3, <1>4, <2>1, <2>2 DEF RowAlone
    <2> QED BY <1>2, <1>3, <1>5, <2>1, <2>2, <2>3, HandlesAlone
  <1> QED BY <1>6, <1>7, <1>8 DEF Handle

\* Where nothing was accepted and no job is there, nobody has begun anything.
LEMMA Quiet ==
    ASSUME AloneParts, api = "none" \/ MidRequest \/ ~spend
    PROVE  /\ job.state = "absent" /\ Accepted = {} /\ rec \in Records
           /\ \A e \in Execs : exec[e].pc = "idle"
           /\ \A h \in Handlers : hand[h].pc = "idle"
           /\ RequestAlone /\ RowAlone
  <1>1. job.state = "absent" /\ Accepted = {}
    BY DEF AloneParts, AloneInv, RequestAlone
  <1>2. \A e \in Execs : exec[e].pc = "idle" BY <1>1, NobodyRuns
  <1>3. \A h \in Handlers : hand[h].pc = "idle"
    BY <1>1 DEF AloneParts, AloneInv, NewsAlone
  <1> QED BY <1>1, <1>2, <1>3 DEF AloneParts, AloneInv, TypeInv, TypeOK

\* A step by which the request gets on, while nobody has begun anything.
LEMMA QuietSteps ==
    ASSUME AloneParts, api = "none" \/ MidRequest \/ ~spend,
           UNCHANGED <<exec, hand, vendor>>, RequestAlone', RowAlone'
    PROVE  AloneInv'
  <1>1. /\ \A e \in Execs : exec'[e].pc = "idle" /\ exec'[e].pc = exec[e].pc
        /\ \A h \in Handlers : hand'[h].pc = "idle"
    BY Quiet
  <1>2. Owned' BY <1>1 DEF Owned
  <1>3. \A e \in Execs : UnsentAlone(e)' BY <1>1 DEF UnsentAlone
  <1>4. \A h \in Handlers : NewsAlone(h)' BY <1>1 DEF NewsAlone
  <1> QED BY <1>2, <1>3, <1>4 DEF AloneInv

\* The request that makes the record, from the record to the refund.
LEMMA RequestStepsAlone ==
    ASSUME AloneParts, "lost_reply" \notin env,
           \/ CommitGeneration \/ CreateRemix \/ SpendRemix \/ EnqueueRemix \/ FailRemix
           \/ RefundRemix \/ CrashApi
    PROVE  /\ AloneInv' /\ (rec.status \in Final => rec'.status = rec.status)
           /\ Accepted = {} /\ UNCHANGED <<tracks, vendor>>
           /\ \/ UNCHANGED <<spend, refund>>
              \/ ~spend /\ ~refund /\ refund' = refund
              \/ spend /\ spend' = spend /\ refund' = TRUE
  <1>1. api = "none" \/ MidRequest
    BY DEF CommitGeneration, CreateRemix, SpendRemix, EnqueueRemix, FailRemix, RefundRemix,
           CrashApi, MidRequest
  <1>2. /\ job.state = "absent" /\ Accepted = {} /\ rec \in Records
        /\ RequestAlone /\ RowAlone /\ UNCHANGED <<tracks, exec, hand, vendor>>
        /\ spend \in BOOLEAN /\ refund \in BOOLEAN
    BY <1>1, Quiet
    DEF CommitGeneration, CreateRemix, SpendRemix, EnqueueRemix, FailRemix, RefundRemix,
        CrashApi, AloneParts, TypeInv, TypeOK
  <1>3. Accepted' = {} /\ ~Errored /\ ~Errored' BY <1>2 DEF Accepted, Errored
  <1>4. rec.status \in {"absent", "pending", "failed"} BY <1>2 DEF RowAlone
  <1>5. SUFFICES /\ RequestAlone' /\ RowAlone'
                 /\ rec.status \in Final => rec'.status = rec.status
                 /\ \/ UNCHANGED <<spend, refund>>
                    \/ ~spend /\ ~refund /\ refund' = refund
                    \/ spend /\ spend' = spend /\ refund' = TRUE
    BY <1>1, <1>2, QuietSteps
  <1> USE DEF RequestAlone, RowAlone, MidRequest, Final
  <1>6. CASE CommitGeneration \/ CreateRemix
    <2>1. /\ api = "none" /\ rec' = [rec EXCEPT !.status = "pending"]
          /\ refund' = refund /\ job' = job
          /\ \/ api' = "committed" /\ spend' = TRUE
             \/ api' = "remix_created" /\ spend' = spend
      BY <1>6 DEF CommitGeneration, CreateRemix
    <2>2. /\ rec'.status = "pending" /\ rec'.task = rec.task /\ rec'.sub = rec.sub
      BY <1>2, <2>1 DEF Records
    <2>3. ~spend /\ ~refund /\ rec.status = "absent" BY <1>2, <2>1
    <2>4. RequestAlone' BY <1>2, <1>3, <2>1, <2>2, <2>3
    <2>5. RowAlone' BY <1>2, <1>3, <2>1, <2>2, <2>3
    <2> QED BY <2>1, <2>3, <2>4, <2>5
  <1>7. CASE SpendRemix BY <1>2, <1>3, <1>7 DEF SpendRemix
  <1>8. CASE EnqueueRemix
    <2>1. /\ api = "remix_charged" /\ UNCHANGED <<rec, spend, refund>>
          /\ api' = "done" \/ (api' = "remix_failed" /\ job' = job)
      BY <1>8 DEF EnqueueRemix
    <2>2. RequestAlone' BY <1>2, <1>3, <2>1
    <2>3. ~refund \/ rec.status = "failed" BY <1>2, <1>3
    <2> QED BY <1>2, <1>3, <2>1, <2>2, <2>3
  <1>9. CASE FailRemix
    <2>1. /\ api = "remix_failed" /\ api' = "remix_refund" /\ UNCHANGED <<spend, refund, job>>
          /\ rec' = [rec EXCEPT !.status = "failed"]
      BY <1>9 DEF FailRemix
    <2>2. /\ rec'.status = "failed" /\ rec'.task = rec.task /\ rec'.sub = rec.sub
      BY <1>2, <2>1 DEF Records
    <2> QED BY <1>2, <1>3, <1>4, <2>1, <2>2
  <1>10. CASE RefundRemix BY <1>2, <1>3, <1>10 DEF RefundRemix, RefundOrSwallow
  <1>11. CASE CrashApi BY <1>2, <1>3, <1>11 DEF CrashApi
  <1> QED BY <1>6, <1>7, <1>8, <1>9, <1>10, <1>11

\* The queue takes a job, or forgets one; and the reconciler.
LEMMA QueueAlone ==
    ASSUME AloneParts, EnqueueGeneration \/ Evict \/ Reconcile
    PROVE  /\ AloneInv' /\ (rec.status \in Final => rec'.status = rec.status)
           /\ UNCHANGED <<spend, refund, tracks, vendor>>
  <1>1. /\ UNCHANGED <<api, spend, refund, tracks, exec, hand, vendor>>
        /\ rec \in Records /\ RequestAlone /\ RowAlone /\ Owned
    BY DEF EnqueueGeneration, Evict, Reconcile, AloneParts, TypeInv, TypeOK, AloneInv
  <1>2. Accepted' = Accepted /\ Errored' = Errored BY <1>1 DEF Accepted, Errored
  <1>3. CASE EnqueueGeneration \/ (Reconcile /\ spend /\ ~refund)
    <2>1. rec' = rec /\ job' = Added /\ api # "none" /\ ~MidRequest /\ spend
      BY <1>1, <1>3 DEF EnqueueGeneration, Reconcile, Stale, MidRequest, RequestAlone
    <2>2. Owned'
      <3>1. job.owner = job'.owner BY <2>1 DEF Added, AloneParts, TypeInv, TypeOK, Jobs
      <3> QED BY <1>1, <3>1 DEF Owned
    <2>3. RequestAlone' BY <1>1, <1>2, <2>1 DEF RequestAlone, MidRequest
    <2>4. RowAlone'
      <3>1. api = "committed" \/ rec.status = "pending"
        BY <1>3 DEF EnqueueGeneration, Reconcile, Stale
      <3>2. rec.status \in Final => rec.sub \in {"submitted", "failed"} \/ job' = job
        BY <1>1, <3>1 DEF RowAlone, Final
      <3> QED BY <1>1, <1>2, <2>1, <3>2 DEF RowAlone
    <2>5. /\ \A e \in Execs : UnsentAlone(e)'
          /\ \A h \in Handlers : NewsAlone(h)'
      BY <1>1, <1>2, <2>1 DEF AloneParts, AloneInv, UnsentAlone, NewsAlone
    <2>6. AloneInv' BY <2>2, <2>3, <2>4, <2>5 DEF AloneInv
    <2> QED BY <1>1, <2>1, <2>6
  <1>4. CASE Reconcile /\ ~(spend /\ ~refund)
    <2>1. rec' = [rec EXCEPT !.status = "failed"] /\ job' = job /\ ~MidRequest
          /\ rec.status = "pending" /\ rec.task = NoTask
      BY <1>4 DEF Reconcile, Stale
    <2>2. ~spend BY <1>1, <1>4, <2>1 DEF RowAlone
    <2>3. job.state = "absent" /\ Accepted = {} BY <2>2, Quiet
    <2>4. rec'.status = "failed" /\ rec'.task = rec.task /\ rec'.sub = rec.sub
      BY <1>1, <2>1 DEF Records
    <2>5. RequestAlone' BY <1>1, <1>2, <2>1, <2>4 DEF RequestAlone, MidRequest
    <2>6. RowAlone' BY <1>1, <1>2, <2>1, <2>2, <2>3, <2>4 DEF RowAlone, RequestAlone
    <2>7. AloneInv' BY <1>1, <2>2, <2>5, <2>6, QuietSteps
    <2> QED BY <1>1, <2>1, <2>7 DEF Final
  <1>5. CASE Evict
    <2>1. rec' = rec /\ job' = BlankJob /\ job.state # "active" /\ job.state # "absent"
      BY <1>5 DEF Evict
    <2>2. \A e \in Execs : exec[e].pc = "idle" BY <2>1, NobodyRuns
    <2>3. Owned' BY <1>1, <2>2 DEF Owned
    <2>4. RequestAlone' BY <1>1, <1>2, <2>1 DEF RequestAlone, MidRequest
    <2>5. RowAlone' BY <1>1, <1>2, <2>1 DEF RowAlone
    <2>6. /\ \A e \in Execs : UnsentAlone(e)'
          /\ \A h \in Handlers : NewsAlone(h)'
      BY <1>1, <1>2, <2>1 DEF AloneParts, AloneInv, UnsentAlone, NewsAlone
    <2>7. AloneInv' BY <2>3, <2>4, <2>5, <2>6 DEF AloneInv
    <2> QED BY <1>1, <2>1, <2>7
  <1> QED BY <1>3, <1>4, <1>5

\* The vendor's work stays as it is.
SameWork == Accepted' = Accepted /\ \A a \in Accepted : vendor'[a] = vendor[a]

\* The vendor's records as a whole.
LEMMA VendorStays == vendor' = vendor => SameWork
  BY DEF SameWork, Accepted

\* A step of an execution, by what it does to the contract.
LEMMA ExecStepsAlone ==
    ASSUME Undisturbed, AloneParts, NEW e \in Execs,
           Exec(e) \/ DatabaseError(e) \/ CrashExec(e) \/ LoseLock(e)
    PROVE  /\ AloneInv' /\ (rec.status \in Final => rec'.status = rec.status)
           /\ UNCHANGED <<spend, tracks>>
           /\ \/ refund' = refund /\ SameWork
              \/ Accepted = {} /\ spend /\ refund' = TRUE /\ SameWork
              \/ /\ Accepted = {} /\ spend /\ ~refund /\ refund' = refund
                 /\ \E a \in Attempts : Accepted' = {a} /\ vendor'[a] = "running"
  <1>1. ~LoseLock(e) BY DEF LoseLock, Undisturbed
  <1>2. CASE Start(e)
    <2>1. UNCHANGED <<rec, spend, refund, tracks, vendor>> BY <1>2 DEF Start
    <2> QED BY <1>2, <2>1, StartAlone, VendorStays
  <1>3. CASE Return(e) \/ Preflight(e) \/ GiveUpPersisting(e) \/ DatabaseError(e) \/ CrashExec(e)
    <2>1. UNCHANGED <<rec, spend, refund, tracks, vendor>>
      BY <1>3 DEF Return, Preflight, GiveUpPersisting, DatabaseError, CrashExec
    <2> QED BY <1>3, <2>1, QuietAlone, VendorStays
  <1>4. CASE \/ MarkMusicGenerateFailed(e) \/ MarkSubmitUnknown(e) \/ ReleaseToQueued(e)
             \/ TransitionFailed(e)
    <2>1. UNCHANGED <<spend, refund, tracks, vendor>>
      BY <1>4 DEF MarkMusicGenerateFailed, MarkSubmitUnknown, ReleaseToQueued, TransitionFailed
    <2>2. exec[e].pc # "idle"
      BY <1>4 DEF MarkMusicGenerateFailed, MarkSubmitUnknown, ReleaseToQueued, TransitionFailed
    <2>3. rec \in Records BY DEF AloneParts, TypeInv, TypeOK
    <2>4. rec.status \in Final => rec'.status = rec.status
      <3>1. CASE MarkMusicGenerateFailed(e) BY <3>1 DEF MarkMusicGenerateFailed, Final
      <3>2. CASE MarkSubmitUnknown(e) BY <2>3, <3>2 DEF MarkSubmitUnknown, Records
      <3>3. CASE ReleaseToQueued(e) BY <2>3, <3>3 DEF ReleaseToQueued, Records
      <3>4. CASE TransitionFailed(e)
        <4>1. rec.status = "pending" BY <2>2, <3>4, Running DEF TransitionFailed, UnsentAlone
        <4> QED BY <4>1 DEF Final
      <3> QED BY <1>4, <3>1, <3>2, <3>3, <3>4
    <2> QED BY <1>4, <2>1, <2>4, RowStepsAlone, VendorStays
  <1>5. CASE PersistProviderTaskId(e)
    <2>1. UNCHANGED <<spend, refund, tracks, vendor>> BY <1>5 DEF PersistProviderTaskId
    <2> QED BY <1>5, <2>1, PersistAlone, VendorStays
  <1>6. CASE ClaimDispatching(e)
    <2>1. AloneInv' BY <1>6, ClaimAlone
    <2>2. exec[e].pc = "claim" /\ UNCHANGED <<spend, refund, tracks>>
      BY <1>6 DEF ClaimDispatching
    <2>3. /\ Accepted = {} /\ rec \in Records /\ rec.sub = "queued" /\ rec.status = "pending"
          /\ rec.task = NoTask
          /\ vendor \in [Attempts -> {"unused", "none", "running", "complete", "error"}]
      BY <2>2, Running DEF UnsentAlone, RowAlone, AloneParts, TypeInv, TypeOK
    <2>4. \E a \in Attempts : vendor' = [vendor EXCEPT ![a] = "none"]
      BY <1>6, <2>3 DEF ClaimDispatching
    <2>5. Accepted' = {} BY <2>3, <2>4 DEF Accepted
    <2> QED BY <2>1, <2>2, <2>3, <2>5 DEF SameWork, Final
  <1>7. CASE Post(e)
    <2>1. UNCHANGED <<rec, spend, refund, tracks>> BY <1>7 DEF Post
    <2>2. exec[e].attempt \in Attempts
      BY <1>7 DEF Post, AloneParts, GuardInv, HeldUnsent, Holds
    <2> QED BY <1>7, <2>1, <2>2, PostAlone, VendorStays
  <1>8. CASE RefundExec(e)
    <2>1. UNCHANGED <<rec, spend, tracks, vendor>> /\ (refund' = refund \/ refund' = TRUE)
      BY <1>8 DEF RefundExec, RefundOrSwallow
    <2> QED BY <1>8, <2>1, RefundExecAlone, VendorStays
  <1> QED BY <1>1, <1>2, <1>3, <1>4, <1>5, <1>6, <1>7, <1>8 DEF Exec

\* Every step, by what it does to the contract.
LEMMA StepsAlone ==
    ASSUME Undisturbed, AloneParts, [Next]_vars
    PROVE  /\ AloneInv' /\ (rec.status \in Final => rec'.status = rec.status)
           /\ \/ UNCHANGED <<spend, refund, tracks>> /\ SameWork
              \/ /\ Accepted = {} /\ ~spend /\ ~refund /\ refund' = refund /\ SameWork
                 /\ tracks' = tracks
              \/ /\ Accepted = {} \/ Errored
                 /\ spend /\ spend' = spend /\ refund' = TRUE /\ SameWork
                 /\ tracks' = tracks
              \/ /\ Accepted = {} /\ spend /\ ~refund /\ UNCHANGED <<spend, refund, tracks>>
                 /\ \E a \in Attempts : Accepted' = {a} /\ vendor'[a] = "running"
              \/ /\ UNCHANGED <<spend, refund, tracks>>
                 /\ \E a \in Accepted : VendorFinish(a)
              \/ /\ UNCHANGED <<spend, refund>> /\ SameWork
                 /\ Accepted # {} /\ tracks' = TRUE
  <1>1. CASE \/ CommitGeneration \/ CreateRemix \/ SpendRemix \/ EnqueueRemix \/ FailRemix
             \/ RefundRemix \/ CrashApi
    <2>1. "lost_reply" \notin env BY DEF Undisturbed
    <2> QED BY <1>1, <2>1, RequestStepsAlone, VendorStays
  <1>2. CASE EnqueueGeneration \/ Evict \/ Reconcile BY <1>2, QueueAlone, VendorStays
  <1>3. ASSUME NEW e \in Execs, Exec(e) \/ DatabaseError(e) \/ CrashExec(e) \/ LoseLock(e)
        PROVE  /\ AloneInv' /\ (rec.status \in Final => rec'.status = rec.status)
               /\ UNCHANGED <<spend, tracks>>
               /\ \/ refund' = refund /\ SameWork
                  \/ Accepted = {} /\ spend /\ refund' = TRUE /\ SameWork
                  \/ /\ Accepted = {} /\ spend /\ ~refund /\ refund' = refund
                     /\ \E a \in Attempts : Accepted' = {a} /\ vendor'[a] = "running"
    BY <1>3, ExecStepsAlone
  <1>4. ASSUME NEW a \in Attempts, VendorFinish(a)
        PROVE  /\ AloneInv' /\ rec' = rec /\ UNCHANGED <<spend, refund, tracks>>
               /\ \E b \in Accepted : VendorFinish(b)
    <2>1. rec' = rec /\ UNCHANGED <<spend, refund, tracks>> BY <1>4 DEF VendorFinish
    <2> QED BY <1>4, <2>1, VendorAlone
  <1>5. ASSUME NEW h \in Handlers,
               \/ \E a \in Attempts, kind \in {"progress", "completed", "failed", "ignored"} :
                     Callback(h, a, kind)
               \/ Poll(h)
        PROVE  /\ AloneInv' /\ rec'.status = rec.status
               /\ UNCHANGED <<spend, refund, tracks>> /\ SameWork
    <2>1. UNCHANGED <<spend, refund, tracks, vendor>> BY <1>5 DEF Callback, Poll
    <2> QED BY <1>5, <2>1, NewsComeAlone, VendorStays
  <1>6. ASSUME NEW h \in Handlers, Handle(h) \/ CrashHandler(h)
        PROVE  /\ AloneInv' /\ (rec.status \in Final => rec'.status = rec.status)
               /\ spend' = spend /\ SameWork
               /\ \/ UNCHANGED <<refund, tracks>>
                  \/ Errored /\ spend /\ refund' = TRUE /\ tracks' = tracks
                  \/ refund' = refund /\ Accepted # {} /\ tracks' = TRUE
    <2>1. UNCHANGED <<spend, vendor>>
      BY <1>6 DEF Handle, Apply, UpsertTracks, RefundFailed, CrashHandler
    <2>2. tracks' = tracks \/ (tracks' = TRUE /\ refund' = refund)
      BY <1>6 DEF Handle, Apply, UpsertTracks, RefundFailed, CrashHandler
    <2> QED BY <1>6, <2>1, <2>2, HandleAlone, VendorStays
  <1>7. CASE UNCHANGED vars
    <2>1. UNCHANGED <<api, rec, spend, refund, tracks, job, exec, hand, vendor>>
      BY <1>7 DEF vars
    <2>2. AloneInv'
      BY <2>1
      DEF AloneParts, AloneInv, Owned, RequestAlone, RowAlone, UnsentAlone, NewsAlone,
          MidRequest, Accepted, Errored
    <2> QED BY <2>1, <2>2, VendorStays
  <1> QED BY <1>1, <1>2, <1>3, <1>4, <1>5, <1>6, <1>7 DEF Next

\* The work of the one task that was accepted.
LEMMA WorkOfOne ==
    /\ Accepted = {} => Work = "none"
    /\ GuardInv => \A a \in Accepted : Work = vendor[a]
  <1>1. Accepted = {} => Work = "none" BY DEF Work
  <1>2. ASSUME GuardInv, NEW a \in Accepted PROVE Work = vendor[a]
    <2>1. \A b \in Accepted : b = a BY <1>2 DEF GuardInv, AcceptedOnRow
    <2>2. (CHOOSE b \in Accepted : TRUE) = a BY <2>1
    <2> QED BY <2>2 DEF Work
  <1> QED BY <1>1, <1>2

\* Its place in the contract is the same then.
LEMMA SameWorkStays ==
    ASSUME GuardInv, GuardInv', SameWork PROVE Work' = Work
  <1>1. CASE Accepted = {} BY <1>1 DEF SameWork, Work
  <1>2. CASE Accepted # {}
    <2>1. PICK a \in Accepted : TRUE BY <1>2
    <2>2. Work = vendor[a] BY WorkOfOne
    <2>3. a \in Accepted' /\ vendor'[a] = vendor[a] BY DEF SameWork
    <2>4. \A b \in Accepted' : b = a BY <2>3 DEF GuardInv, AcceptedOnRow
    <2>5. (CHOOSE b \in Accepted' : TRUE) = a BY <2>3, <2>4
    <2> QED BY <2>2, <2>3, <2>5 DEF Work
  <1> QED BY <1>1, <1>2

\* The faults of a behaviour are chosen once.
LEMMA EnvStays == [Next]_vars => env' = env
  BY DEF vars, Next, Exec, Handle, CommitGeneration, EnqueueGeneration, CreateRemix,
    SpendRemix, EnqueueRemix, FailRemix, RefundRemix, CrashApi, Evict, Reconcile, Start,
    Return, Preflight, MarkMusicGenerateFailed, ClaimDispatching, Post,
    PersistProviderTaskId, GiveUpPersisting, MarkSubmitUnknown, ReleaseToQueued,
    TransitionFailed, RefundExec, DatabaseError, CrashExec, LoseLock, VendorFinish,
    Callback, Poll, Apply, UpsertTracks, RefundFailed, CrashHandler

\* The promises of one execution at a time hold in every state of a behaviour
\* whose faults allow no more.
LEMMA AloneAlways == Spec => [](Undisturbed => AloneParts)
  <1>1. Init => (Undisturbed => AloneParts)
    BY TypeInit, GuardInit, AloneInit DEF AloneParts
  <1>2. (Undisturbed => AloneParts) /\ [Next]_vars => (Undisturbed => AloneParts)'
    <2> SUFFICES ASSUME Undisturbed => AloneParts, [Next]_vars, Undisturbed'
                 PROVE  AloneParts'
      OBVIOUS
    <2>1. Undisturbed /\ AloneParts BY EnvStays DEF Undisturbed
    <2>2. TypeInv' /\ GuardInv' BY <2>1, TypeNext, GuardNext DEF AloneParts
    <2>3. AloneInv' BY <2>1, StepsAlone
    <2> QED BY <2>2, <2>3 DEF AloneParts
  <1> QED BY <1>1, <1>2, PTL DEF Spec

\* Where executions of the job do not overlap, completed and failed are final,
\* whoever writes the status: requests, executions, callbacks, polls and the
\* reconciler (applyMusicGenerationTransition, persistProviderTaskId).
THEOREM StatusesAreFinal == Spec => FinalStatuses
  <1>1. (Undisturbed => AloneParts) /\ [Next]_vars
          => [Undisturbed /\ rec.status \in {"completed", "failed"}
                => rec'.status = rec.status]_vars
    BY StepsAlone DEF Final
  <1> QED BY <1>1, AloneAlways, PTL DEF Spec, FinalStatuses

-----------------------------------------------------------------------------
(* A submit whose outcome is unknown, one execution at a time *)

\* Nothing was claimed while the request is under way, or without a charge; a
\* row that was claimed and is not submitted is pending.
Unclaimed == api = "none" \/ MidRequest \/ ~spend => rec.sub = "queued"
ClaimPending == rec.sub \in {"dispatching", "submit_unknown"} => rec.status = "pending"
ClaimInv == Unclaimed /\ ClaimPending

\* Where the request is under way, or uncharged, no execution and no handler is.
LEMMA NobodyBefore ==
    ASSUME AloneParts, api = "none" \/ MidRequest \/ ~spend
    PROVE  /\ \A e \in Execs : exec[e].pc = "idle"
           /\ \A h \in Handlers : hand[h].pc = "idle"
           /\ job.state = "absent" /\ Accepted = {}
  <1>1. job.state = "absent" /\ Accepted = {}
    BY DEF AloneParts, AloneInv, RequestAlone
  <1>2. \A e \in Execs : exec[e].pc = "idle" BY <1>1, NobodyRuns
  <1>3. \A h \in Handlers : hand[h].pc = "idle"
    BY <1>1 DEF AloneParts, AloneInv, NewsAlone
  <1> QED BY <1>1, <1>2, <1>3

\* The steps of an execution.
LEMMA ClaimExec ==
    ASSUME AloneParts, ClaimInv, NEW e \in Execs,
           Exec(e) \/ DatabaseError(e) \/ CrashExec(e) \/ LoseLock(e)
    PROVE  /\ ClaimInv'
           /\ rec.sub = "submit_unknown" =>
                  rec'.status = rec.status /\ refund' = refund /\ vendor' = vendor
  <1>1. rec \in Records BY DEF AloneParts, TypeInv, TypeOK
  <1>2. UNCHANGED <<api, spend>>
    BY DEF Exec, Start, Return, Preflight, MarkMusicGenerateFailed, ClaimDispatching, Post,
       PersistProviderTaskId, GiveUpPersisting, MarkSubmitUnknown, ReleaseToQueued,
       TransitionFailed, RefundExec, DatabaseError, CrashExec, LoseLock
  <1>3. exec[e].pc # "idle" => ~(api = "none" \/ MidRequest \/ ~spend)
    BY NobodyBefore
  <1>4. MidRequest' = MidRequest BY <1>2 DEF MidRequest
  <1>5. UnsentAlone(e) BY DEF AloneParts, AloneInv
  <1> USE DEF ClaimInv, Unclaimed, ClaimPending, Records
  <1>6. CASE Post(e) \/ RefundExec(e)
    <2>1. rec' = rec BY <1>6 DEF Post, RefundExec
    <2>2. rec.sub = "submit_unknown" => rec.status = "pending" OBVIOUS
    <2>3. rec.sub # "submit_unknown" BY <1>5, <1>6, <2>2 DEF Post, RefundExec, UnsentAlone
    <2> QED BY <1>2, <1>4, <2>1, <2>3
  <1>7. CASE MarkMusicGenerateFailed(e) \/ TransitionFailed(e) \/ ReleaseToQueued(e)
    <2>1. UNCHANGED <<vendor, refund>> /\ exec[e].pc # "idle"
      BY <1>7 DEF MarkMusicGenerateFailed, TransitionFailed, ReleaseToQueued
    <2>2. rec.sub # "submit_unknown"
      BY <1>5, <1>7 DEF MarkMusicGenerateFailed, TransitionFailed, ReleaseToQueued, UnsentAlone
    <2>3. ClaimInv'
      BY <1>1, <1>2, <1>3, <1>4, <1>7, <2>1
      DEF MarkMusicGenerateFailed, TransitionFailed, ReleaseToQueued
    <2> QED BY <2>1, <2>2, <2>3
  <1>8. CASE ClaimDispatching(e)
    <2>1. refund' = refund /\ exec[e].pc = "claim" BY <1>8 DEF ClaimDispatching
    <2>2. rec.sub = "queued" BY <1>5, <2>1 DEF UnsentAlone
    <2>3. \/ rec' = rec
          \/ rec.status = "pending" /\ \E a \in Attempts :
                rec' = [rec EXCEPT !.sub = "dispatching", !.attempt = a]
      BY <1>8 DEF ClaimDispatching
    <2>4. rec' = rec \/ (rec'.sub = "dispatching" /\ rec'.status = "pending")
      BY <1>1, <2>3
    <2>5. ~(api = "none" \/ MidRequest \/ ~spend) BY <1>3, <2>1
    <2>6. ClaimInv' BY <1>2, <1>4, <2>4, <2>5
    <2> QED BY <2>1, <2>2, <2>6
  <1>9. CASE PersistProviderTaskId(e) \/ MarkSubmitUnknown(e)
    <2>1. UNCHANGED <<vendor, refund>> /\ exec[e].pc # "idle"
      BY <1>9 DEF PersistProviderTaskId, MarkSubmitUnknown
    <2>2. ClaimInv' /\ (rec.sub = "submit_unknown" => rec'.status = rec.status)
      BY <1>1, <1>2, <1>3, <1>4, <1>9, <2>1 DEF PersistProviderTaskId, MarkSubmitUnknown
    <2> QED BY <2>1, <2>2
  <1>10. CASE \/ Start(e) \/ Return(e) \/ Preflight(e) \/ GiveUpPersisting(e)
              \/ DatabaseError(e) \/ CrashExec(e) \/ LoseLock(e)
    <2>1. UNCHANGED <<rec, vendor, refund>>
      BY <1>10 DEF Start, Return, Preflight, GiveUpPersisting, DatabaseError, CrashExec,
         LoseLock
    <2> QED BY <1>2, <1>4, <2>1
  <1> QED BY <1>6, <1>7, <1>8, <1>9, <1>10 DEF Exec

\* Those of requests, queue, vendor and handlers.
LEMMA ClaimOthers ==
    ASSUME Undisturbed, AloneParts, ClaimInv,
           \/ UNCHANGED vars \/ CommitGeneration \/ EnqueueGeneration
           \/ CreateRemix \/ SpendRemix \/ EnqueueRemix \/ FailRemix \/ RefundRemix
           \/ CrashApi \/ Evict \/ Reconcile
           \/ \E a \in Attempts : VendorFinish(a)
           \/ \E h \in Handlers :
                 \/ \E a \in Attempts, kind \in {"progress", "completed", "failed", "ignored"} :
                       Callback(h, a, kind)
                 \/ Poll(h) \/ Handle(h) \/ CrashHandler(h)
    PROVE  /\ ClaimInv'
           /\ rec.sub = "submit_unknown" =>
                  rec'.status = rec.status /\ refund' = refund /\ Accepted' = Accepted
  <1>1. rec \in Records BY DEF AloneParts, TypeInv, TypeOK
  <1>2. RowAlone /\ RequestAlone BY DEF AloneParts, AloneInv
  <1> USE DEF ClaimInv, Unclaimed, ClaimPending, Records
  <1>3. CASE CommitGeneration \/ CreateRemix \/ SpendRemix \/ EnqueueRemix
    <2>1. UNCHANGED <<refund, vendor>> /\ rec'.sub = rec.sub /\ rec.sub = "queued"
      BY <1>1, <1>3
      DEF CommitGeneration, CreateRemix, SpendRemix, EnqueueRemix, MidRequest
    <2> QED BY <2>1
  <1>4. CASE FailRemix \/ RefundRemix
    <2>1. MidRequest /\ vendor' = vendor /\ rec'.sub = rec.sub
      BY <1>1, <1>4 DEF FailRemix, RefundRemix, MidRequest
    <2>2. rec.sub = "queued" BY <2>1
    <2> QED BY <2>1, <2>2
  <1>5. CASE UNCHANGED vars \/ EnqueueGeneration \/ Evict
    <2>1. UNCHANGED <<api, spend, rec, refund, vendor>>
      BY <1>5 DEF vars, EnqueueGeneration, Evict
    <2> QED BY <2>1 DEF MidRequest, Accepted
  <1>6. CASE CrashApi
    <2>1. UNCHANGED <<spend, rec, refund, vendor>> /\ MidRequest BY <1>6 DEF CrashApi
    <2>2. rec.sub = "queued" BY <2>1
    <2> QED BY <2>1, <2>2
  <1>7. CASE Reconcile
    <2>1. /\ rec.status = "pending" /\ rec.task = NoTask /\ UNCHANGED <<api, spend, refund, vendor>>
          /\ rec'.sub = rec.sub /\ (spend /\ ~refund => rec' = rec)
      BY <1>1, <1>7 DEF Reconcile, Stale
    <2>2. ~refund BY <1>2, <2>1 DEF RowAlone
    <2>3. rec.sub # "queued" => rec' = rec BY <2>1, <2>2
    <2>4. MidRequest' = MidRequest /\ Accepted' = Accepted BY <2>1 DEF MidRequest, Accepted
    <2> QED BY <2>1, <2>3, <2>4
  <1>8. CASE \E a \in Attempts : VendorFinish(a)
    <2>1. PICK a \in Attempts : VendorFinish(a) BY <1>8
    <2>2. UNCHANGED <<api, spend, rec, refund>> BY <2>1 DEF VendorFinish
    <2>3. Accepted' = Accepted
      BY <2>1 DEF VendorFinish, Accepted, AloneParts, TypeInv, TypeOK
    <2> QED BY <2>2, <2>3 DEF MidRequest
  <1>9. ASSUME NEW h \in Handlers, NEW a \in Attempts,
               NEW kind \in {"progress", "completed", "failed", "ignored"}, Callback(h, a, kind)
        PROVE  /\ ClaimInv' /\ rec'.status = rec.status
               /\ UNCHANGED <<refund, vendor>>
    <2>1. a \in Accepted /\ UNCHANGED <<api, spend, refund, vendor>> BY <1>9 DEF Callback
    <2>2. ~(api = "none" \/ MidRequest \/ ~spend) BY <2>1, NobodyBefore
    <2>3. rec' = rec \/ rec' = [rec EXCEPT !.task = a, !.sub = "submitted"]
      BY <1>9 DEF Callback
    <2>4. MidRequest' = MidRequest BY <2>1 DEF MidRequest
    <2> QED BY <1>1, <2>1, <2>2, <2>3, <2>4
  <1>10. ASSUME NEW h \in Handlers, Poll(h) \/ CrashHandler(h)
         PROVE  UNCHANGED <<api, spend, rec, refund, vendor>>
    BY <1>10 DEF Poll, CrashHandler
  <1>11. ASSUME NEW h \in Handlers, Handle(h)
         PROVE  ClaimInv' /\ rec.sub # "submit_unknown"
    <2>1. hand[h].pc # "idle" /\ UNCHANGED <<api, spend>>
      BY <1>11 DEF Handle, Apply, UpsertTracks, RefundFailed
    <2>2. rec.sub = "submitted" BY <1>2, <2>1 DEF AloneParts, AloneInv, NewsAlone, RowAlone
    <2>3. rec'.sub = rec.sub BY <1>1, <1>11 DEF Handle, Apply, UpsertTracks, RefundFailed
    <2>4. MidRequest' = MidRequest BY <2>1 DEF MidRequest
    <2> QED BY <2>1, <2>2, <2>3, <2>4
  <1>12. CASE \E h \in Handlers :
                 \/ \E a \in Attempts, kind \in {"progress", "completed", "failed", "ignored"} :
                       Callback(h, a, kind)
                 \/ Poll(h) \/ Handle(h) \/ CrashHandler(h)
    <2>1. PICK h \in Handlers :
                 \/ \E a \in Attempts, kind \in {"progress", "completed", "failed", "ignored"} :
                       Callback(h, a, kind)
                 \/ Poll(h) \/ Handle(h) \/ CrashHandler(h)
      BY <1>12
    <2>2. CASE Poll(h) \/ CrashHandler(h)
      BY <1>10, <2>2 DEF MidRequest, Accepted
    <2>3. CASE Handle(h) BY <1>11, <2>3
    <2>4. CASE \E a \in Attempts, kind \in {"progress", "completed", "failed", "ignored"} :
                  Callback(h, a, kind)
      BY <1>9, <2>4 DEF Accepted
    <2> QED BY <2>1, <2>2, <2>3, <2>4
  <1> QED BY <1>3, <1>4, <1>5, <1>6, <1>7, <1>8, <1>12

\* The recovery rule of the submit guard (docs/music-generation-queue-load-
\* control.md: no refund, no second POST): a record that is submit_unknown
\* leaves that status only for its task id and keeps its attempt; where
\* executions do not overlap and the queue answers, it is not failed or
\* refunded and nothing is posted for it.
THEOREM UnknownOnlyBinds == Spec => SubmitUnknownOnlyBinds
  <1>1. Init => ClaimInv
    BY DEF Init, ClaimInv, Unclaimed, ClaimPending
  <1>2. ASSUME Undisturbed, AloneParts, ClaimInv, [Next]_vars
        PROVE  /\ ClaimInv'
               /\ rec.sub = "submit_unknown" =>
                      rec'.status = rec.status /\ refund' = refund /\ Accepted' = Accepted
    <2>1. CASE \E e \in Execs : Exec(e) \/ DatabaseError(e) \/ CrashExec(e) \/ LoseLock(e)
      BY <1>2, <2>1, ClaimExec DEF Accepted
    <2>2. CASE ~ \E e \in Execs : Exec(e) \/ DatabaseError(e) \/ CrashExec(e) \/ LoseLock(e)
      BY <1>2, <2>2, ClaimOthers DEF Next
    <2> QED BY <2>1, <2>2
  <1>3. /\ Undisturbed => AloneParts
        /\ (Undisturbed => AloneParts)'
        /\ Undisturbed => ClaimInv
        /\ [Next]_vars
        => (Undisturbed => ClaimInv)'
    <2> SUFFICES ASSUME Undisturbed => AloneParts, Undisturbed => ClaimInv, [Next]_vars,
                        Undisturbed'
                 PROVE  ClaimInv'
      OBVIOUS
    <2>1. Undisturbed BY EnvStays DEF Undisturbed
    <2> QED BY <1>2, <2>1
  <1>4. /\ TypeInv
        /\ Undisturbed => AloneParts
        /\ Undisturbed => ClaimInv
        /\ [Next]_vars
        => [UnknownWaits]_vars
    <2> SUFFICES ASSUME TypeInv, Undisturbed => AloneParts, Undisturbed => ClaimInv,
                        [Next]_vars
                 PROVE  UnknownWaits
      OBVIOUS
    <2>1. OnlyBinds BY OnlyBindsNext
    <2>2. Undisturbed /\ rec.sub = "submit_unknown" =>
              rec'.status = rec.status /\ refund' = refund /\ Accepted' = Accepted
      BY <1>2
    <2> QED BY <2>1, <2>2 DEF UnknownWaits, OnlyBinds
  <1>5. Spec => [](Undisturbed => ClaimInv)
    BY <1>1, <1>3, AloneAlways, PTL DEF Spec
  <1> QED
    BY <1>4, <1>5, TypeInit, TypeNext, AloneAlways, PTL DEF Spec, SubmitUnknownOnlyBinds

-----------------------------------------------------------------------------
(* The contract *)

\* A step of a generation whose executions do not overlap is one of the
\* contract, or none.
LEMMA ContractStep ==
    ASSUME Undisturbed, Undisturbed', AloneParts, AloneParts', [Next]_vars
    PROVE  [Contract!Next]_(Contract!vars)
  <1> USE DEF Money
  <1>1. GuardInv /\ GuardInv' BY DEF AloneParts
  <1>2. refund => spend BY DEF AloneParts, AloneInv, RequestAlone
  <1>3. refund \in BOOLEAN /\ spend \in BOOLEAN /\ spend' \in BOOLEAN /\ refund' \in BOOLEAN
    BY DEF AloneParts, TypeInv, TypeOK
  <1>4. CASE UNCHANGED <<spend, refund, tracks>> /\ SameWork
    BY <1>1, <1>4, SameWorkStays DEF Contract!vars
  <1>5. CASE /\ ~spend /\ ~refund /\ refund' = refund /\ SameWork /\ tracks' = tracks
    <2>1. Work' = Work BY <1>1, <1>5, SameWorkStays
    <2>2. CASE ~spend'
      <3>1. spend' = spend BY <1>3, <1>5, <2>2
      <3> QED BY <1>5, <2>1, <3>1 DEF Contract!vars
    <2>3. CASE spend'
      <3>1. Money = "none" /\ Money' = "charged" BY <1>5, <2>3
      <3> QED BY <1>5, <2>1, <3>1 DEF Contract!Next, Contract!Charge
    <2> QED BY <2>2, <2>3
  <1>6. CASE /\ Accepted = {} \/ Errored
             /\ spend /\ spend' = spend /\ refund' = TRUE /\ SameWork /\ tracks' = tracks
    <2>1. Work' = Work BY <1>1, <1>6, SameWorkStays
    <2>2. Work \in {"none", "error"}
      <3>1. CASE Accepted = {} BY <3>1, WorkOfOne
      <3>2. CASE Errored BY <1>1, <3>2, WorkOfOne DEF Errored
      <3> QED BY <1>6, <3>1, <3>2
    <2>3. CASE refund BY <1>6, <2>1, <2>3 DEF Contract!vars
    <2>4. CASE ~refund
      <3>1. Money = "charged" /\ Money' = "refunded" BY <1>6, <2>4
      <3> QED BY <1>6, <2>1, <2>2, <3>1 DEF Contract!Next, Contract!Refund
    <2> QED BY <1>3, <2>3, <2>4
  <1>7. CASE /\ Accepted = {} /\ spend /\ ~refund /\ UNCHANGED <<spend, refund, tracks>>
             /\ \E a \in Attempts : Accepted' = {a} /\ vendor'[a] = "running"
    <2>1. Work = "none" BY <1>7, WorkOfOne
    <2>2. PICK a \in Attempts : Accepted' = {a} /\ vendor'[a] = "running" BY <1>7
    <2>3. (CHOOSE b \in Accepted' : TRUE) = a BY <2>2
    <2>4. Work' = "running" BY <2>2, <2>3 DEF Work
    <2>5. Money = "charged" /\ Money' = Money BY <1>7
    <2> QED BY <1>7, <2>1, <2>4, <2>5 DEF Contract!Next, Contract!Accept
  <1>8. CASE /\ UNCHANGED <<spend, refund, tracks>>
             /\ \E a \in Accepted : VendorFinish(a)
    <2>1. PICK a \in Accepted : VendorFinish(a) BY <1>8
    <2>2. PICK end \in {"complete", "error"} : vendor' = [vendor EXCEPT ![a] = end]
      BY <2>1 DEF VendorFinish
    <2>3. a \in Attempts /\ vendor[a] = "running" BY <2>1 DEF VendorFinish, Accepted
    <2>4. vendor'[a] = end /\ a \in Accepted'
      BY <2>2, <2>3 DEF Accepted, AloneParts, TypeInv, TypeOK
    <2>5. Work = "running" BY <1>1, <2>3, WorkOfOne
    <2>6. Work' = end
      <3>1. \A b \in Accepted' : b = a BY <1>1, <2>4 DEF GuardInv, AcceptedOnRow
      <3>2. (CHOOSE b \in Accepted' : TRUE) = a BY <2>4, <3>1
      <3> QED BY <2>4, <3>2 DEF Work
    <2>7. Money' = Money BY <1>8
    <2> QED BY <1>8, <2>5, <2>6, <2>7 DEF Contract!Next, Contract!Finish
  <1>9. CASE UNCHANGED <<spend, refund>> /\ SameWork /\ Accepted # {} /\ tracks' = TRUE
    <2>1. Work' = Work BY <1>1, <1>9, SameWorkStays
    <2>2. Work # "none" BY <1>1, <1>9, WorkOfOne DEF Accepted
    <2>3. Money' = Money BY <1>9
    <2> QED BY <1>9, <2>1, <2>2, <2>3 DEF Contract!Next, Contract!Show
  <1>10. \/ UNCHANGED <<spend, refund, tracks>> /\ SameWork
         \/ /\ ~spend /\ ~refund /\ refund' = refund /\ SameWork /\ tracks' = tracks
         \/ /\ Accepted = {} \/ Errored
            /\ spend /\ spend' = spend /\ refund' = TRUE /\ SameWork /\ tracks' = tracks
         \/ /\ Accepted = {} /\ spend /\ ~refund /\ UNCHANGED <<spend, refund, tracks>>
            /\ \E a \in Attempts : Accepted' = {a} /\ vendor'[a] = "running"
         \/ /\ UNCHANGED <<spend, refund, tracks>>
            /\ \E a \in Accepted : VendorFinish(a)
         \/ UNCHANGED <<spend, refund>> /\ SameWork /\ Accepted # {} /\ tracks' = TRUE
    BY StepsAlone
  <1> QED BY Zenon, <1>4, <1>5, <1>6, <1>7, <1>8, <1>9, <1>10

\* Where executions of the job do not overlap and the queue answers, a song
\* keeps the contract, for any number of attempts, workers and handlers, with
\* crashes of both processes, failing statements, swallowed refunds, evicted
\* jobs, and callbacks that come early, late, twice or never.
THEOREM ImplementsContract == Spec => KeepsContract
  <1>1. Init => Contract!Init
    <2> SUFFICES ASSUME Init PROVE Contract!Init OBVIOUS
    <2>1. Accepted = {} BY DEF Init, Accepted
    <2>2. Work = "none" BY <2>1, WorkOfOne
    <2> QED BY <2>2 DEF Init, Contract!Init, Money
  <1>2. (Undisturbed => AloneParts) /\ (Undisturbed => AloneParts)' /\ [Next]_vars
          => [Contract!Next]_(Contract!vars)
    <2> SUFFICES ASSUME Undisturbed => AloneParts, Undisturbed' => AloneParts', [Next]_vars
                 PROVE  [Contract!Next]_(Contract!vars)
      OBVIOUS
    <2>1. Undisturbed' = Undisturbed BY EnvStays DEF Undisturbed
    <2>2. CASE Undisturbed BY <2>1, <2>2, ContractStep
    <2>3. CASE ~Undisturbed BY <2>1, <2>3 DEF Contract!vars
    <2> QED BY <2>2, <2>3
  <1> QED BY <1>1, <1>2, AloneAlways, PTL DEF Spec, KeepsContract, Contract!Spec
=============================================================================
