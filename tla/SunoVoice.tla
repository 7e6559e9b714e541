------------------------------- MODULE SunoVoice -------------------------------
(***************************************************************************)
(* A voice sample becomes a voice of Suno: a validation phrase is asked    *)
(* for, the user reads it, and the provider makes the voice.  There is no  *)
(* worker: every request reads the sample, asks the provider, and writes   *)
(* what it concludes by the sample's id, over whatever other requests have *)
(* written in between.                                                     *)
(*                                                                         *)
(* A step is one database statement or one round of provider calls.        *)
(***************************************************************************)
EXTENDS Integers

CONSTANTS
    Tasks,       \* ids the provider gives out
    NoTask,
    Requests,    \* slots of the API
    Pages,       \* those that poll; the others are for what the user does
    MaxUses,     \* bound: starts, restarts, cancellations, recordings
    MaxFailures  \* bound: provider calls that fail, API processes that die

ASSUME VoiceAssumption ==
    NoTask \notin Tasks /\ MaxUses \in Nat /\ MaxFailures \in Nat

VARIABLES
    sample,   \* VoiceSample
    age,      \* since voiceCloneStartedAt: 0, 1 (the phrase is late), 2 (too late);
              \* 0 while the sample does not wait
    validate, \* the provider's validate-info of each task
    record,   \* the provider's record-info of each task
    request,  \* each slot: pc, kind, the sample it read, the outcome to write
    uses, failures

vars == <<sample, age, validate, record, request, uses, failures>>

MaxRegens == 2
NewSample == [status |-> "pending", task |-> NoTask, phrase |-> FALSE,
              voice |-> NoTask, stopped |-> FALSE, regens |-> 0]

IdleRequest == [pc |-> "idle", kind |-> "poll", read |-> NewSample,
                outcome |-> "none", task |-> NoTask]

\* A sample that was never cloned, or one whose phrase is on the page.
Init ==
    /\ \/ /\ sample = NewSample
          /\ validate = [t \in Tasks |-> "none"]
       \/ \E asked \in Tasks :
             /\ sample = [NewSample EXCEPT !.status = "awaiting", !.task = asked,
                                           !.phrase = TRUE]
             /\ validate = [t \in Tasks |-> IF t = asked THEN "asking" ELSE "none"]
    /\ age = 0
    /\ record = [t \in Tasks |-> "none"]
    /\ request = [q \in Requests |-> IdleRequest]
    /\ uses = 0 /\ failures = 0

Fails == failures < MaxFailures /\ failures' = failures + 1
Unused == {t \in Tasks : validate[t] = "none"}

Provider == <<validate, record>>

-----------------------------------------------------------------------------
(* The provider *)

\* A phrase takes a while; the text may or may not be repeated when asked.
ValidateMoves(t) ==
    /\ \/ validate[t] = "generating"
          /\ \E v \in {"asking", "silent", "failed"} : validate' = [validate EXCEPT ![t] = v]
       \/ validate[t] = "asking" /\ validate' = [validate EXCEPT ![t] = "silent"]
    /\ UNCHANGED <<sample, age, record, request, uses, failures>>

VoiceMoves(t) ==
    /\ record[t] = "pending"
    /\ \E r \in {"voice", "failed"} : record' = [record EXCEPT ![t] = r]
    /\ UNCHANGED <<sample, age, validate, request, uses, failures>>

\* Time passes for a sample that waits for the provider.
Ages ==
    /\ sample.status \in {"preparing", "cloning"} /\ age < 2
    /\ age' = age + 1
    /\ UNCHANGED <<sample, Provider, request, uses, failures>>

-----------------------------------------------------------------------------
(* Requests *)

\* Mutant of CanSync: a failed sample is not looked at again.
CanSyncUnlessFailed(s) ==
    /\ s.task # NoTask /\ ~s.stopped
    /\ s.status \in {"preparing", "cloning", "awaiting"}

\* canSyncSunoVoiceTask
CanSync(s) ==
    /\ s.task # NoTask /\ ~s.stopped
    /\ s.status \in {"preparing", "cloning", "awaiting", "failed"}

\* What a request still uses of the sample it read.
Kept(pc, s) ==
    IF pc \in {"sync", "submit", "persona"} THEN s
    ELSE IF pc = "check" THEN [NewSample EXCEPT !.status = s.status] ELSE NewSample

Goto(q, kind, pc) ==
    /\ request' = [request EXCEPT ![q] = [IdleRequest EXCEPT !.kind = kind, !.pc = pc,
                                                             !.read = Kept(pc, sample)]]
    /\ UNCHANGED <<sample, age, Provider, failures>>

\* The status request and the list of samples: the polls of the page while they
\* last, and whenever it is opened.
StartPoll(q) ==
    /\ q \in Pages /\ request[q].pc = "idle"
    /\ \/ CanSync(sample) /\ Goto(q, "poll", "sync")
       \/ sample.status = "ready" /\ Goto(q, "poll", "persona")
    /\ UNCHANGED uses

Uses(q) ==
    q \notin Pages /\ request[q].pc = "idle" /\ uses < MaxUses /\ uses' = uses + 1

\* prepareSunoVoiceClone: a task that is under way is only looked at, a
\* failure stays until a restart, a ready voice is checked.
StartPrepare(q) ==
    /\ Uses(q)
    /\ \/ /\ sample.status \in {"failed", "awaiting", "preparing", "cloning"}
          /\ sample.status = "awaiting" => sample.phrase
          /\ CanSync(sample) /\ Goto(q, "poll", "sync")
       \/ sample.status = "ready" /\ Goto(q, "prepare", "persona")
       \/ /\ \/ sample.status \in {"pending", "preparing", "cloning"} /\ sample.task = NoTask
             \/ sample.status = "awaiting" /\ ~sample.phrase
          /\ Goto(q, "poll", "claim")

StartRestart(q) ==
    /\ Uses(q)
    /\ Goto(q, "restart", IF sample.task # NoTask THEN "sync" ELSE "check")

StartCancel(q) ==
    /\ Uses(q) /\ sample.status # "ready"
    /\ Goto(q, "cancel", IF sample.task # NoTask THEN "sync" ELSE "stop")

StartSubmit(q) ==
    /\ Uses(q) /\ sample.status # "ready" /\ sample.task # NoTask
    /\ Goto(q, "submit", "sync")

\* Where a request goes on when the sample s is synchronised.
AfterSync(kind, s) ==
    CASE kind = "cancel" /\ s.status # "ready" -> "stop"
      [] kind = "restart" -> "check"
      [] kind = "submit" /\ s.status = "awaiting" /\ s.task # NoTask /\ s.phrase -> "submit"
      [] OTHER -> "idle"

Went(q, s) ==
    LET pc == AfterSync(request[q].kind, s)
    IN  IF pc = "idle" THEN IdleRequest
        ELSE [IdleRequest EXCEPT !.pc = pc, !.read = Kept(pc, s)]

\* Mutant of TimedOut: a voice is waited for for ever.
TimedOutPreparing(s) == s.status = "preparing" /\ age = 2

\* isVoiceCloneTimedOut
TimedOut(s) == s.status \in {"preparing", "cloning"} /\ age = 2

\* maybeRegenerateStuckPhrase
MayRegenerate(s, v) ==
    /\ s.status = "preparing" /\ v \in {"generating", "silent"}
    /\ s.regens < MaxRegens /\ age >= 1

\* Mutant of Conclusion: an accepted recording is taken for a voice.
ConclusionEarly(s, v, r) ==
    IF s.status = "cloning" /\ v = "success" /\ r # "failed" THEN "ready" ELSE "none"

\* syncSunoVoiceTaskStatus: what is concluded from the sample that was read
\* and what the provider says of its task.
Conclusion(s, v, r) ==
    IF ~CanSync(s) THEN "none"
    ELSE IF TimedOut(s) THEN "fail"
    ELSE IF s.status = "awaiting" /\ v = "silent" /\ ~s.phrase
    THEN IF s.regens < MaxRegens THEN "refresh" ELSE "expire"
    ELSE IF r = "failed" THEN "fail"
    ELSE IF v = "failed" THEN IF s.status = "preparing" THEN "none" ELSE "fail"
    ELSE IF r = "voice" THEN "ready"
    ELSE IF s.status = "awaiting" /\ v = "success" THEN "cloning"
    ELSE IF s.status = "cloning" THEN "none"
    ELSE IF v = "asking" THEN "promote"
    ELSE IF MayRegenerate(s, v) THEN "regenerate"
    ELSE "none"

Sync(q) ==
    /\ request[q].pc = "sync"
    /\ LET s == request[q].read
           c == IF s.task = NoTask THEN "none" ELSE Conclusion(s, validate[s.task], record[s.task])
       IN  \/ /\ c \in {"none", "fail", "expire", "ready", "cloning", "promote"}
              /\ request' = [request EXCEPT ![q] =
                                IF c = "none" THEN Went(q, s)
                                ELSE [@ EXCEPT !.pc = "write", !.outcome = c, !.task = s.task]]
              /\ UNCHANGED <<validate, failures>>
           \* The persona is not available yet.
           \/ /\ c = "ready" /\ Fails
              /\ request' = [request EXCEPT ![q].pc = "write", ![q].outcome = "fail"]
              /\ UNCHANGED validate
           \* regenerateValidationPhrase gives another task.
           \/ /\ c \in {"refresh", "regenerate"}
              /\ \E t \in Unused :
                    /\ validate' = [validate EXCEPT ![t] = "generating"]
                    /\ request' = [request EXCEPT ![q].pc = "write", ![q].outcome = c,
                                                  ![q].task = t]
              /\ UNCHANGED failures
           \* It fails: a late phrase is waited for, a lost one is an error.
           \/ /\ c \in {"refresh", "regenerate"}
              /\ Unused = {} \/ failures < MaxFailures
              /\ failures' = IF Unused = {} THEN failures ELSE failures + 1
              /\ request' = [request EXCEPT ![q] =
                                IF c = "regenerate" THEN Went(q, s)
                                ELSE [@ EXCEPT !.pc = "write", !.outcome = "expire"]]
              /\ UNCHANGED validate
    /\ UNCHANGED <<sample, age, record, uses>>

\* Mutant of Concluded: the provider's status is stored as it is.
ConcludedRaw(c, t, regens) ==
    [sample EXCEPT !.status = IF c = "promote" THEN "wait_validating" ELSE @,
                   !.task = t, !.regens = regens]

\* The fields each conclusion sets in the row as it is now.
Concluded(c, t, regens) ==
    CASE c \in {"fail", "expire"} ->
             [sample EXCEPT !.status = "failed", !.phrase = FALSE, !.stopped = FALSE]
      [] c = "ready" -> [sample EXCEPT !.status = "ready", !.voice = t, !.stopped = FALSE]
      [] c = "cloning" -> [sample EXCEPT !.status = "cloning", !.stopped = FALSE]
      [] c = "promote" -> [sample EXCEPT !.status = "awaiting", !.phrase = TRUE,
                                         !.stopped = FALSE, !.regens = 0]
      [] c = "regenerate" -> [sample EXCEPT !.task = t, !.regens = regens + 1,
                                            !.phrase = FALSE, !.stopped = FALSE]
      [] c = "refresh" -> [sample EXCEPT !.task = t, !.regens = regens + 1, !.phrase = FALSE,
                                         !.status = "preparing", !.stopped = FALSE]

Write(q) ==
    /\ request[q].pc = "write"
    /\ LET c == request[q].outcome
       IN  /\ sample' = Concluded(c, request[q].task, request[q].read.regens)
           /\ age' = 0
           /\ request' = [request EXCEPT ![q] =
                             IF c \in {"regenerate", "refresh", "expire"}
                             THEN [@ EXCEPT !.pc = "sync", !.read = sample', !.outcome = "none"]
                             ELSE Went(q, sample')]
    /\ UNCHANGED <<Provider, uses, failures>>

\* cancelSunoVoiceClone: the task is forgotten.
Stop(q) ==
    /\ request[q].pc = "stop"
    /\ sample' = [NewSample EXCEPT !.status = "failed", !.stopped = TRUE]
    /\ age' = 0
    /\ request' = [request EXCEPT ![q] = IdleRequest]
    /\ UNCHANGED <<Provider, uses, failures>>

\* resolvePersonaVoiceId: the voice of the sample that was read, whose task
\* may have made another one since; the correction is written over the row.
\* reconcileReadySunoVoiceSample gives up a voice the provider no longer has,
\* prepareSunoVoiceClone starts anew.
Persona(q) ==
    /\ request[q].pc = "persona"
    /\ LET s == request[q].read
           corrected == s.task # NoTask /\ s.task # s.voice /\ record[s.task] = "voice"
       IN  \/ /\ sample' = IF corrected
                           THEN [sample EXCEPT !.status = "ready", !.voice = s.task,
                                               !.stopped = FALSE]
                           ELSE sample
              /\ request' = [request EXCEPT ![q] = IdleRequest]
              /\ UNCHANGED failures
           \/ /\ Fails /\ request[q].kind = "poll"
              /\ sample' = [sample EXCEPT !.status = "failed", !.voice = NoTask,
                                          !.phrase = FALSE, !.stopped = FALSE]
              /\ request' = [request EXCEPT ![q] = IdleRequest]
           \/ /\ Fails /\ request[q].kind = "prepare"
              /\ sample' = NewSample
              /\ request' = [request EXCEPT ![q] = [IdleRequest EXCEPT !.pc = "claim"]]
    /\ age' = IF sample' = sample THEN age ELSE 0
    /\ UNCHANGED <<Provider, uses>>

\* A restart: a ready voice that is available is answered, else the sample is
\* reset.
Check(q) ==
    /\ request[q].pc = "check"
    /\ \/ /\ request[q].read.status = "ready"
          /\ request' = [request EXCEPT ![q] = IdleRequest]
          /\ UNCHANGED <<sample, age, failures>>
       \/ /\ IF request[q].read.status = "ready" THEN Fails ELSE UNCHANGED failures
          /\ sample' = NewSample /\ age' = 0
          /\ request' = [request EXCEPT ![q] = [IdleRequest EXCEPT !.pc = "claim"]]
    /\ UNCHANGED <<Provider, uses>>

\* claimVoiceClonePrepare
Claim(q) ==
    /\ request[q].pc = "claim"
    /\ IF sample.status = "pending" /\ sample.task = NoTask
       THEN /\ sample' = [sample EXCEPT !.status = "preparing", !.stopped = FALSE]
            /\ age' = 0
            /\ request' = [request EXCEPT ![q].pc = "upload"]
       ELSE /\ request' = [request EXCEPT ![q] =
                              IF CanSync(sample) /\ sample.status # "failed"
                              THEN [IdleRequest EXCEPT !.pc = "sync", !.read = sample]
                              ELSE IdleRequest]
            /\ UNCHANGED <<sample, age>>
    /\ UNCHANGED <<Provider, uses, failures>>

\* The sample is uploaded, and a validation phrase asked for.
Upload(q) ==
    /\ request[q].pc = "upload"
    /\ \/ /\ \E t \in Unused :
                /\ validate' = [validate EXCEPT ![t] = "generating"]
                /\ request' = [request EXCEPT ![q].pc = "save", ![q].task = t]
          /\ UNCHANGED failures
       \/ /\ Unused = {} \/ failures < MaxFailures
          /\ failures' = IF Unused = {} THEN failures ELSE failures + 1
          /\ request' = [request EXCEPT ![q].pc = "release"]
          /\ UNCHANGED validate
    /\ UNCHANGED <<sample, age, record, uses>>

SaveTask(q) ==
    /\ request[q].pc = "save"
    /\ sample' = [NewSample EXCEPT !.status = "preparing", !.task = request[q].task]
    /\ age' = 0
    /\ request' = [request EXCEPT ![q] = [IdleRequest EXCEPT !.pc = "sync",
                                            !.kind = "prepare", !.read = sample']]
    /\ UNCHANGED <<Provider, uses, failures>>

\* releaseVoiceClonePrepareClaim, and then markPrepareFailed.
Release(q) ==
    /\ request[q].pc = "release"
    /\ sample' = IF sample.status = "preparing" /\ sample.task = NoTask
                 THEN [sample EXCEPT !.status = "pending", !.stopped = FALSE] ELSE sample
    /\ age' = IF sample' = sample THEN age ELSE 0
    /\ request' = [request EXCEPT ![q].pc = "giveup"]
    /\ UNCHANGED <<Provider, uses, failures>>

GiveUp(q) ==
    /\ request[q].pc = "giveup"
    /\ sample' = [sample EXCEPT !.status = "failed", !.stopped = FALSE]
    /\ age' = 0
    /\ request' = [request EXCEPT ![q] = IdleRequest]
    /\ UNCHANGED <<Provider, uses, failures>>

\* submitSunoVoiceVerification: the recording goes to the task that was read.
\* The provider refuses a task that has been used, or says the phrase expired.
Submit(q) ==
    /\ request[q].pc = "submit"
    /\ LET used == request[q].read.task
       IN  \/ /\ validate[used] \in {"asking", "silent"}
              /\ \E t \in Unused :
                    /\ validate' = [validate EXCEPT ![used] = "success", ![t] = "success"]
                    /\ record' = [record EXCEPT ![t] = "pending"]
                    /\ request' = [request EXCEPT ![q].pc = "submitted", ![q].task = t]
           \/ /\ request' = [request EXCEPT ![q] = IdleRequest]
              /\ UNCHANGED Provider
           \/ /\ request' = [request EXCEPT ![q].pc = "write", ![q].outcome = "fail",
                                            ![q].kind = "poll"]
              /\ UNCHANGED Provider
    /\ UNCHANGED <<sample, age, uses, failures>>

SaveVoiceTask(q) ==
    /\ request[q].pc = "submitted"
    /\ sample' = [sample EXCEPT !.status = "cloning", !.task = request[q].task,
                                !.stopped = FALSE]
    /\ age' = 0
    /\ request' = [request EXCEPT ![q] = [IdleRequest EXCEPT !.pc = "sync", !.read = sample']]
    /\ UNCHANGED <<Provider, uses, failures>>

\* The API process dies, or the provider's or the database's answer is lost.
Dies(q) ==
    /\ request[q].pc # "idle" /\ Fails
    /\ request' = [request EXCEPT ![q] = IdleRequest]
    /\ UNCHANGED <<sample, age, Provider, uses>>

\* The first synchronisation after the phrase was asked for throws.
Throws(q) ==
    /\ request[q].kind = "prepare" /\ request[q].pc \in {"sync", "write"} /\ Fails
    /\ request' = [request EXCEPT ![q] = [IdleRequest EXCEPT !.pc = "release"]]
    /\ UNCHANGED <<sample, age, Provider, uses>>

Goes(q) ==
    \/ Sync(q) \/ Write(q) \/ Stop(q) \/ Persona(q) \/ Check(q) \/ Claim(q) \/ Upload(q)
    \/ SaveTask(q) \/ Release(q) \/ GiveUp(q) \/ Submit(q) \/ SaveVoiceTask(q)

Next ==
    \/ \E q \in Requests : \/ StartPoll(q) \/ StartPrepare(q) \/ StartRestart(q)
                           \/ StartCancel(q) \/ StartSubmit(q)
                           \/ Goes(q) \/ Throws(q) \/ Dies(q)
    \/ \E t \in Tasks : ValidateMoves(t) \/ VoiceMoves(t)
    \/ Ages

Spec == Init /\ [][Next]_vars

\* Requests go on and time passes.  Polls are not owed: those of the page end
\* after 120, at an error and at a failed sample, and no worker looks.
Fairness ==
    /\ \A q \in Requests : WF_vars(Goes(q))
    /\ WF_vars(Ages)

FairSpec == Spec /\ Fairness

-----------------------------------------------------------------------------
Statuses == {"pending", "preparing", "awaiting", "cloning", "ready", "failed"}
TaskIds == Tasks \cup {NoTask}

Samples == [status : Statuses, task : TaskIds, phrase : BOOLEAN, voice : TaskIds,
            stopped : BOOLEAN, regens : 0 .. MaxRegens]

Outcomes == {"none", "fail", "expire", "ready", "cloning", "promote", "refresh", "regenerate"}

TypeOK ==
    /\ sample \in Samples /\ age \in 0 .. 2
    /\ validate \in [Tasks -> {"none", "generating", "asking", "silent", "success", "failed"}]
    /\ record \in [Tasks -> {"none", "pending", "voice", "failed"}]
    /\ request \in [Requests ->
          [pc : {"idle", "sync", "write", "stop", "persona", "check", "claim", "upload",
                 "save", "release", "giveup", "submit", "submitted"},
           kind : {"poll", "prepare", "restart", "cancel", "submit"}, read : Samples,
           outcome : Outcomes, task : TaskIds]]
    /\ uses \in 0 .. MaxUses /\ failures \in 0 .. MaxFailures

\* A sample that is ready has a voice, and one the provider says it has made:
\* whatever requests that read the sample before wrote since.
ReadyHasVoice ==
    sample.status = "ready" => sample.voice # NoTask /\ record[sample.voice] = "voice"

\* The user keeps coming back: where the polls of the page have ended, it is
\* opened again, with whatever status the sample has.
LookedAt == \A q \in Pages : WF_vars(StartPoll(q))

\* A sample with a task that is looked at does not wait for ever, for a phrase
\* or for a voice: it gets it, times out, or is given another task.
CloneEnds ==
    LookedAt =>
        ((sample.status \in {"preparing", "cloning"} /\ sample.task # NoTask)
            ~> (sample.status \notin {"preparing", "cloning"} \/ sample.task = NoTask))

\* Once the provider has made the voice of the sample's task, the sample that is
\* looked at ends up ready and stays so, although late requests write failures
\* over it.
VoiceIsFound ==
    LookedAt =>
        (<>[](sample.task # NoTask /\ record[sample.task] = "voice")
            => <>[](sample.status = "ready"))
=============================================================================
