--------------------------- MODULE TrackPersistence ---------------------------
(***************************************************************************)
(* One track of a generated song on its way from the provider's address to *)
(* the application's storage: the row that callbacks and polls upsert, the *)
(* persistence job, the workers that download and upload, the reconciler,  *)
(* and the user who deletes the track.                                     *)
(*                                                                         *)
(* A step is one database statement, one call of the queue or one transfer.*)
(* Only the claim is conditional: every other write goes by the track's id.*)
(***************************************************************************)
EXTENDS Integers

CONSTANTS
    Workers,      \* slots that run the job; a slot whose lock expired goes on
    Upserts,      \* callbacks and polls under way
    NoWorker,
    MaxTries,     \* attempts of a job
    MaxCallbacks, \* bound: callbacks and polls that bring the track
    MaxFailures   \* bound: transfers and statements that fail, processes that die

ASSUME TrackAssumption == MaxTries \in Nat /\ MaxCallbacks \in Nat /\ MaxFailures \in Nat

VARIABLES
    provider,  \* "suno" or "mureka"
    row,       \* MusicGenerationTrack
    stale,     \* its heartbeat is older than the limit
    object,    \* the audio is in storage under the track's key
    job,       \* the track's job: state, owner of the lock, attempts made
    worker,    \* pc of each slot
    upsert,    \* each callback: pc and the row it read
    eraser,    \* deleteMusicGenerationTrack: pc
    callbacks, failures

vars == <<provider, row, stale, object, job, worker, upsert, eraser, callbacks, failures>>

NoTrack == [state |-> "absent", key |-> FALSE, url |-> FALSE]
NoJob == [state |-> "absent", owner |-> NoWorker, tries |-> 0]
NewJob == [NoJob EXCEPT !.state = "waiting"]
IdleUpsert == [pc |-> "idle", read |-> NoTrack]

Init ==
    /\ provider \in {"suno", "mureka"}
    /\ row = NoTrack /\ stale = FALSE /\ object = FALSE
    /\ job = NoJob
    /\ worker = [w \in Workers |-> "idle"]
    /\ upsert = [u \in Upserts |-> IdleUpsert]
    /\ eraser = "idle"
    /\ callbacks = 0 /\ failures = 0

Exists == row.state \notin {"absent", "deleted"}

MayFail == failures < MaxFailures
Fails == MayFail /\ failures' = failures + 1

-----------------------------------------------------------------------------
(* The queue *)

\* The API's enqueue: add, which does nothing if the queue has the job's id,
\* be it a finished one.
Added == IF job.state = "absent" THEN NewJob ELSE job

\* The worker's enqueue: a finished job is removed first.
Replaced == IF job.state \in {"absent", "done"} THEN NewJob ELSE job

\* removeOnComplete, removeOnFail: the oldest finished jobs are dropped.
EvictJob ==
    /\ job.state = "done"
    /\ job' = NoJob
    /\ UNCHANGED <<provider, row, stale, object, worker, upsert, eraser, callbacks, failures>>

-----------------------------------------------------------------------------
(* upsertTracksAndEnqueuePersistence (Suno: callbacks, status polls) *)

ReadTrack(u) ==
    /\ provider = "suno" /\ upsert[u].pc = "idle"
    /\ callbacks < MaxCallbacks /\ callbacks' = callbacks + 1
    /\ row.state # "deleted"
    /\ upsert' = [upsert EXCEPT ![u] = [pc |-> "write", read |-> row]]
    /\ UNCHANGED <<provider, row, stale, object, job, worker, eraser, failures>>

\* shouldSkipTrackOnDuplicateCallback: a transition that was a noop, and the
\* same metadata.
Skip(u) ==
    /\ upsert[u].pc = "write"
    /\ upsert[u].read.state \in {"pending", "processing", "stored"}
    /\ upsert' = [upsert EXCEPT ![u] = IdleUpsert]
    /\ UNCHANGED <<provider, row, stale, object, job, worker, eraser, callbacks, failures>>

\* What the update leaves of the row: it resets the state unless the row that
\* was read had its audio, or was being worked on.
Reset(read, hasUrl) ==
    IF read.key \/ ~hasUrl THEN row.state
    ELSE IF read.state = "processing" THEN "processing" ELSE "pending"

\* A track the user has deleted comes back as another one, with another id.
WriteTrack(u) ==
    /\ upsert[u].pc = "write"
    /\ \E hasUrl \in BOOLEAN :
          row' = IF row.state = "deleted" THEN row
                 ELSE IF row.state = "absent"
                 THEN [NoTrack EXCEPT !.url = hasUrl,
                                      !.state = IF hasUrl THEN "pending" ELSE "failed"]
                 ELSE [row EXCEPT !.url = @ \/ hasUrl,
                                  !.state = Reset(upsert[u].read, hasUrl)]
    /\ upsert' = [upsert EXCEPT ![u] =
                     IF row'.url /\ ~row'.key /\ row'.state \notin {"stored", "deleted"}
                     THEN [@ EXCEPT !.pc = "enqueue"] ELSE IdleUpsert]
    /\ UNCHANGED <<provider, stale, object, job, worker, eraser, callbacks, failures>>

\* An error of the queue is swallowed: the reconciler will find the track.
EnqueueTrack(u) ==
    /\ upsert[u].pc = "enqueue"
    /\ \/ job' = Added /\ UNCHANGED failures
       \/ Fails /\ UNCHANGED job
    /\ upsert' = [upsert EXCEPT ![u] = IdleUpsert]
    /\ UNCHANGED <<provider, row, stale, object, worker, eraser, callbacks>>

-----------------------------------------------------------------------------
(* upsertMurekaTracksAndEnqueue: nothing is read, and the state always reset *)

MurekaUpsert(u) ==
    /\ provider = "mureka" /\ upsert[u].pc = "idle"
    /\ callbacks < MaxCallbacks /\ callbacks' = callbacks + 1
    /\ row.state # "deleted"
    /\ row' = [row EXCEPT !.state = "pending", !.url = TRUE]
    /\ upsert' = [upsert EXCEPT ![u].pc = "queue"]
    /\ UNCHANGED <<provider, stale, object, job, worker, eraser, failures>>

MurekaEnqueue(u) ==
    /\ upsert[u].pc = "queue"
    /\ \/ job' = Replaced /\ UNCHANGED failures
       \/ Fails /\ UNCHANGED job
    /\ upsert' = [upsert EXCEPT ![u] = IdleUpsert]
    /\ UNCHANGED <<provider, row, stale, object, worker, eraser, callbacks>>

-----------------------------------------------------------------------------
(* processPersistMusicTrack *)

\* The end of an execution.  One that lost its lock no longer owns the job.
Finish(w, ok) ==
    /\ worker' = [worker EXCEPT ![w] = "idle"]
    /\ job' = IF job.owner # w THEN job
              ELSE IF ok \/ job.tries + 1 >= MaxTries THEN [NoJob EXCEPT !.state = "done"]
              ELSE [state |-> "waiting", owner |-> NoWorker, tries |-> job.tries + 1]

Goto(w, pc) ==
    /\ worker' = [worker EXCEPT ![w] = pc]
    /\ UNCHANGED job

Take(w) ==
    /\ worker[w] = "idle" /\ job.state = "waiting"
    /\ worker' = [worker EXCEPT ![w] = "read"]
    /\ job' = [job EXCEPT !.state = "active", !.owner = w]
    /\ UNCHANGED <<provider, row, stale, object, upsert, eraser, callbacks, failures>>

\* A track that is gone or has its audio is done with; one without an address
\* has failed.
Read(w) ==
    /\ worker[w] = "read"
    /\ IF ~Exists \/ row.key \/ row.state = "stored"
       THEN /\ row' = IF Exists /\ row.key THEN [row EXCEPT !.state = "stored"] ELSE row
            /\ Finish(w, TRUE)
       ELSE IF ~row.url
       THEN row' = [row EXCEPT !.state = "failed"] /\ Finish(w, TRUE)
       ELSE UNCHANGED row /\ Goto(w, "claim")
    /\ UNCHANGED <<provider, stale, object, upsert, eraser, callbacks, failures>>

\* claimTrackForPersistence: a pending track, or one whose heartbeat stopped.
Claimable ==
    /\ ~row.key
    /\ \/ row.state = "pending" /\ row.url
       \/ row.state = "processing" /\ stale

Claim(w) ==
    /\ worker[w] = "claim"
    /\ IF Claimable
       THEN row' = [row EXCEPT !.state = "processing"] /\ stale' = FALSE /\ Goto(w, "download")
       ELSE UNCHANGED <<row, stale>> /\ Finish(w, TRUE)
    /\ UNCHANGED <<provider, object, upsert, eraser, callbacks, failures>>

\* The heartbeat is touched around the transfers, if the last one is old enough.
Touched == stale' \in {stale, FALSE}

\* An error is final ("gone": 404 after the grace period, a bad answer), or
\* the job shall try again.
Download(w) ==
    /\ worker[w] = "download"
    /\ Touched
    /\ \/ Goto(w, "upload") /\ UNCHANGED failures
       \/ Fails /\ \E pc \in {"again", "gone"} : Goto(w, pc)
    /\ UNCHANGED <<provider, row, object, upsert, eraser, callbacks>>

\* Mutant of AfterUpload: the error of the upload is not looked at.
SaveAnyway(ok) == IF ok THEN "save" ELSE "save"

\* The upload's outcome: storage may have the audio although the call failed.
AfterUpload(ok) == IF ok THEN "save" ELSE "again"

Upload(w) ==
    /\ worker[w] = "upload"
    /\ Touched
    /\ \/ object' = TRUE /\ Goto(w, AfterUpload(TRUE)) /\ UNCHANGED failures
       \/ Fails /\ object' \in {object, TRUE} /\ Goto(w, AfterUpload(FALSE))
    /\ UNCHANGED <<provider, row, upsert, eraser, callbacks>>

\* The key and the state, unless the row is gone or the statement fails.
Save(w) ==
    /\ worker[w] = "save"
    /\ \/ /\ Exists
          /\ row' = [row EXCEPT !.state = "stored", !.key = TRUE]
          /\ stale' = FALSE
          /\ Finish(w, TRUE) /\ UNCHANGED failures
       \/ /\ ~Exists
          /\ UNCHANGED <<row, stale, failures>> /\ Finish(w, FALSE)
       \/ Fails /\ UNCHANGED <<row, stale>> /\ Goto(w, "again")
    /\ UNCHANGED <<provider, object, upsert, eraser, callbacks>>

\* The update that precedes the throw; after the upload its error is dropped.
WriteAgain(w) ==
    /\ worker[w] = "again"
    /\ row' = IF Exists THEN [row EXCEPT !.state = "pending"] ELSE row
    /\ stale' = FALSE
    /\ Finish(w, FALSE)
    /\ UNCHANGED <<provider, object, upsert, eraser, callbacks, failures>>

\* markFailed
MarkFailed(w) ==
    /\ worker[w] = "gone"
    /\ row' = IF Exists THEN [row EXCEPT !.state = "failed"] ELSE row
    /\ stale' = FALSE
    /\ Finish(w, Exists)
    /\ UNCHANGED <<provider, object, upsert, eraser, callbacks, failures>>

\* The lock expires, because the process is dead or only slow: the job goes
\* to another slot.
LockExpires(w) ==
    /\ worker[w] # "idle" /\ job.owner = w
    /\ Fails
    /\ job' = [job EXCEPT !.state = "waiting", !.owner = NoWorker]
    /\ worker' \in {worker, [worker EXCEPT ![w] = "idle"]}
    /\ UNCHANGED <<provider, row, stale, object, upsert, eraser, callbacks>>

\* Time passes without a heartbeat.
HeartbeatAges ==
    /\ row.state = "processing" /\ ~stale
    /\ stale' = TRUE
    /\ UNCHANGED <<provider, row, object, job, worker, upsert, eraser, callbacks, failures>>

-----------------------------------------------------------------------------
(* The reconciler, and the status request of a completed song *)

\* Mutant of Reconcilable: claims whose worker died are not looked for.
OnlyPending == ~row.key /\ row.url /\ row.state = "pending"

Reconcilable ==
    /\ ~row.key /\ row.url
    /\ row.state = "pending" \/ (row.state = "processing" /\ stale)

Reconcile ==
    /\ Reconcilable
    /\ job' = Replaced /\ job' # job
    /\ UNCHANGED <<provider, row, stale, object, worker, upsert, eraser, callbacks, failures>>

\* enqueuePendingTrackPersistence
StatusRequest ==
    /\ ~row.key /\ row.url /\ row.state \in {"pending", "processing"}
    /\ job' = Added /\ job' # job
    /\ UNCHANGED <<provider, row, stale, object, worker, upsert, eraser, callbacks, failures>>

-----------------------------------------------------------------------------
(* deleteMusicGenerationTrack, deleteMusicGenerations: the file under the key  *)
(* that was read, then the row.                                              *)

ReadKey ==
    /\ eraser = "idle" /\ Exists
    /\ eraser' = IF row.key THEN "file" ELSE "row"
    /\ UNCHANGED <<provider, row, stale, object, job, worker, upsert, callbacks, failures>>

DeleteFile ==
    /\ eraser = "file"
    /\ \/ object' = FALSE /\ eraser' = "row" /\ UNCHANGED failures
       \/ Fails /\ eraser' = "idle" /\ UNCHANGED object
    /\ UNCHANGED <<provider, row, stale, job, worker, upsert, callbacks>>

DeleteRow ==
    /\ eraser = "row"
    /\ \/ /\ row' = [NoTrack EXCEPT !.state = "deleted"] /\ eraser' = "done"
          /\ UNCHANGED failures
       \/ Fails /\ eraser' = "broken" /\ UNCHANGED row
    /\ UNCHANGED <<provider, stale, object, job, worker, upsert, callbacks>>

Work(w) ==
    \/ Take(w) \/ Read(w) \/ Claim(w) \/ Download(w) \/ Upload(w) \/ Save(w)
    \/ WriteAgain(w) \/ MarkFailed(w)

Next ==
    \/ \E u \in Upserts : \/ ReadTrack(u) \/ Skip(u) \/ WriteTrack(u) \/ EnqueueTrack(u)
                          \/ MurekaUpsert(u) \/ MurekaEnqueue(u)
    \/ \E w \in Workers : Work(w) \/ LockExpires(w)
    \/ HeartbeatAges \/ EvictJob \/ Reconcile \/ StatusRequest
    \/ ReadKey \/ DeleteFile \/ DeleteRow

Spec == Init /\ [][Next]_vars

\* Slots work, the reconciler's timer fires, and time passes.
Fairness ==
    /\ \A w \in Workers : WF_vars(Work(w))
    /\ WF_vars(Reconcile) /\ WF_vars(HeartbeatAges)

FairSpec == Spec /\ Fairness

-----------------------------------------------------------------------------
Tracks == [state : {"absent", "pending", "processing", "stored", "failed", "deleted"},
           key : BOOLEAN, url : BOOLEAN]

TypeOK ==
    /\ provider \in {"suno", "mureka"}
    /\ row \in Tracks /\ stale \in BOOLEAN /\ object \in BOOLEAN
    /\ job \in [state : {"absent", "waiting", "active", "done"},
                owner : Workers \cup {NoWorker}, tries : 0 .. MaxTries]
    /\ worker \in [Workers -> {"idle", "read", "claim", "download", "upload", "save",
                               "again", "gone"}]
    /\ upsert \in [Upserts -> [pc : {"idle", "write", "enqueue", "queue"}, read : Tracks]]
    /\ eraser \in {"idle", "file", "row", "done", "broken"}
    /\ callbacks \in 0 .. MaxCallbacks /\ failures \in 0 .. MaxFailures

\* A track that has a key has its audio, whichever worker wrote the key after
\* whichever takeover, unless its deletion has begun.
KeyHasObject == row.key => object \/ eraser \in {"row", "done", "broken"}

\* A track with an address is not left in between: its audio is kept, or it
\* fails, although workers die, lose their locks and overwrite each other.
AudioIsDecided ==
    (row.url /\ row.state \in {"pending", "processing"})
        ~> (row.key \/ row.state \in {"failed", "deleted"})
=============================================================================
