------------------------------- MODULE LyricsText -------------------------------
(***************************************************************************)
(* A text for a song, written by Suno: the request pays, starts a task and *)
(* stores it; the client's polls ask the provider, moderate what it wrote, *)
(* overwrite the record with what they conclude, and give the credit back  *)
(* when the text failed or may not be shown.                               *)
(*                                                                         *)
(* A step is one statement, one ledger call or one call of the provider.   *)
(***************************************************************************)
EXTENDS Integers

CONSTANTS
    Polls,     \* status requests under way at the same time
    MaxLosses, \* bound: faults
    Faults     \* subset of FaultKinds

FaultKinds ==
    {"api_crash",    \* the process dies between two steps
     "db_error",     \* the record is not stored
     "refund_error"} \* a refund throws, which is swallowed

VARIABLES
    maker,  \* pc of generateLyricsForUser
    spend, refund, \* ledger rows under the keys of this request's id
    task,   \* at the provider; "unfit" is a text that moderation refuses
    rec,    \* status of the MusicGeneration row
    shown,  \* the client has been given the text
    poll,   \* each status request: pc, what the provider said
    losses

vars == <<maker, spend, refund, task, rec, shown, poll, losses>>

NoPoll == [pc |-> "idle", saw |-> "none"]

Init ==
    /\ maker = "idle" /\ spend = FALSE /\ refund = FALSE
    /\ task = "none" /\ rec = "absent" /\ shown = FALSE
    /\ poll = [p \in Polls |-> NoPoll] /\ losses = 0

Loses(fault) ==
    fault \in Faults /\ losses < MaxLosses /\ losses' = losses + 1

-----------------------------------------------------------------------------
(* generateLyricsForUser *)

SpendText ==
    /\ maker = "idle"
    /\ \/ maker' = "submit" /\ spend' = TRUE
       \/ maker' = "done" /\ spend' = FALSE \* insufficient credits: throws
    /\ UNCHANGED <<refund, task, rec, shown, poll, losses>>

\* generateLyrics; when it throws, a task may have been started all the same.
Submit ==
    /\ maker = "submit"
    /\ \/ maker' = "save" /\ task' = "running"
       \/ maker' = "refund" /\ task' \in {"none", "running"}
    /\ UNCHANGED <<spend, refund, rec, shown, poll, losses>>

\* createMusicGenerationRecord; the client learns the task.
SaveRecord ==
    /\ maker = "save"
    /\ \/ maker' = "answered" /\ rec' = "pending" /\ UNCHANGED losses
       \/ Loses("db_error") /\ maker' = "refund" /\ UNCHANGED rec
    /\ UNCHANGED <<spend, refund, task, shown, poll>>

\* refundOriginalSpend(...).catch(() => undefined)
RefundOrSwallow ==
    \/ refund' = spend /\ UNCHANGED losses
    \/ Loses("refund_error") /\ UNCHANGED refund

RefundRequest ==
    /\ maker = "refund"
    /\ maker' = "done"
    /\ RefundOrSwallow
    /\ UNCHANGED <<spend, task, rec, shown, poll>>

RequestDies ==
    /\ maker \in {"submit", "save", "refund"} /\ Loses("api_crash")
    /\ maker' = "done"
    /\ UNCHANGED <<spend, refund, task, rec, shown, poll>>

-----------------------------------------------------------------------------
(* getLyricsGenerationStatus *)

TaskEnds ==
    /\ task = "running"
    /\ task' \in {"complete", "unfit", "error"}
    /\ UNCHANGED <<maker, spend, refund, rec, shown, poll, losses>>

\* The provider is asked; the client does so until it has seen an end.
Query(p) ==
    /\ maker = "answered" /\ ~shown
    /\ poll[p].pc = "idle"
    /\ poll' = [poll EXCEPT ![p] = [pc |-> "write", saw |-> task]]
    /\ UNCHANGED <<maker, spend, refund, task, rec, shown, losses>>

\* Moderation makes a failure of a completed text.
FinalStatus(saw) ==
    CASE saw = "running" -> "processing"
      [] saw = "complete" -> "completed"
      [] saw \in {"unfit", "error"} -> "failed"

AfterWriteEager(status) == IF status # "completed" THEN "refund" ELSE "answer" \* mutant of AfterWrite
AfterWrite(status) == IF status = "failed" THEN "refund" ELSE "answer"

\* The update is by id: it does not look at what is there.
WriteStatus(p) ==
    /\ poll[p].pc = "write"
    /\ rec' = FinalStatus(poll[p].saw)
    /\ poll' = [poll EXCEPT ![p].pc = AfterWrite(rec')]
    /\ UNCHANGED <<maker, spend, refund, task, shown, losses>>

RefundPoll(p) ==
    /\ poll[p].pc = "refund"
    /\ poll' = [poll EXCEPT ![p].pc = "answer"]
    /\ RefundOrSwallow
    /\ UNCHANGED <<maker, spend, task, rec, shown>>

Answer(p) ==
    /\ poll[p].pc = "answer"
    /\ poll' = [poll EXCEPT ![p] = NoPoll]
    /\ shown' = (shown \/ FinalStatus(poll[p].saw) = "completed")
    /\ maker' = IF FinalStatus(poll[p].saw) = "failed" THEN "done" ELSE maker
    /\ UNCHANGED <<spend, refund, task, rec, losses>>

PollDies(p) ==
    /\ poll[p].pc # "idle" /\ Loses("api_crash")
    /\ poll' = [poll EXCEPT ![p] = NoPoll]
    /\ UNCHANGED <<maker, spend, refund, task, rec, shown>>

-----------------------------------------------------------------------------
Makes == SpendText \/ Submit \/ SaveRecord \/ RefundRequest

Polling(p) == WriteStatus(p) \/ RefundPoll(p) \/ Answer(p)

Next ==
    \/ Makes \/ RequestDies \/ TaskEnds
    \/ \E p \in Polls : Query(p) \/ Polling(p) \/ PollDies(p)

Spec == Init /\ [][Next]_vars

\* Requests go on, the provider ends its tasks, and the page polls.
Fairness ==
    /\ WF_vars(Makes /\ maker # "idle") /\ WF_vars(TaskEnds)
    /\ \A p \in Polls : WF_vars(Query(p)) /\ WF_vars(Polling(p))

FairSpec == Spec /\ Fairness

-----------------------------------------------------------------------------
TypeOK ==
    /\ maker \in {"idle", "submit", "save", "answered", "refund", "done"}
    /\ spend \in BOOLEAN /\ refund \in BOOLEAN /\ shown \in BOOLEAN
    /\ task \in {"none", "running", "complete", "unfit", "error"}
    /\ rec \in {"absent", "pending", "processing", "completed", "failed"}
    /\ poll \in [Polls ->
          [pc : {"idle", "write", "refund", "answer"},
           saw : {"none", "running", "complete", "unfit", "error"}]]
    /\ losses \in 0 .. MaxLosses

\* A text that was paid is shown or given back, and never both, for good,
\* whatever polls overlap, unless a process dies or a statement fails.
PaidIsSettled == spend ~> [](shown # refund \/ losses > 0)
=============================================================================
