----------------------------- MODULE StemSeparation -----------------------------
(***************************************************************************)
(* The music editor separates a song into vocal and instrumental.  A click *)
(* claims the song, charges once per song, and starts a task at the        *)
(* provider; the polls of the editor page fetch the result, or put the     *)
(* original audio in its place and give the credits back.  A retry of a    *)
(* separation that failed is free.                                         *)
(*                                                                         *)
(* A step is one statement on the song, or one provider call with what is  *)
(* concluded from it.                                                      *)
(***************************************************************************)
EXTENDS Integers

CONSTANTS
    Tasks,      \* ids the provider gives out
    NoTask,
    Slots,      \* requests under way at the same time
    MaxClicks,  \* bound: clicks on separate
    MaxRetries, \* bound: clicks on retry
    MaxFailures \* bound: calls and statements that fail, API processes that die

VARIABLES
    song,     \* status, task, notice, what is stored for each stem, and whether the
              \* original audio is (audioStorageKey)
    late,     \* the song has not been written for five minutes
    provider, \* state of each task
    spend,    \* the ledger: none, spent, refunded
    slot,     \* each request: where it is, the task it read, if it charged
    forsaken, \* a charge was left behind by a fault that nothing repairs
    clicks, retries, failures

vars == <<song, late, provider, spend, slot, forsaken, clicks, retries, failures>>

Counters == <<clicks, retries>>

Stems == {"vocal", "instrumental"}
NoStems == [k \in Stems |-> "none"]
Stored(s) == {k \in Stems : s.stems[k] # "none"}

IdleSlot == [pc |-> "idle", task |-> NoTask, audio |-> "none", charged |-> FALSE]

\* A track whose audio has not been stored has a song all the same.
Init ==
    /\ \E original \in BOOLEAN :
          song = [status |-> "ready", task |-> NoTask, notice |-> FALSE, stems |-> NoStems,
                  original |-> original]
    /\ late = FALSE
    /\ provider = [t \in Tasks |-> "none"]
    /\ spend = "none"
    /\ slot = [q \in Slots |-> IdleSlot]
    /\ forsaken = FALSE
    /\ clicks = 0 /\ retries = 0 /\ failures = 0

Goto(q, pc) == slot' = [slot EXCEPT ![q].pc = pc]
End(q) == slot' = [slot EXCEPT ![q] = IdleSlot]

\* Every write of the song moves updatedAt.
Set(s) == song' = s /\ late' = FALSE
Keep == UNCHANGED <<song, late>>

Fails == failures < MaxFailures /\ failures' = failures + 1

\* The provider works on its tasks; it may answer with one stem, or with none.
ProviderMoves(t) ==
    /\ provider[t] = "processing"
    /\ \E r \in {"both", "vocal_only", "empty", "failed"} : provider' = [provider EXCEPT ![t] = r]
    /\ UNCHANGED <<song, late, spend, slot, forsaken, Counters, failures>>

FiveMinutes ==
    /\ song.status = "separating_stems" /\ ~late /\ late' = TRUE
    /\ UNCHANGED <<song, provider, spend, slot, forsaken, Counters, failures>>

-----------------------------------------------------------------------------
(* Clicks *)

Click(q) ==
    /\ slot[q].pc = "idle" /\ clicks < MaxClicks
    /\ clicks' = clicks + 1
    /\ Goto(q, "kickoff") /\ Keep
    /\ UNCHANGED <<provider, spend, forsaken, retries, failures>>

\* retryStemSeparation: only after a notice.
Retry(q) ==
    /\ slot[q].pc = "idle" /\ retries < MaxRetries
    /\ song.status = "ready" /\ song.notice
    /\ retries' = retries + 1
    /\ Goto(q, "reset")
    /\ Set([song EXCEPT !.stems = NoStems]) /\ UNCHANGED <<provider, spend, forsaken, clicks, failures>>

Reset(q) ==
    /\ slot[q].pc = "reset"
    /\ Set([song EXCEPT !.status = "pending_stems", !.task = NoTask, !.notice = FALSE])
    /\ Goto(q, "kickoff")
    /\ UNCHANGED <<provider, spend, forsaken, Counters, failures>>

\* kickoffStemSeparation, up to the claim: stems that are there, or a task
\* that is known, are not asked for again.
Kickoff(q) ==
    /\ slot[q].pc = "kickoff"
    /\ LET there == Stored(song) = Stems
           known == ~there /\ song.task # NoTask
       IN  /\ IF there \/ known THEN End(q) ELSE Goto(q, "claim")
           /\ IF there /\ song.status # "ready" THEN Set([song EXCEPT !.status = "ready"])
              ELSE IF known /\ song.status = "pending_stems"
              THEN Set([song EXCEPT !.status = "separating_stems"])
              ELSE Keep
    /\ UNCHANGED <<provider, spend, forsaken, Counters, failures>>

Claim(q) ==
    /\ slot[q].pc = "claim"
    /\ IF song.task = NoTask /\ song.status \in {"ready", "pending_stems"}
       THEN /\ Set([song EXCEPT !.status = "separating_stems", !.notice = FALSE])
            /\ Goto(q, "spend")
       ELSE Keep /\ End(q)
    /\ UNCHANGED <<provider, spend, forsaken, Counters, failures>>

\* spendCreditsOnce: a spend that exists, refunded or not, is not repeated.
\* Without credits the request ends here.
Spend(q) ==
    /\ slot[q].pc = "spend"
    /\ \/ /\ spend = "none" /\ spend' = "spent"
          /\ slot' = [slot EXCEPT ![q].pc = "start", ![q].charged = TRUE]
       \/ spend # "none" /\ Goto(q, "start") /\ UNCHANGED spend
       \/ spend = "none" /\ End(q) /\ UNCHANGED spend
    /\ Keep /\ UNCHANGED <<provider, forsaken, Counters, failures>>

\* separateStems; when it throws, the one that charged gives back.
Start(q) ==
    /\ slot[q].pc = "start"
    /\ \/ /\ \E t \in Tasks :
                /\ provider[t] = "none"
                /\ provider' = [provider EXCEPT ![t] = "processing"]
                /\ slot' = [slot EXCEPT ![q].pc = "store", ![q].task = t]
          /\ UNCHANGED failures
       \/ /\ Fails /\ Goto(q, IF slot[q].charged THEN "refund" ELSE "undo")
          /\ UNCHANGED provider
    /\ Keep /\ UNCHANGED <<spend, forsaken, Counters>>

Undo(q) ==
    /\ slot[q].pc = "undo"
    /\ Set([song EXCEPT !.status = "ready", !.task = NoTask])
    /\ End(q)
    /\ UNCHANGED <<provider, spend, forsaken, Counters, failures>>

Store(q) ==
    /\ slot[q].pc = "store"
    /\ Set([song EXCEPT !.status = "separating_stems", !.task = slot[q].task])
    /\ End(q)
    /\ UNCHANGED <<provider, spend, forsaken, Counters, failures>>

-----------------------------------------------------------------------------
(* Polls: the editor page's, and those at the end of a click *)

\* refreshEditorProgress
StartPoll(q) ==
    /\ slot[q].pc = "idle"
    /\ \/ song.status = "separating_stems"
       \/ song.status = "pending_stems" /\ (song.task = NoTask \/ Stored(song) = Stems)
    /\ Goto(q, "poll") /\ Keep
    /\ UNCHANGED <<provider, spend, forsaken, Counters, failures>>

\* Mutant of Concluded: an answer without a stem is waited on.
ConcludedPatiently(t) ==
    IF late /\ song.status = "separating_stems" THEN "none"
    ELSE IF provider[t] = "both" THEN "stem" ELSE "none"

\* tickStemSeparation: what is stored for a task, or nothing yet.
Concluded(t) ==
    IF late /\ song.status = "separating_stems" THEN "original"
    ELSE CASE provider[t] \in {"both", "vocal_only"} -> "stem"
           [] provider[t] \in {"empty", "failed"} -> "original"
           [] OTHER -> "none"

\* tickStemSeparation, which reads the song again.
Poll(q) ==
    /\ slot[q].pc = "poll"
    /\ IF Stored(song) = Stems \/ song.task = NoTask
       THEN IF song.status = "ready" THEN End(q) ELSE Goto(q, "settle")
       ELSE LET audio == Concluded(song.task)
            IN  IF audio = "none" THEN End(q)
                ELSE slot' = [slot EXCEPT ![q] = [IdleSlot EXCEPT
                        !.pc = "vocal", !.audio = audio, !.task = song.task]]
    /\ Keep /\ UNCHANGED <<provider, spend, forsaken, Counters, failures>>

Settle(q) ==
    /\ slot[q].pc = "settle"
    /\ Set([song EXCEPT !.status = "ready"])
    /\ End(q)
    /\ UNCHANGED <<provider, spend, forsaken, Counters, failures>>

\* persistStemResult and persistOriginalAudioAsStems: a stem at a time, over
\* the one that is there.
Upsert(q, kind, next) ==
    /\ slot[q].pc = kind
    /\ slot[q].audio = "original" => song.original
    /\ song' = IF slot[q].audio = "stem" /\ kind = "instrumental"
                  /\ provider[slot[q].task] = "vocal_only"
               THEN song ELSE [song EXCEPT !.stems[kind] = slot[q].audio]
    /\ Goto(q, next)
    /\ UNCHANGED <<late, provider, spend, forsaken, Counters, failures>>

\* There is no original to put in the place of the stems: the poll throws
\* before it gives anything back, and so does every later one.
NoOriginal(q) ==
    /\ slot[q].pc = "vocal" /\ slot[q].audio = "original" /\ ~song.original
    /\ End(q) /\ Keep
    /\ UNCHANGED <<provider, spend, forsaken, Counters, failures>>

Finish(q) ==
    /\ slot[q].pc = "finish"
    /\ Set([song EXCEPT !.status = "ready", !.notice = slot[q].audio = "original"])
    /\ IF slot[q].audio = "original" THEN Goto(q, "refund") ELSE End(q)
    /\ UNCHANGED <<provider, spend, forsaken, Counters, failures>>

\* refundStemSeparation, once: of a poll that gave up on the stems, or of the
\* click whose call failed.  An error is swallowed, and the request goes on.
Refund(q) ==
    /\ slot[q].pc = "refund"
    /\ \/ /\ spend' = IF spend = "spent" THEN "refunded" ELSE spend
          /\ UNCHANGED <<forsaken, failures>>
       \/ Fails /\ forsaken' = TRUE /\ UNCHANGED spend
    /\ IF slot[q].audio = "original" THEN End(q) ELSE Goto(q, "undo")
    /\ Keep /\ UNCHANGED <<provider, Counters>>

\* Where a request that ends leaves a charge that no later one gives back:
\* the song has no task, or is ready, or will be, because both stems are there.
Abandons(q) ==
    \/ slot[q].pc \in {"start", "store", "refund"}
    \/ slot[q].pc = "finish" /\ slot[q].audio = "original"

\* A statement, a download or the storage throws, or the API dies: the request
\* ends where it is.  A spend may have been committed.
Breaks(q) ==
    /\ slot[q].pc # "idle" /\ Fails
    /\ \/ forsaken' = (forsaken \/ Abandons(q)) /\ UNCHANGED spend
       \/ /\ slot[q].pc = "spend" /\ spend = "none"
          /\ spend' = "spent" /\ forsaken' = TRUE
    /\ End(q) /\ Keep
    /\ UNCHANGED <<provider, Counters>>

Goes(q) ==
    \/ Reset(q) \/ Kickoff(q) \/ Claim(q) \/ Spend(q) \/ Start(q) \/ Undo(q) \/ Store(q)
    \/ Poll(q) \/ Settle(q)
    \/ Upsert(q, "vocal", "instrumental") \/ Upsert(q, "instrumental", "finish")
    \/ NoOriginal(q) \/ Finish(q) \/ Refund(q)

Next ==
    \/ \E q \in Slots : Click(q) \/ Retry(q) \/ StartPoll(q) \/ Goes(q) \/ Breaks(q)
    \/ \E t \in Tasks : ProviderMoves(t)
    \/ FiveMinutes

Spec == Init /\ [][Next]_vars

\* Requests go on, and five minutes pass.
Fairness ==
    /\ \A q \in Slots : WF_vars(Goes(q))
    /\ WF_vars(FiveMinutes)

FairSpec == Spec /\ Fairness

-----------------------------------------------------------------------------
TypeOK ==
    /\ song \in [status : {"ready", "pending_stems", "separating_stems"},
                 task : Tasks \cup {NoTask}, notice : BOOLEAN,
                 stems : [Stems -> {"none", "original", "stem"}], original : BOOLEAN]
    /\ late \in BOOLEAN
    /\ provider \in [Tasks -> {"none", "processing", "both", "vocal_only", "empty", "failed"}]
    /\ spend \in {"none", "spent", "refunded"}
    /\ slot \in [Slots ->
          [pc : {"idle", "reset", "kickoff", "claim", "spend", "start", "undo", "store",
                 "poll", "settle", "vocal", "instrumental", "finish", "refund"},
           task : Tasks \cup {NoTask}, audio : {"none", "original", "stem"}, charged : BOOLEAN]]
    /\ forsaken \in BOOLEAN
    /\ clicks \in 0 .. MaxClicks /\ retries \in 0 .. MaxRetries /\ failures \in 0 .. MaxFailures

\* The editor page is open, and polls while the stems are awaited; or the user
\* opens it again.
LookedAt == \A q \in Slots : WF_vars(StartPoll(q))

\* The task is given up on, and there is no original to put in its place.
NothingToPlay ==
    ~song.original /\ (late \/ \E t \in Tasks : provider[t] \in {"empty", "failed"})

\* What was charged for a separation is delivered or given back, when requests
\* do not overlap and the song is looked at: by a poll that gets the stems, by
\* one that gives up on them, or by the click whose call failed, whatever else
\* fails.  It is not where the code forsakes it: a refund whose error is
\* swallowed, a request that ends between the charge and the stored task or
\* between the stored originals and the refund, or no original to store.
ChargedIsSettled ==
    LookedAt => (spend = "spent" ~> \/ spend = "refunded"
                                    \/ \E k \in Stems : song.stems[k] = "stem"
                                    \/ forsaken \/ NothingToPlay)
=============================================================================
