------------------------------ MODULE TimedLyrics ------------------------------
(***************************************************************************)
(* Karaoke for one track: the first request pays one credit, fetches the   *)
(* timed words from Suno and caches them with the track; later ones read   *)
(* the cache, or fetch again for nothing where only lines were cached.     *)
(* All requests share the ledger key of the spend, and there are two keys  *)
(* for giving it back.                                                     *)
(*                                                                         *)
(* A step is one statement, one ledger call or one call of the provider.   *)
(***************************************************************************)
EXTENDS Integers, FiniteSets

CONSTANTS
    Requests,  \* requests under way at the same time
    MaxCalls,  \* bound: requests
    MaxLosses, \* bound: faults
    Faults     \* subset of FaultKinds

FaultKinds ==
    {"api_crash",    \* the process dies between two steps
     "refund_error"} \* a refund throws, which is swallowed

VARIABLES
    cache,   \* timedLyricsJson: "none", "lines", "words"
    spend,   \* the ledger has a row under karaoke_lyrics:<track>:spend
    refunds, \* the ledger's refunds of it: by the keys :refund, :refund:duplicate
    request, \* each slot: pc, whether it is free of charge, what it fetched
    calls, losses

vars == <<cache, spend, refunds, request, calls, losses>>

Idle == [pc |-> "idle", free |-> FALSE, got |-> "none"]

Init ==
    /\ cache = "none" /\ spend = FALSE /\ refunds = {}
    /\ request = [q \in Requests |-> Idle]
    /\ calls = 0 /\ losses = 0

Goto(q, pc) == request' = [request EXCEPT ![q].pc = pc]
End(q) == request' = [request EXCEPT ![q] = Idle]

Loses(fault) ==
    fault \in Faults /\ losses < MaxLosses /\ losses' = losses + 1

\* fetchTimedLyricsForTrack reads the track: cached words are returned.
Ask(q) ==
    /\ request[q].pc = "idle" /\ calls < MaxCalls
    /\ calls' = calls + 1
    /\ request' = IF cache = "words" THEN request
                  ELSE [request EXCEPT ![q].pc = IF cache = "lines" THEN "fresh" ELSE "spend",
                                       ![q].free = cache = "lines"]
    /\ UNCHANGED <<cache, spend, refunds, losses>>

\* spendCredits returns the row that is already there under the key.
Spend(q) ==
    /\ request[q].pc = "spend"
    /\ \/ spend' = TRUE /\ Goto(q, "fresh")
       \/ ~spend /\ End(q) /\ UNCHANGED spend \* insufficient credits: throws
    /\ UNCHANGED <<cache, refunds, calls, losses>>

\* The track is read again: another request may have brought the words.
Reread(q) ==
    /\ request[q].pc = "fresh"
    /\ IF cache # "words" THEN Goto(q, "fetch")
       ELSE IF request[q].free THEN End(q) ELSE Goto(q, "duplicate")
    /\ UNCHANGED <<cache, spend, refunds, calls, losses>>

\* The catch of the request.
FailedSilently(q) == End(q) \* mutant of Failed: the charge is forgotten
Failed(q) == IF request[q].free THEN End(q) ELSE Goto(q, "failed")

\* getTimestampedLyrics: no lines is an error.
Fetch(q) ==
    /\ request[q].pc = "fetch"
    /\ \/ \E got \in {"lines", "words"} :
             request' = [request EXCEPT ![q].pc = "save", ![q].got = got]
       \/ Failed(q)
    /\ UNCHANGED <<cache, spend, refunds, calls, losses>>

Save(q) ==
    /\ request[q].pc = "save"
    /\ \/ cache' = request[q].got /\ End(q)
       \/ Failed(q) /\ UNCHANGED cache
    /\ UNCHANGED <<spend, refunds, calls, losses>>

\* refundOriginalSpend(...).catch(() => undefined), under the key of the case.
\* The ledger refuses a second row for a key, and knows nothing of the other.
Refund(q) ==
    /\ request[q].pc \in {"failed", "duplicate"}
    /\ \/ refunds' = refunds \cup {request[q].pc} /\ UNCHANGED losses
       \/ Loses("refund_error") /\ UNCHANGED refunds
    /\ End(q)
    /\ UNCHANGED <<cache, spend, calls>>

Dies(q) ==
    /\ request[q].pc # "idle" /\ Loses("api_crash")
    /\ End(q)
    /\ UNCHANGED <<cache, spend, refunds, calls>>

Goes(q) == Spend(q) \/ Reread(q) \/ Fetch(q) \/ Save(q) \/ Refund(q)

Next == \E q \in Requests : Ask(q) \/ Goes(q) \/ Dies(q)

Spec == Init /\ [][Next]_vars

\* A request that has begun goes on.
Fairness == \A q \in Requests : WF_vars(Goes(q))

FairSpec == Spec /\ Fairness

-----------------------------------------------------------------------------
TypeOK ==
    /\ cache \in {"none", "lines", "words"} /\ spend \in BOOLEAN
    /\ refunds \subseteq {"failed", "duplicate"}
    /\ request \in [Requests ->
          [pc : {"idle", "spend", "fresh", "fetch", "save", "failed", "duplicate"},
           free : BOOLEAN, got : {"none", "lines", "words"}]]
    /\ calls \in 0 .. MaxCalls /\ losses \in 0 .. MaxLosses

\* What was paid for is there or is given back, however requests for one
\* track overlap, unless a process dies or a refund is swallowed.
PaidIsSettled == spend ~> (cache # "none" \/ refunds # {} \/ losses > 0)

\* docs/security-design.md:20: "Refunds are state-machine driven and
\* idempotent": one spend is given back at most once.
RefundedOnce == Cardinality(refunds) <= 1
=============================================================================
