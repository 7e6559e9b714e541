---------------------------- MODULE GenerateRequest ----------------------------
(***************************************************************************)
(* How the API makes one song of however many requests carry the same      *)
(* idempotency key.  The song and its spend are one transaction, under the *)
(* user's advisory lock, which is only tried: whoever finds it busy gives  *)
(* up its transaction and begins another, until its time budget is used.   *)
(*                                                                         *)
(* A step is one statement.  The transaction reads what is committed       *)
(* (READ COMMITTED), so that what it finds twice may differ.  The unique   *)
(* index on (userId, clientRequestId) is not there: the lock and the       *)
(* second look must do without it.                                         *)
(***************************************************************************)
EXTENDS Integers, FiniteSets

CONSTANTS
    Askers,   \* HTTP requests of one user
    Keys,     \* idempotency keys of the client
    NoKey,    \* the header is missing, which is allowed by default
    Bodies,   \* canonical requests, as their hashes
    Credits   \* songs the user can pay for

ASSUME AskAssumption == Credits \in Nat /\ Bodies # {}

VARIABLES
    credits, \* left
    songs,   \* MusicGeneration rows, committed with their spends
    lock,    \* holder of the advisory lock, {} or one request
    ask      \* each request: pc, key, body, the song it was answered with

askVars == <<credits, songs, lock, ask>>

NoSong == 0
NewAsk == [pc |-> "new", key |-> NoKey, body |-> CHOOSE b \in Bodies : TRUE, got |-> NoSong]

AskInit ==
    /\ credits = Credits /\ songs = {} /\ lock = {}
    /\ ask = [r \in Askers |-> NewAsk]

GoOn(r, pc) == ask' = [ask EXCEPT ![r].pc = pc]

Answered(r, id) ==
    ask' = [ask EXCEPT ![r].pc = "answered", ![r].got = id]

Named(key) == IF key = NoKey THEN {} ELSE {s \in songs : s.key = key}

\* findIdempotentMusicGeneration: the song of the key is the answer, or a
\* conflict where the body was another; without one the request goes on.
FoundOr(r, pc) ==
    LET named == Named(ask[r].key)
    IN  IF named = {} THEN GoOn(r, pc)
        ELSE \E s \in named :
                IF s.body = ask[r].body THEN Answered(r, s.id) ELSE GoOn(r, "refused")

Unlock(r) == lock' = lock \ {r}

Ask(r) ==
    /\ ask[r].pc = "new"
    /\ \E key \in Keys \cup {NoKey}, body \in Bodies :
          ask' = [ask EXCEPT ![r] = [@ EXCEPT !.pc = "find", !.key = key, !.body = body]]
    /\ UNCHANGED <<credits, songs, lock>>

\* Before the transaction; moderation, the plan and the voice may refuse.
Find(r) ==
    /\ ask[r].pc = "find"
    /\ \/ FoundOr(r, "begin")
       \/ Named(ask[r].key) = {} /\ GoOn(r, "refused")
    /\ UNCHANGED <<credits, songs, lock>>

Begin(r) ==
    /\ ask[r].pc = "begin"
    /\ FoundOr(r, "lock")
    /\ UNCHANGED <<credits, songs, lock>>

\* runWithCommitTransactionRetry: again, or the budget is used up.
AgainOrBusy(r) == GoOn(r, "begin") \/ GoOn(r, "refused")

\* Mutant of Locked: what was found before the lock is believed.
LockedUnchecked(r) == GoOn(r, "create")
Locked(r) == GoOn(r, "recheck")

\* tryLockUserCreditsInTransaction
TryLock(r) ==
    /\ ask[r].pc = "lock"
    /\ \/ lock = {} /\ lock' = {r} /\ Locked(r)
       \/ lock # {} /\ AgainOrBusy(r) /\ UNCHANGED lock
    /\ UNCHANGED <<credits, songs>>

LookAgain(r) ==
    /\ ask[r].pc = "recheck"
    /\ FoundOr(r, "create")
    /\ lock' = IF ask'[r].pc = "create" THEN lock ELSE lock \ {r}
    /\ UNCHANGED <<credits, songs>>

\* The song, its spend and the commit, which frees the lock.  The answer of
\* the commit may be lost: that is an error, or taken for a transaction that
\* is gone.
Create(r) ==
    /\ ask[r].pc = "create"
    /\ \/ /\ credits > 0
          /\ credits' = credits - 1
          /\ LET id == Cardinality(songs) + 1
             IN  /\ songs' = songs \cup {[id |-> id, key |-> ask[r].key,
                                          body |-> ask[r].body]}
                 /\ Answered(r, id) \/ AgainOrBusy(r)
       \/ credits = 0 /\ GoOn(r, "refused") /\ UNCHANGED <<credits, songs>>
    /\ Unlock(r)

\* The transaction is gone (P2028, P2034, P2024), or the process.
RolledBack(r) ==
    /\ ask[r].pc \in {"begin", "lock", "recheck", "create"}
    /\ AgainOrBusy(r)
    /\ Unlock(r)
    /\ UNCHANGED <<credits, songs>>

AskNext ==
    \E r \in Askers :
        Ask(r) \/ Find(r) \/ Begin(r) \/ TryLock(r) \/ LookAgain(r) \/ Create(r) \/ RolledBack(r)

AskSpec == AskInit /\ [][AskNext]_askVars

-----------------------------------------------------------------------------
Songs == [id : 1 .. Credits, key : Keys \cup {NoKey}, body : Bodies]

AskTypeOK ==
    /\ credits \in 0 .. Credits /\ songs \subseteq Songs
    /\ lock \in {{}} \cup {{r} : r \in Askers}
    /\ ask \in [Askers ->
          [pc : {"new", "find", "begin", "lock", "recheck", "create", "answered", "refused"},
           key : Keys \cup {NoKey}, body : Bodies, got : 0 .. Credits]]

\* A key names one song and pays for one, however many requests carry it, run
\* at once, lose the lock or their answer and try again; and a request is
\* answered with the song of its own key and body.
KeyNamesOneSong ==
    /\ \A s, t \in songs : s.key = t.key /\ s.key # NoKey => s = t
    /\ \A r \in Askers :
          ask[r].pc = "answered" =>
             \E s \in songs : s.id = ask[r].got /\ s.key = ask[r].key
                                                /\ s.body = ask[r].body
=============================================================================
