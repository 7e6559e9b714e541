------------------------------- MODULE RateLimiter -------------------------------
(***************************************************************************)
(* The limiters in front of the providers, kept in Redis: Suno's sliding   *)
(* window of submits, and Mureka's slots for concurrent operations.  Both  *)
(* are a sorted set of members that count until a time after the clock of  *)
(* the client that added them; a slot can be given back before.            *)
(*                                                                         *)
(* A client reads its clock and then has the script run: the time in the   *)
(* script may be ahead of the true one, and is some time old.              *)
(***************************************************************************)
EXTENDS Integers, Sequences, FiniteSets

CONSTANTS
    Clients,
    Limit,      \* maxRequests, maxConcurrent
    Span,       \* windowMs, slotTtlMs
    Slack,      \* how much longer the key lives
    Skew,       \* clocks are at most so far from the true time
    Late,       \* a script runs at most so long after its time was read
    MaxTime,    \* bound
    MaxGrants   \* bound

ASSUME LimiterAssumption ==
    /\ Limit \in Nat /\ Span \in Nat /\ Slack \in Nat
    /\ Skew \in Nat /\ Late \in Nat

VARIABLES
    now,        \* true time
    grants,     \* all grants: the script's time, the true time, given back
    entries,    \* members of the sorted set, by the number of their grant
    expires,    \* when Redis drops the key
    client      \* idle, or the time it has read

limiterVars == <<now, grants, entries, expires, client>>

Idle == [calls |-> FALSE, time |-> 0]

LimiterInit ==
    /\ now = 0
    /\ grants = << >> /\ entries = {} /\ expires = 0
    /\ client = [c \in Clients |-> Idle]

\* Mutant of Full: the limit is the last one refused.
FullBeyond(es) == Cardinality(es) > Limit

Full(es) == Cardinality(es) >= Limit

\* ZREMRANGEBYSCORE: what counts at the time t.
Counting(t) == {i \in entries : grants[i].from + Span > t}

\* One round of acquire begins.
ReadClock(c) ==
    /\ ~client[c].calls
    /\ \E skew \in -Skew .. Skew :
          client' = [client EXCEPT ![c] = [calls |-> TRUE, time |-> now + skew]]
    /\ UNCHANGED <<now, grants, entries, expires>>

\* The script: a refused client sleeps, and tries again or gives up.
Acquire(c) ==
    LET t == client[c].time
        kept == Counting(t)
    IN  /\ client[c].calls /\ now <= t + Late
        /\ client' = [client EXCEPT ![c] = Idle]
        /\ \/ /\ ~Full(kept) /\ Len(grants) < MaxGrants
              /\ grants' = Append(grants, [from |-> t, at |-> now, back |-> FALSE])
              /\ entries' = kept \cup {Len(grants) + 1}
              /\ expires' = now + Span + Slack
           \/ Full(kept) /\ entries' = kept /\ UNCHANGED <<grants, expires>>
        /\ UNCHANGED now

\* release, of a slot only; the holder of a permit may die instead.
Release(i) ==
    /\ i \in DOMAIN grants /\ ~grants[i].back
    /\ grants' = [grants EXCEPT ![i].back = TRUE]
    /\ entries' = entries \ {i}
    /\ UNCHANGED <<now, expires, client>>

KeyExpires ==
    /\ entries # {} /\ now >= expires
    /\ entries' = {}
    /\ UNCHANGED <<now, grants, expires, client>>

\* A call that was read too long ago has run, or is not answered any more.
Tick ==
    /\ now < MaxTime
    /\ \A c \in Clients : client[c].calls => now < client[c].time + Late
    /\ now' = now + 1
    /\ UNCHANGED <<grants, entries, expires, client>>

LimiterNext ==
    \/ \E c \in Clients : ReadClock(c) \/ Acquire(c)
    \/ \E i \in DOMAIN grants : Release(i)
    \/ KeyExpires \/ Tick

LimiterSpec == LimiterInit /\ [][LimiterNext]_limiterVars

-----------------------------------------------------------------------------
LimiterTypeOK ==
    /\ now \in Nat
    /\ grants \in Seq([from : Int, at : Nat, back : BOOLEAN])
    /\ entries \subseteq {i \in DOMAIN grants : ~grants[i].back}
    /\ expires \in Nat
    /\ client \in [Clients -> [calls : BOOLEAN, time : Int]]

\* The grants that a provider may count: not given back, and younger than the
\* span less what clocks and the network can make of it.
Fresh == {i \in DOMAIN grants : ~grants[i].back /\ now < grants[i].at + Span - Skew - Late}

\* At no time are there more of them than the limit, whatever the clocks of
\* the clients say and in whatever order their scripts run.
WithinLimit == Cardinality(Fresh) <= Limit
=============================================================================
