------------------------------ MODULE MediaProofs ------------------------------
(***************************************************************************)
(* Proofs about RateLimiter, TrackPersistence, SongEditor and              *)
(* EditorTimeline.                                                         *)
(*                                                                         *)
(* For every number of clients, every limit and span and every skew and    *)
(* delay, the provider never has more fresh grants before it than the      *)
(* limit.  A grant leaves the sorted set only when it is given back or     *)
(* when it is too old to be fresh: a script that drops it has a time that  *)
(* is at most Skew ahead, and the time the grant was stored with is at     *)
(* most Late old.  So the fresh grants are members, and a member is added  *)
(* below the limit.                                                        *)
(*                                                                         *)
(* For any number of workers, callbacks and failures, a track that has a   *)
(* key has its audio in storage until its deletion has begun.  A worker    *)
(* writes the key a step after its upload, and another one may have taken  *)
(* the job over in between: the invariant says of every worker that is     *)
(* about to write the key that the object is there.  Only the deletion of  *)
(* the track takes it away, and then it cannot begin again.                *)
(*                                                                         *)
(* For every song and any number of requests, an operation that the editor *)
(* accepts is undone by its undo.  Regions are ids with bounds and an      *)
(* index, and what is compared is the whole arrangement.  An arrangement   *)
(* is compact: its indexes are 0, 1, 2, ...  So it is what its regions,    *)
(* their bounds and their order make it, and an undo that gives those back *)
(* gives it back.  What an operation and an undo do to the order is said   *)
(* once, of a reindexing and of a move, and the rest follows operation by  *)
(* operation.                                                              *)
(*                                                                         *)
(* Until a song is rendered, and if its requests wait for each other,      *)
(* every region of it can be heard, whatever is undone and redone.  A cut  *)
(* or a trim is checked when it is asked for, an undo writes bounds that   *)
(* were noted long before.  The invariant is the history of each region:   *)
(* what an operation noted is what the operation before it left, undone    *)
(* or not, the region is as the last one left it and as the first undone   *)
(* one found it, and what is undone and redone is the last and the first.  *)
(*                                                                         *)
(* The page of a song keeps a copy of it and draws its clips.  While its   *)
(* requests do not overlap and none was lost, the copy is the song or the  *)
(* answer that brings it is under way; so what the page rounds and checks  *)
(* against its copy, the server finds in the song.  A drag carries one     *)
(* clip or gives it other bounds.  The page is only told which clips there *)
(* are then: it takes the first clip with other bounds for a trim, and     *)
(* otherwise looks for a clip and a place that make the one order the      *)
(* other.  Regions are drawn once each, so a trim shows the clip and its   *)
(* bounds; a move may be taken for another move, one that gives the same   *)
(* clips.  What the server then does, of both tracks or of one, draws them *)
(* again.                                                                  *)
(***************************************************************************)
EXTENDS RateLimiter, TrackPersistence, SongEditor, EditorTimeline, FiniteSums

-----------------------------------------------------------------------------
(* The limiters *)

\* What is stored of a grant.
Grants == [from : Int, at : Nat, back : BOOLEAN]

\* Every grant is one.
LEMMA GrantsTyped ==
    ASSUME LimiterTypeOK PROVE \A i \in DOMAIN grants : grants[i] \in Grants
  <1>1. grants \in Seq(Grants) BY DEF LimiterTypeOK, Grants
  <1> QED BY <1>1

\* The clock of a client was read in the past.
ClocksInv == \A c \in Clients : client[c].calls => client[c].time <= now + Skew

\* The time of the script of a grant was at most Late old, and the key lives
\* until its members do not count any more.
GrantsInv ==
    \A i \in DOMAIN grants :
        /\ grants[i].at <= now /\ grants[i].at <= grants[i].from + Late
        /\ i \in entries => grants[i].at + Span <= expires

\* The members are few, and none that is fresh is missing.
EntriesInv ==
    /\ IsFiniteSet(entries) /\ Cardinality(entries) <= Limit
    /\ Fresh \subseteq entries

\* The inductive invariant of a limiter.
LimiterInv == LimiterTypeOK /\ ClocksInv /\ GrantsInv /\ EntriesInv

\* A limiter starts in the invariant.
LEMMA LimiterStarts == LimiterInit => LimiterInv
  <1> SUFFICES ASSUME LimiterInit PROVE LimiterInv OBVIOUS
  <1> USE LimiterAssumption DEF LimiterInit
  <1>1. grants = << >> /\ DOMAIN grants = {} /\ entries = {}
    OBVIOUS
  <1>2. LimiterTypeOK BY <1>1 DEF LimiterTypeOK, Idle
  <1>3. ClocksInv BY DEF ClocksInv, Idle
  <1>4. GrantsInv BY <1>1 DEF GrantsInv
  <1>5. EntriesInv BY <1>1, FS_EmptySet DEF EntriesInv, Fresh
  <1> QED BY <1>2, <1>3, <1>4, <1>5 DEF LimiterInv

\* A client that reads its clock is at most Skew ahead.
LEMMA ReadKeeps ==
    ASSUME LimiterInv, NEW c \in Clients, ReadClock(c)
    PROVE  LimiterInv'
  <1> USE LimiterAssumption DEF LimiterInv
  <1>1. PICK skew \in -Skew .. Skew :
          client' = [client EXCEPT ![c] = [calls |-> TRUE, time |-> now + skew]]
    BY DEF ReadClock
  <1>2. UNCHANGED <<now, grants, entries, expires>> BY DEF ReadClock
  <1>3. LimiterTypeOK' BY <1>1, <1>2 DEF LimiterTypeOK
  <1>4. ClocksInv' BY <1>1, <1>2 DEF LimiterTypeOK, ClocksInv
  <1>5. GrantsInv' BY <1>2 DEF GrantsInv
  <1>6. EntriesInv' BY <1>2 DEF EntriesInv, Fresh
  <1> QED BY <1>3, <1>4, <1>5, <1>6

\* A member that a script drops is not fresh.
LEMMA DroppedIsOld ==
    ASSUME LimiterInv, NEW c \in Clients, client[c].calls,
           NEW i \in Fresh
    PROVE  i \in Counting(client[c].time)
  <1> USE LimiterAssumption
  <1>1. /\ i \in DOMAIN grants /\ i \in entries
        /\ now < grants[i].at + Span - Skew - Late
    BY DEF LimiterInv, EntriesInv, Fresh
  <1>2. grants[i] \in Grants BY <1>1, GrantsTyped DEF LimiterInv
  <1>3. grants[i].at <= grants[i].from + Late BY <1>1 DEF LimiterInv, GrantsInv
  <1>4. client[c].time <= now + Skew /\ client[c].time \in Int /\ now \in Nat
    BY DEF LimiterInv, ClocksInv, LimiterTypeOK
  <1>5. grants[i].from + Span > client[c].time
    BY <1>1, <1>2, <1>3, <1>4 DEF Grants
  <1> QED BY <1>1, <1>5 DEF Counting

\* The script adds a member below the limit and drops none that is fresh.
LEMMA AcquireKeeps ==
    ASSUME LimiterInv, NEW c \in Clients, Acquire(c)
    PROVE  LimiterInv'
  <1> USE LimiterAssumption
  <1> DEFINE t == client[c].time
             kept == Counting(t)
  <1>1. LimiterTypeOK /\ ClocksInv /\ GrantsInv /\ EntriesInv BY DEF LimiterInv
  <1>2. /\ client[c].calls /\ now <= t + Late /\ now' = now
        /\ client' = [client EXCEPT ![c] = Idle]
    BY DEF Acquire
  <1>3. t \in Int /\ now \in Nat BY <1>1 DEF LimiterTypeOK
  <1>4. ClocksInv' BY <1>1, <1>2 DEF ClocksInv, LimiterTypeOK, Idle
  <1>5. client' \in [Clients -> [calls : BOOLEAN, time : Int]]
    BY <1>1, <1>2 DEF LimiterTypeOK, Idle
  <1>6. Fresh \subseteq kept BY <1>2, DroppedIsOld
  <1>7. kept \subseteq entries /\ IsFiniteSet(kept)
        /\ Cardinality(kept) <= Cardinality(entries)
    BY <1>1, FS_Subset DEF Counting, EntriesInv
  <1>8. Cardinality(kept) \in Nat /\ Cardinality(entries) \in Nat
    BY <1>1, <1>7, FS_CardinalityType DEF EntriesInv
  <1> HIDE DEF t, kept
  <1>9. CASE /\ ~Full(kept)
             /\ grants' = Append(grants, [from |-> t, at |-> now, back |-> FALSE])
             /\ entries' = kept \cup {Len(grants) + 1}
             /\ expires' = now + Span + Slack
    <2> DEFINE n == Len(grants) + 1
    <2>1. grants \in Seq(Grants) /\ [from |-> t, at |-> now, back |-> FALSE] \in Grants
      BY <1>1, <1>3 DEF LimiterTypeOK, Grants
    <2>2. /\ grants' \in Seq(Grants)
          /\ DOMAIN grants' = DOMAIN grants \cup {n} /\ n \notin DOMAIN grants
          /\ grants'[n] = [from |-> t, at |-> now, back |-> FALSE]
          /\ \A i \in DOMAIN grants : grants'[i] = grants[i]
      BY <1>9, <2>1
    <2> HIDE DEF n
    <2>3. LimiterTypeOK'
      <3>1. entries' \subseteq {i \in DOMAIN grants' : ~grants'[i].back}
        BY <1>1, <1>7, <1>9, <2>2 DEF LimiterTypeOK, n
      <3>2. expires' \in Nat BY <1>3, <1>9
      <3> QED BY <1>2, <1>3, <1>5, <2>2, <3>1, <3>2 DEF LimiterTypeOK, Grants
    <2>4. GrantsInv'
      <3> SUFFICES ASSUME NEW i \in DOMAIN grants'
                   PROVE  /\ grants'[i].at <= now' /\ grants'[i].at <= grants'[i].from + Late
                          /\ i \in entries' => grants'[i].at + Span <= expires'
        BY DEF GrantsInv
      <3>1. CASE i = n BY <1>2, <1>3, <1>9, <2>2, <3>1
      <3>2. CASE i \in DOMAIN grants
        <4>1. grants[i] \in Grants BY <2>1, <3>2
        <4>2. grants'[i] = grants[i] /\ grants[i].at <= now
              /\ grants[i].at <= grants[i].from + Late
          BY <1>1, <2>2, <3>2 DEF GrantsInv
        <4> QED BY <1>2, <1>3, <1>9, <4>1, <4>2 DEF Grants
      <3> QED BY <2>2, <3>1, <3>2
    <2>5. EntriesInv'
      <3>1. n \notin kept BY <1>1, <1>7, <2>2 DEF LimiterTypeOK
      <3>2. IsFiniteSet(entries') /\ Cardinality(entries') = Cardinality(kept) + 1
        BY <1>7, <1>9, <3>1, FS_AddElement DEF n
      <3>3. Cardinality(kept) < Limit BY <1>8, <1>9 DEF Full
      <3>4. Fresh' \subseteq entries'
        BY <1>2, <1>6, <1>9, <2>2 DEF Fresh, n
      <3> QED BY <1>8, <3>2, <3>3, <3>4 DEF EntriesInv
    <2> QED BY <1>4, <2>3, <2>4, <2>5 DEF LimiterInv
  <1>10. CASE entries' = kept /\ UNCHANGED <<grants, expires>>
    <2>1. LimiterTypeOK' BY <1>1, <1>2, <1>5, <1>7, <1>10 DEF LimiterTypeOK
    <2>2. GrantsInv' BY <1>1, <1>2, <1>7, <1>10 DEF GrantsInv
    <2>3. Fresh' = Fresh BY <1>2, <1>10 DEF Fresh
    <2>4. EntriesInv' BY <1>1, <1>6, <1>7, <1>8, <1>10, <2>3 DEF EntriesInv
    <2> QED BY <1>4, <2>1, <2>2, <2>4 DEF LimiterInv
  <1> QED BY <1>9, <1>10 DEF Acquire, t, kept

\* A grant that is given back is not fresh any more.
LEMMA ReleaseKeeps ==
    ASSUME LimiterInv, NEW i \in DOMAIN grants, Release(i)
    PROVE  LimiterInv'
  <1> USE LimiterAssumption
  <1>1. LimiterTypeOK /\ ClocksInv /\ GrantsInv /\ EntriesInv BY DEF LimiterInv
  <1>2. /\ grants' = [grants EXCEPT ![i].back = TRUE] /\ entries' = entries \ {i}
        /\ UNCHANGED <<now, expires, client>>
    BY DEF Release
  <1>3. grants \in Seq(Grants) BY <1>1 DEF LimiterTypeOK, Grants
  <1>4. /\ grants' \in Seq(Grants) /\ DOMAIN grants' = DOMAIN grants
        /\ grants'[i].back
        /\ \A j \in DOMAIN grants :
              /\ grants'[j].at = grants[j].at /\ grants'[j].from = grants[j].from
              /\ j # i => grants'[j].back = grants[j].back
    <2>1. grants' = [grants EXCEPT ![i] = [grants[i] EXCEPT !.back = TRUE]]
      BY <1>2
    <2>2. grants[i] \in Grants BY <1>3
    <2>3. [grants[i] EXCEPT !.back = TRUE] \in Grants BY <2>2 DEF Grants
    <2>4. \A j \in DOMAIN grants :
             grants'[j] = IF j = i THEN [grants[i] EXCEPT !.back = TRUE] ELSE grants[j]
      BY <2>1
    <2>5. grants' \in Seq(Grants) /\ DOMAIN grants' = DOMAIN grants
      BY <1>3, <2>1, <2>3
    <2> QED BY <2>2, <2>4, <2>5 DEF Grants
  <1>5. LimiterTypeOK' BY <1>1, <1>2, <1>4 DEF LimiterTypeOK, Grants
  <1>6. ClocksInv' BY <1>1, <1>2 DEF ClocksInv
  <1>7. GrantsInv' BY <1>1, <1>2, <1>4 DEF GrantsInv
  <1>8. EntriesInv'
    <2>1. IsFiniteSet(entries') /\ Cardinality(entries') <= Cardinality(entries)
          /\ Cardinality(entries) \in Nat /\ Cardinality(entries') \in Nat
      BY <1>1, <1>2, FS_Subset, FS_CardinalityType DEF EntriesInv
    <2>2. Fresh' \subseteq Fresh \ {i} BY <1>2, <1>4 DEF Fresh
    <2> QED BY <1>1, <1>2, <2>1, <2>2 DEF EntriesInv
  <1> QED BY <1>5, <1>6, <1>7, <1>8 DEF LimiterInv

\* The key lives as long as a member is fresh.
LEMMA KeyExpiresKeeps ==
    ASSUME LimiterInv, KeyExpires
    PROVE  LimiterInv'
  <1> USE LimiterAssumption
  <1>1. LimiterTypeOK /\ ClocksInv /\ GrantsInv /\ EntriesInv BY DEF LimiterInv
  <1>2. entries' = {} /\ now >= expires /\ UNCHANGED <<now, grants, expires, client>>
    BY DEF KeyExpires
  <1>3. LimiterTypeOK' BY <1>1, <1>2 DEF LimiterTypeOK
  <1>4. ClocksInv' BY <1>1, <1>2 DEF ClocksInv
  <1>5. GrantsInv' BY <1>1, <1>2 DEF GrantsInv
  <1>6. Fresh = {}
    <2> SUFFICES ASSUME NEW i \in Fresh PROVE FALSE OBVIOUS
    <2>1. i \in DOMAIN grants /\ i \in entries /\ now < grants[i].at + Span - Skew - Late
      BY <1>1 DEF EntriesInv, Fresh
    <2>2. grants[i] \in Grants /\ now \in Nat /\ expires \in Nat
      BY <1>1, <2>1, GrantsTyped DEF LimiterTypeOK
    <2>3. grants[i].at + Span <= expires BY <1>1, <2>1 DEF GrantsInv
    <2> QED BY <1>2, <2>1, <2>2, <2>3 DEF Grants
  <1>7. EntriesInv' BY <1>2, <1>6, FS_EmptySet DEF EntriesInv, Fresh
  <1> QED BY <1>3, <1>4, <1>5, <1>7 DEF LimiterInv

\* Time only ages the grants.
LEMMA TickKeeps ==
    ASSUME LimiterInv, Tick
    PROVE  LimiterInv'
  <1> USE LimiterAssumption
  <1>1. LimiterTypeOK /\ ClocksInv /\ GrantsInv /\ EntriesInv BY DEF LimiterInv
  <1>2. now' = now + 1 /\ UNCHANGED <<grants, entries, expires, client>> BY DEF Tick
  <1>3. now \in Nat BY <1>1 DEF LimiterTypeOK
  <1>4. LimiterTypeOK' BY <1>1, <1>2, <1>3 DEF LimiterTypeOK
  <1>5. ClocksInv'
    <2>1. \A c \in Clients : client[c].time \in Int BY <1>1 DEF LimiterTypeOK
    <2> QED BY <1>1, <1>2, <1>3, <2>1 DEF ClocksInv
  <1>a. \A i \in DOMAIN grants : grants[i].at \in Nat
    BY <1>1, GrantsTyped DEF Grants
  <1>6. GrantsInv' BY <1>1, <1>2, <1>3, <1>a DEF GrantsInv
  <1>7. EntriesInv'
    <2>1. Fresh' \subseteq Fresh BY <1>2, <1>3, <1>a DEF Fresh
    <2> QED BY <1>1, <1>2, <2>1 DEF EntriesInv
  <1> QED BY <1>4, <1>5, <1>6, <1>7 DEF LimiterInv

\* Every step of a limiter keeps its invariant.
LEMMA LimiterStep == LimiterInv /\ [LimiterNext]_limiterVars => LimiterInv'
  <1> SUFFICES ASSUME LimiterInv, [LimiterNext]_limiterVars PROVE LimiterInv' OBVIOUS
  <1>1. CASE UNCHANGED limiterVars
    BY <1>1
      DEF limiterVars, LimiterInv, LimiterTypeOK, ClocksInv, GrantsInv, EntriesInv, Fresh
  <1> QED
    BY <1>1, ReadKeeps, AcquireKeeps, ReleaseKeeps, KeyExpiresKeeps, TickKeeps
      DEF LimiterNext

\* The limiter's invariant: times, deadlines and members, in every state.
THEOREM LimiterInvariant == LimiterSpec => []LimiterInv
  BY LimiterStarts, LimiterStep, PTL DEF LimiterSpec

\* What is stored in Redis and held by the clients keeps its shape; a member
\* is a grant that was not given back.
THEOREM LimiterTypes == LimiterSpec => []LimiterTypeOK
  <1>1. LimiterInv => LimiterTypeOK BY DEF LimiterInv
  <1> QED BY LimiterInvariant, <1>1, PTL

\* The limit holds at the provider, for every skew of the clocks and every
\* delay of the scripts: suno-rate-limiter.ts and mureka-rate-limiter.ts.
THEOREM LimitHolds == LimiterSpec => []WithinLimit
  <1>1. LimiterInv => WithinLimit
    <2> SUFFICES ASSUME LimiterInv PROVE WithinLimit OBVIOUS
    <2>1. IsFiniteSet(entries) /\ Cardinality(entries) <= Limit /\ Fresh \subseteq entries
      BY DEF LimiterInv, EntriesInv
    <2>2. Cardinality(Fresh) <= Cardinality(entries) /\ IsFiniteSet(Fresh)
      BY <2>1, FS_Subset
    <2>3. Cardinality(Fresh) \in Nat /\ Cardinality(entries) \in Nat
      BY <2>1, <2>2, FS_CardinalityType
    <2> QED BY <2>1, <2>2, <2>3, LimiterAssumption DEF WithinLimit
  <1> QED BY LimiterInvariant, <1>1, PTL

-----------------------------------------------------------------------------
(* A track *)

\* Where a worker may be.
Pcs == {"idle", "read", "claim", "download", "upload", "save", "again", "gone"}

\* The types, as far as they are needed here.
Shape ==
    /\ row \in Tracks
    /\ worker \in [Workers -> Pcs]
    /\ object \in BOOLEAN
    /\ eraser \in {"idle", "file", "row", "done", "broken"}

\* The deletion is past the file.
Erased == eraser \in {"row", "done", "broken"}

\* A worker about to write the key has uploaded, or the track is being
\* deleted.
SaveHasObject == \A w \in Workers : worker[w] = "save" => object \/ Erased

\* The inductive invariant of a track.
KeyInv == Shape /\ SaveHasObject /\ KeyHasObject

\* A track that is not there has no key.
LEMMA NoTrackTyped == NoTrack \in Tracks /\ NoTrack.key = FALSE
  BY DEF NoTrack, Tracks

\* A track begins in the invariant.
LEMMA KeyInit == Init => KeyInv
  <1> SUFFICES ASSUME Init PROVE KeyInv OBVIOUS
  <1>1. /\ row = NoTrack /\ object = FALSE /\ eraser = "idle"
        /\ worker = [w \in Workers |-> "idle"]
    BY Zenon DEF Init
  <1>2. Shape BY <1>1, NoTrackTyped DEF Shape, Pcs
  <1>3. SaveHasObject BY <1>1 DEF SaveHasObject
  <1>4. KeyHasObject BY <1>1, NoTrackTyped DEF KeyHasObject
  <1> QED BY <1>2, <1>3, <1>4 DEF KeyInv

\* The file is there, if it was, or its deletion has begun.
FileKept == object \/ Erased => object' \/ Erased'

\* A step that leaves the workers and the key alone.
LEMMA KeyUntouched ==
    ASSUME KeyInv, FileKept, Shape', worker' = worker, row'.key => row.key
    PROVE  KeyInv'
  BY DEF KeyInv, FileKept, SaveHasObject, KeyHasObject, Erased

\* A worker that goes to a step where it has nothing to save.
LEMMA WorkerMoves ==
    ASSUME KeyInv, UNCHANGED <<object, eraser>>, NEW w \in Workers, NEW pc \in Pcs \ {"save"},
           worker' = [worker EXCEPT ![w] = pc], row' \in Tracks,
           row'.key => row.key \/ worker[w] = "save"
    PROVE  KeyInv'
  <1>1. worker' \in [Workers -> Pcs] BY DEF KeyInv, Shape
  <1>2. Shape' BY <1>1 DEF KeyInv, Shape
  <1>3. SaveHasObject' BY DEF KeyInv, Shape, SaveHasObject, Erased
  <1>4. KeyHasObject' BY DEF KeyInv, SaveHasObject, KeyHasObject, Erased
  <1> QED BY <1>2, <1>3, <1>4 DEF KeyInv

-----------------------------------------------------------------------------
(* Callbacks, polls and the reconciler *)

\* A step that changes nothing of the track but its state and its address.
LEMMA RowChanges ==
    ASSUME KeyInv, row' \in Tracks, row'.key => row.key, UNCHANGED <<worker, object, eraser>>
    PROVE  KeyInv'
  <1>1. FileKept BY DEF FileKept, Erased
  <1>2. Shape' BY DEF KeyInv, Shape
  <1> QED BY <1>1, <1>2, KeyUntouched

\* The row has its type.
LEMMA RowTyped == KeyInv => row \in Tracks
  BY DEF KeyInv, Shape

\* A callback or a poll writes neither key nor audio.
LEMMA UpsertKeeps ==
    ASSUME KeyInv, NEW u \in Upserts,
           \/ ReadTrack(u) \/ Skip(u) \/ WriteTrack(u) \/ EnqueueTrack(u)
           \/ MurekaUpsert(u) \/ MurekaEnqueue(u)
    PROVE  KeyInv'
  <1>1. UNCHANGED <<worker, object, eraser>>
    BY DEF ReadTrack, Skip, WriteTrack, EnqueueTrack, MurekaUpsert, MurekaEnqueue
  <1>2. row \in Tracks BY RowTyped
  <1>3. row' \in Tracks /\ (row'.key => row.key)
    <2>1. CASE WriteTrack(u)
      <3> DEFINE n == NoTrack
                 r(h) == Reset(upsert[u].read, h)
                 s(h) == IF h THEN "pending" ELSE "failed"
      <3>1. PICK h \in BOOLEAN :
              row' = IF row.state = "deleted" THEN row
                     ELSE IF row.state = "absent"
                     THEN [NoTrack EXCEPT !.url = h, !.state = s(h)]
                     ELSE [row EXCEPT !.url = @ \/ h, !.state = r(h)]
        BY <2>1, Zenon DEF WriteTrack
      <3>2. r(h) \in {row.state, "processing", "pending"} BY DEF Reset
      <3>3. n \in Tracks /\ n.key = FALSE BY NoTrackTyped
      <3> HIDE DEF n, r
      <3>4. [n EXCEPT !.url = h, !.state = s(h)] \in Tracks BY <3>3 DEF Tracks
      <3>5. [n EXCEPT !.url = h, !.state = s(h)].key = FALSE BY <3>3 DEF Tracks
      <3>6. [row EXCEPT !.url = row.url \/ h, !.state = r(h)] \in Tracks
        BY <1>2, <3>2 DEF Tracks
      <3>7. [row EXCEPT !.url = row.url \/ h, !.state = r(h)].key = row.key
        BY <1>2 DEF Tracks
      <3>8. row' \in {row, [n EXCEPT !.url = h, !.state = s(h)],
                      [row EXCEPT !.url = row.url \/ h, !.state = r(h)]}
        BY <1>2, <3>1 DEF n
      <3> QED BY <1>2, <3>4, <3>5, <3>6, <3>7, <3>8
    <2>2. CASE MurekaUpsert(u)
      <3>1. row' = [row EXCEPT !.state = "pending", !.url = TRUE]
        BY <2>2 DEF MurekaUpsert
      <3> QED BY <1>2, <3>1 DEF Tracks
    <2>3. CASE row' = row BY <1>2, <2>3
    <2> QED BY <2>1, <2>2, <2>3 DEF ReadTrack, Skip, EnqueueTrack, MurekaEnqueue
  <1> QED BY <1>1, <1>3, RowChanges

\* Neither do the reconciler, the page's request and the queue.
LEMMA QueueKeeps ==
    ASSUME KeyInv, HeartbeatAges \/ EvictJob \/ Reconcile \/ StatusRequest PROVE KeyInv'
  <1>1. UNCHANGED <<row, worker, object, eraser>>
    BY DEF HeartbeatAges, EvictJob, Reconcile, StatusRequest
  <1> QED BY <1>1, RowTyped, RowChanges

\* The deletion takes the file only once it has begun.
LEMMA EraserKeeps == ASSUME KeyInv, ReadKey \/ DeleteFile \/ DeleteRow PROVE KeyInv'
  <1>1. worker' = worker BY DEF ReadKey, DeleteFile, DeleteRow
  <1>2. FileKept BY DEF ReadKey, DeleteFile, DeleteRow, FileKept, Erased
  <1>3. row' \in Tracks /\ (row'.key => row.key)
    <2>1. CASE row' = row BY <2>1, RowTyped
    <2>2. CASE row' = [NoTrack EXCEPT !.state = "deleted"]
      BY <2>2, NoTrackTyped DEF Tracks
    <2> QED BY <2>1, <2>2 DEF ReadKey, DeleteFile, DeleteRow
  <1>4. Shape' BY <1>1, <1>3 DEF KeyInv, Shape, ReadKey, DeleteFile, DeleteRow
  <1> QED BY <1>1, <1>2, <1>3, <1>4, KeyUntouched

-----------------------------------------------------------------------------
(* The workers *)

\* A worker that ends is idle.
LEMMA FinishMoves ==
    ASSUME NEW w \in Workers, NEW ok, Finish(w, ok)
    PROVE  worker' = [worker EXCEPT ![w] = "idle"]
  BY DEF Finish

\* A worker that goes on is where it goes to.
LEMMA GotoMoves ==
    ASSUME NEW w \in Workers, NEW pc, Goto(w, pc)
    PROVE  worker' = [worker EXCEPT ![w] = pc]
  BY DEF Goto

\* A worker is somewhere.
LEMMA PcsTyped ==
    {"idle", "read", "claim", "download", "upload", "again", "gone"} \subseteq Pcs \ {"save"}
  BY DEF Pcs

\* The row with another state has the same key.
LEMMA StateChanges ==
    ASSUME row \in Tracks,
           NEW s \in {"absent", "pending", "processing", "stored", "failed", "deleted"}
    PROVE  [row EXCEPT !.state = s] \in Tracks /\ [row EXCEPT !.state = s].key = row.key
  BY DEF Tracks

\* The steps before and after the upload.
LEMMA StepsKeep ==
    ASSUME KeyInv, NEW w \in Workers,
           Take(w) \/ Read(w) \/ Claim(w) \/ Download(w) \/ WriteAgain(w) \/ MarkFailed(w)
    PROVE  KeyInv'
  <1>1. row \in Tracks BY RowTyped
  <1>2. UNCHANGED <<object, eraser>>
    BY DEF Take, Read, Claim, Download, WriteAgain, MarkFailed
  <1>3. row' = row \/ \E s \in {"stored", "failed", "processing", "pending"} :
                          row' = [row EXCEPT !.state = s]
    BY DEF Take, Read, Claim, Download, WriteAgain, MarkFailed
  <1>4. row' \in Tracks /\ (row'.key => row.key) BY <1>1, <1>3, StateChanges
  <1>5. \E pc \in {"idle", "read", "claim", "download", "upload", "again", "gone"} :
            worker' = [worker EXCEPT ![w] = pc]
    <2>1. CASE Take(w) BY <2>1 DEF Take
    <2>2. CASE Read(w) BY <2>2, FinishMoves, GotoMoves DEF Read
    <2>3. CASE Claim(w) BY <2>3, FinishMoves, GotoMoves DEF Claim
    <2>4. CASE Download(w) BY <2>4, GotoMoves DEF Download
    <2>5. CASE WriteAgain(w) BY <2>5, FinishMoves DEF WriteAgain
    <2>6. CASE MarkFailed(w) BY <2>6, FinishMoves DEF MarkFailed
    <2> QED BY <2>1, <2>2, <2>3, <2>4, <2>5, <2>6
  <1> QED BY <1>2, <1>4, <1>5, PcsTyped, WorkerMoves

\* The upload is what puts the audio there before Save.
LEMMA UploadKeeps == ASSUME KeyInv, NEW w \in Workers, Upload(w) PROVE KeyInv'
  <1>1. row' = row /\ eraser' = eraser BY DEF Upload
  <1>a. object \in BOOLEAN BY DEF KeyInv, Shape
  <1>b. object' = TRUE \/ object' = object BY DEF Upload
  <1>2. object' \in BOOLEAN /\ (object => object')
    <2>1. CASE object' = TRUE BY <2>1
    <2>2. CASE object' = object BY <1>a, <2>2
    <2> QED BY <1>b, <2>1, <2>2
  <1>3. \/ object' = TRUE /\ worker' = [worker EXCEPT ![w] = "save"]
        \/ worker' = [worker EXCEPT ![w] = "again"]
    BY GotoMoves DEF Upload, AfterUpload
  <1>4. Shape' BY <1>1, <1>2, <1>3 DEF KeyInv, Shape, Pcs
  <1>5. SaveHasObject' BY <1>1, <1>2, <1>3 DEF KeyInv, Shape, SaveHasObject, Erased
  <1>6. KeyHasObject' BY <1>1, <1>2 DEF KeyInv, KeyHasObject
  <1> QED BY <1>4, <1>5, <1>6 DEF KeyInv

\* Save: whoever writes the key, the audio was uploaded or the deletion has
\* begun.
LEMMA SaveKeeps == ASSUME KeyInv, NEW w \in Workers, Save(w) PROVE KeyInv'
  <1>1. row \in Tracks BY RowTyped
  <1>2. UNCHANGED <<object, eraser>> /\ worker[w] = "save" BY DEF Save
  <1>3. row' = row \/ row' = [row EXCEPT !.state = "stored", !.key = TRUE]
    BY Zenon DEF Save
  <1>4. row' \in Tracks BY <1>1, <1>3 DEF Tracks
  <1>5. \E pc \in {"idle", "again"} : worker' = [worker EXCEPT ![w] = pc]
    BY FinishMoves, GotoMoves DEF Save
  <1> QED BY <1>2, <1>4, <1>5, PcsTyped, WorkerMoves

\* A lock that expires takes nothing from a worker that goes on.
LEMMA LockKeeps == ASSUME KeyInv, NEW w \in Workers, LockExpires(w) PROVE KeyInv'
  <1>1. UNCHANGED <<row, object, eraser>> /\ row \in Tracks BY RowTyped DEF LockExpires
  <1>2. CASE worker' = worker BY <1>1, <1>2, RowChanges
  <1>3. CASE worker' = [worker EXCEPT ![w] = "idle"]
    BY <1>1, <1>3, PcsTyped, WorkerMoves
  <1> QED BY <1>2, <1>3 DEF LockExpires

-----------------------------------------------------------------------------
\* Every step of a callback, a worker, the reconciler and the deletion keeps
\* an object behind the key, or behind the worker that is about to write it.
THEOREM KeyInvariant == Spec => []KeyInv
  <1>1. Init => KeyInv BY KeyInit
  <1>2. KeyInv /\ [Next]_vars => KeyInv'
    <2> SUFFICES ASSUME KeyInv, [Next]_vars PROVE KeyInv' OBVIOUS
    <2>1. ASSUME NEW w \in Workers, Work(w) \/ LockExpires(w) PROVE KeyInv'
      BY <2>1, StepsKeep, UploadKeeps, SaveKeeps, LockKeeps DEF Work
    <2>2. CASE UNCHANGED vars
      <3>1. UNCHANGED <<row, worker, object, eraser>> BY <2>2 DEF vars
      <3> QED BY <3>1, RowTyped, RowChanges
    <2> QED BY <2>1, <2>2, UpsertKeeps, QueueKeeps, EraserKeeps DEF Next
  <1> QED BY <1>1, <1>2, PTL DEF Spec

\* A track with a key has its audio in storage until its deletion has begun:
\* whichever worker wrote the key after whichever takeover
\* (processPersistMusicTrack, deleteMusicGenerationTrack).
THEOREM KeyIsBacked == Spec => []KeyHasObject
  <1>1. KeyInv => KeyHasObject BY DEF KeyInv
  <1> QED BY <1>1, KeyInvariant, PTL

-----------------------------------------------------------------------------
(* The types of a track *)

\* What the job, the slots and the callbacks are.
Jobs == [state : {"absent", "waiting", "active", "done"}, owner : Workers \cup {NoWorker},
         tries : 0 .. MaxTries]
Reads == [pc : {"idle", "write", "enqueue", "queue"}, read : Tracks]

\* A queue that adds a job, or replaces one that is done, has a job.
LEMMA JobsTyped ==
    ASSUME job \in Jobs
    PROVE  /\ NoJob \in Jobs /\ NewJob \in Jobs /\ Added \in Jobs /\ Replaced \in Jobs
           /\ [NoJob EXCEPT !.state = "done"] \in Jobs
  BY TrackAssumption DEF Jobs, NoJob, NewJob, Added, Replaced

\* A failure is counted below its bound.
LEMMA FailsTyped == ASSUME TypeOK, Fails PROVE failures' \in 0 .. MaxFailures
  BY TrackAssumption DEF TypeOK, Fails, MayFail

\* The end of an execution, and a step of one.
LEMMA FinishTyped ==
    ASSUME TypeOK, NEW w \in Workers, NEW ok, Finish(w, ok)
    PROVE  job' \in Jobs /\ worker' \in [Workers -> Pcs]
  <1>1. job \in Jobs /\ worker \in [Workers -> Pcs] BY DEF TypeOK, Jobs, Pcs
  <1>2. worker' \in [Workers -> Pcs] BY <1>1 DEF Finish, Pcs
  <1>3. [NoJob EXCEPT !.state = "done"] \in Jobs BY <1>1, JobsTyped
  <1>4. CASE job.owner # w BY <1>1, <1>2, <1>4 DEF Finish
  <1>5. CASE job.owner = w /\ (ok \/ job.tries + 1 >= MaxTries)
    BY <1>2, <1>3, <1>5 DEF Finish
  <1>6. CASE job.owner = w /\ ~(ok \/ job.tries + 1 >= MaxTries)
    <2>1. job' = [state |-> "waiting", owner |-> NoWorker, tries |-> job.tries + 1]
      BY <1>6 DEF Finish
    <2>2. job.tries + 1 \in 0 .. MaxTries BY <1>1, <1>6, TrackAssumption DEF Jobs
    <2> QED BY <1>2, <2>1, <2>2 DEF Jobs
  <1> QED BY <1>4, <1>5, <1>6

\* An execution goes on.
LEMMA GotoTyped ==
    ASSUME TypeOK, NEW w \in Workers, NEW pc \in Pcs, Goto(w, pc)
    PROVE  job' \in Jobs /\ worker' \in [Workers -> Pcs]
  BY DEF TypeOK, Jobs, Pcs, Goto

\* A track begins with the types.
LEMMA TrackStarts == Init => TypeOK
  <1> SUFFICES ASSUME Init PROVE TypeOK OBVIOUS
  <1>1. NoTrack \in Tracks BY DEF NoTrack, Tracks
  <1>2. IdleUpsert \in [pc : {"idle", "write", "enqueue", "queue"}, read : Tracks]
    BY <1>1 DEF IdleUpsert
  <1>3. NoJob \in [state : {"absent", "waiting", "active", "done"},
                    owner : Workers \cup {NoWorker}, tries : 0 .. MaxTries]
    BY TrackAssumption DEF NoJob
  <1>4. 0 \in 0 .. MaxCallbacks /\ 0 \in 0 .. MaxFailures BY TrackAssumption
  <1>5. upsert \in [Upserts -> [pc : {"idle", "write", "enqueue", "queue"}, read : Tracks]]
    BY <1>2 DEF Init
  <1> QED BY <1>1, <1>3, <1>4, <1>5 DEF Init, TypeOK

\* Callbacks and polls keep the types.
LEMMA UpsertTypes ==
    ASSUME TypeOK, NEW u \in Upserts,
           \/ ReadTrack(u) \/ Skip(u) \/ WriteTrack(u) \/ EnqueueTrack(u)
           \/ MurekaUpsert(u) \/ MurekaEnqueue(u)
    PROVE  TypeOK'
  <1>1. row \in Tracks /\ upsert \in [Upserts -> Reads] /\ job \in Jobs
    BY DEF TypeOK, Reads, Jobs
  <1>2. NoTrack \in Tracks BY DEF NoTrack, Tracks
  <1>3. IdleUpsert \in Reads BY <1>2 DEF IdleUpsert, Reads
  <1>4. Added \in Jobs /\ Replaced \in Jobs BY <1>1, JobsTyped
  <1>5. ASSUME row' \in Tracks, upsert' \in [Upserts -> Reads], job' \in Jobs,
               callbacks' \in 0 .. MaxCallbacks, failures' \in 0 .. MaxFailures,
               UNCHANGED <<provider, stale, object, worker, eraser>>
        PROVE  TypeOK'
    BY <1>5 DEF TypeOK, Reads, Jobs
  <1>6. callbacks \in 0 .. MaxCallbacks /\ failures \in 0 .. MaxFailures BY DEF TypeOK
  <1>7. CASE ReadTrack(u)
    <2>1. upsert' \in [Upserts -> Reads] BY <1>1, <1>7 DEF ReadTrack, Reads
    <2>2. callbacks' \in 0 .. MaxCallbacks BY <1>6, <1>7, TrackAssumption DEF ReadTrack
    <2> QED BY <1>1, <1>5, <1>6, <1>7, <2>1, <2>2 DEF ReadTrack
  <1>8. CASE Skip(u)
    <2>1. upsert' \in [Upserts -> Reads] BY <1>1, <1>3, <1>8 DEF Skip
    <2> QED BY <1>1, <1>5, <1>6, <1>8, <2>1 DEF Skip
  <1>9. CASE WriteTrack(u)
    <2>1. upsert' \in [Upserts -> Reads]
      <3>1. [upsert[u] EXCEPT !.pc = "enqueue"] \in Reads BY <1>1 DEF Reads
      <3> QED BY <1>1, <1>3, <1>9, <3>1 DEF WriteTrack
    <2>2. row' \in Tracks
      <3>1. PICK h \in BOOLEAN :
               row' = IF row.state = "deleted" THEN row
                      ELSE IF row.state = "absent"
                      THEN [NoTrack EXCEPT !.url = h, !.state = IF h THEN "pending" ELSE "failed"]
                      ELSE [row EXCEPT !.url = @ \/ h, !.state = Reset(upsert[u].read, h)]
        BY <1>9 DEF WriteTrack
      <3>2. Reset(upsert[u].read, h) \in {"absent", "pending", "processing", "stored", "failed", "deleted"}
        BY <1>1 DEF Reset, Tracks
      <3>3. (row.url \/ h) \in BOOLEAN BY <1>1 DEF Tracks
      <3>4. [row EXCEPT !.url = @ \/ h, !.state = Reset(upsert[u].read, h)] \in Tracks
        <4> DEFINE v == row.url \/ h
                   st == Reset(upsert[u].read, h)
        <4>1. [row EXCEPT !.url = v, !.state = st] \in Tracks
          <5> HIDE DEF v, st
          <5>1. v \in BOOLEAN BY <3>3 DEF v
          <5>2. st \in {"absent", "pending", "processing", "stored", "failed", "deleted"} BY <3>2 DEF st
          <5> QED BY <1>1, <5>1, <5>2 DEF Tracks
        <4> QED BY <4>1
      <3>5. [NoTrack EXCEPT !.url = h, !.state = IF h THEN "pending" ELSE "failed"] \in Tracks
        BY <1>2 DEF Tracks
      <3> QED BY <1>1, <3>1, <3>4, <3>5
    <2> QED BY <1>1, <1>5, <1>6, <1>9, <2>1, <2>2 DEF WriteTrack
  <1>10. CASE EnqueueTrack(u)
    <2>1. upsert' \in [Upserts -> Reads] BY <1>1, <1>3, <1>10 DEF EnqueueTrack
    <2>2. job' \in Jobs /\ failures' \in 0 .. MaxFailures
      BY <1>1, <1>4, <1>6, <1>10, FailsTyped DEF EnqueueTrack
    <2> QED BY <1>1, <1>5, <1>6, <1>10, <2>1, <2>2 DEF EnqueueTrack
  <1>11. CASE MurekaUpsert(u)
    <2>1. upsert' \in [Upserts -> Reads] BY <1>1, <1>11 DEF MurekaUpsert, Reads
    <2>2. row' \in Tracks BY <1>1, <1>11 DEF MurekaUpsert, Tracks
    <2>3. callbacks' \in 0 .. MaxCallbacks BY <1>6, <1>11, TrackAssumption DEF MurekaUpsert
    <2> QED BY <1>1, <1>5, <1>6, <1>11, <2>1, <2>2, <2>3 DEF MurekaUpsert
  <1>12. CASE MurekaEnqueue(u)
    <2>1. upsert' \in [Upserts -> Reads] BY <1>1, <1>3, <1>12 DEF MurekaEnqueue
    <2>2. job' \in Jobs /\ failures' \in 0 .. MaxFailures
      BY <1>1, <1>4, <1>6, <1>12, FailsTyped DEF MurekaEnqueue
    <2> QED BY <1>1, <1>5, <1>6, <1>12, <2>1, <2>2 DEF MurekaEnqueue
  <1> QED BY <1>7, <1>8, <1>9, <1>10, <1>11, <1>12

\* Workers keep the types, those whose lock expires as well.
LEMMA WorkTypes ==
    ASSUME TypeOK, NEW w \in Workers, Work(w) \/ LockExpires(w) PROVE TypeOK'
  <1>1. /\ row \in Tracks /\ job \in Jobs /\ worker \in [Workers -> Pcs]
        /\ stale \in BOOLEAN /\ object \in BOOLEAN /\ failures \in 0 .. MaxFailures
    BY DEF TypeOK, Jobs, Pcs
  <1>2. UNCHANGED <<provider, upsert, eraser, callbacks>>
    BY DEF Work, Take, Read, Claim, Download, Upload, Save, WriteAgain, MarkFailed, LockExpires
  <1>3. ASSUME row' \in Tracks, job' \in Jobs, worker' \in [Workers -> Pcs],
               stale' \in BOOLEAN, object' \in BOOLEAN, failures' \in 0 .. MaxFailures
        PROVE  TypeOK'
    BY <1>2, <1>3 DEF TypeOK, Jobs, Pcs
  <1>4. \A st \in {"stored", "failed", "processing", "pending"} : [row EXCEPT !.state = st] \in Tracks
    BY <1>1 DEF Tracks
  <1>5. CASE Take(w)
    <2>1. worker' \in [Workers -> Pcs] BY <1>1, <1>5 DEF Take, Pcs
    <2>2. job' \in Jobs BY <1>1, <1>5 DEF Take, Jobs
    <2> QED BY <1>1, <1>3, <1>5, <2>1, <2>2 DEF Take
  <1>6. CASE Read(w)
    <2>1. "claim" \in Pcs BY DEF Pcs
    <2>2. job' \in Jobs /\ worker' \in [Workers -> Pcs]
      BY <1>6, <2>1, FinishTyped, GotoTyped DEF Read
    <2>3. row' \in Tracks BY <1>1, <1>4, <1>6 DEF Read
    <2> QED BY <1>1, <1>3, <1>6, <2>2, <2>3 DEF Read
  <1>7. CASE Claim(w)
    <2>1. "download" \in Pcs BY DEF Pcs
    <2>2. job' \in Jobs /\ worker' \in [Workers -> Pcs]
      BY <1>7, <2>1, FinishTyped, GotoTyped DEF Claim
    <2> QED BY <1>1, <1>3, <1>4, <1>7, <2>2 DEF Claim
  <1>8. CASE Download(w)
    <2>1. {"upload", "again", "gone"} \subseteq Pcs BY DEF Pcs
    <2>2. job' \in Jobs /\ worker' \in [Workers -> Pcs] /\ failures' \in 0 .. MaxFailures
      BY <1>1, <1>8, <2>1, GotoTyped, FailsTyped DEF Download
    <2> QED BY <1>1, <1>3, <1>8, <2>2 DEF Download, Touched
  <1>9. CASE Upload(w)
    <2>1. {"save", "again"} \subseteq Pcs BY DEF Pcs
    <2>2. job' \in Jobs /\ worker' \in [Workers -> Pcs] /\ failures' \in 0 .. MaxFailures
      BY <1>1, <1>9, <2>1, GotoTyped, FailsTyped DEF Upload, AfterUpload
    <2> QED BY <1>1, <1>3, <1>9, <2>2 DEF Upload, Touched
  <1>10. CASE Save(w)
    <2>1. "again" \in Pcs BY DEF Pcs
    <2>2. job' \in Jobs /\ worker' \in [Workers -> Pcs] /\ failures' \in 0 .. MaxFailures
      BY <1>1, <1>10, <2>1, FinishTyped, GotoTyped, FailsTyped DEF Save
    <2>3. row' \in Tracks BY <1>1, <1>10 DEF Save, Tracks
    <2> QED BY <1>1, <1>3, <1>10, <2>2, <2>3 DEF Save
  <1>11. CASE WriteAgain(w)
    <2>1. job' \in Jobs /\ worker' \in [Workers -> Pcs] BY <1>11, FinishTyped DEF WriteAgain
    <2> QED BY <1>1, <1>3, <1>4, <1>11, <2>1 DEF WriteAgain
  <1>12. CASE MarkFailed(w)
    <2>1. job' \in Jobs /\ worker' \in [Workers -> Pcs] BY <1>12, FinishTyped DEF MarkFailed
    <2> QED BY <1>1, <1>3, <1>4, <1>12, <2>1 DEF MarkFailed
  <1>13. CASE LockExpires(w)
    <2>1. job' \in Jobs BY <1>1, <1>13 DEF LockExpires, Jobs
    <2>2. worker' \in [Workers -> Pcs] BY <1>1, <1>13 DEF LockExpires, Pcs
    <2>3. failures' \in 0 .. MaxFailures BY <1>13, FailsTyped DEF LockExpires
    <2> QED BY <1>1, <1>3, <1>13, <2>1, <2>2, <2>3 DEF LockExpires
  <1> QED BY <1>5, <1>6, <1>7, <1>8, <1>9, <1>10, <1>11, <1>12, <1>13 DEF Work

\* The reconciler, the queue and the deletion keep the types.
LEMMA OtherTypes ==
    ASSUME TypeOK,
           \/ HeartbeatAges \/ EvictJob \/ Reconcile \/ StatusRequest
           \/ ReadKey \/ DeleteFile \/ DeleteRow
    PROVE  TypeOK'
  <1>1. job \in Jobs /\ row \in Tracks BY DEF TypeOK, Jobs
  <1>2. NoJob \in Jobs /\ Added \in Jobs /\ Replaced \in Jobs BY <1>1, JobsTyped
  <1>3. [NoTrack EXCEPT !.state = "deleted"] \in Tracks BY DEF NoTrack, Tracks
  <1>4. CASE HeartbeatAges BY <1>4 DEF HeartbeatAges, TypeOK
  <1>5. CASE EvictJob \/ Reconcile \/ StatusRequest
    BY <1>2, <1>5 DEF EvictJob, Reconcile, StatusRequest, TypeOK, Jobs
  <1>6. CASE ReadKey BY <1>6 DEF ReadKey, TypeOK
  <1>7. CASE DeleteFile BY <1>7, FailsTyped DEF DeleteFile, TypeOK
  <1>8. CASE DeleteRow BY <1>3, <1>8, FailsTyped DEF DeleteRow, TypeOK
  <1> QED BY <1>4, <1>5, <1>6, <1>7, <1>8

\* The track's row, its job, its workers and its callbacks keep their types,
\* whatever fails and whichever execution loses its lock.
THEOREM TrackTypes == Spec => []TypeOK
  <1>1. ASSUME TypeOK, [Next]_vars PROVE TypeOK'
    <2>1. CASE UNCHANGED vars BY <1>1, <2>1 DEF vars, TypeOK
    <2>2. CASE Next BY <1>1, <2>2, UpsertTypes, WorkTypes, OtherTypes DEF Next
    <2> QED BY <1>1, <2>1, <2>2
  <1> QED BY TrackStarts, <1>1, PTL DEF Spec

-----------------------------------------------------------------------------
(* The arrangement *)

\* A region of the song's audio.
Region == [start : Times, end : Times, index : Nat]

\* Regions by their ids.
IsArrangement(rs) ==
    /\ IsFiniteSet(DOMAIN rs) /\ DOMAIN rs \subseteq Nat
    /\ rs \in [DOMAIN rs -> Region]

\* Their indexes are different and smaller than their number.
Compact(rs) ==
    /\ \A x \in DOMAIN rs : rs[x].index < Cardinality(DOMAIN rs)
    /\ \A x, y \in DOMAIN rs : rs[x].index = rs[y].index => x = y

\* g has the regions of f, with their bounds.
SameBounds(f, g) ==
    /\ DOMAIN g = DOMAIN f
    /\ \A x \in DOMAIN f : g[x].start = f[x].start /\ g[x].end = f[x].end

\* g has the regions of S in the order that f gives them.
SameOrder(f, g, S) ==
    \A x, y \in S : f[x].index < f[y].index => g[x].index < g[y].index

\* Arrangements whose regions agree are one.
LEMMA SameArrangement ==
    ASSUME NEW f, NEW g, IsArrangement(f), IsArrangement(g), SameBounds(f, g),
           \A x \in DOMAIN f : g[x].index = f[x].index
    PROVE  g = f
  <1>1. f \in [DOMAIN f -> Region] /\ g \in [DOMAIN f -> Region]
    BY DEF IsArrangement, SameBounds
  <1>2. ASSUME NEW x \in DOMAIN f PROVE g[x] = f[x]
    <2>1. f[x] \in Region /\ g[x] \in Region BY <1>1
    <2>2. g[x].start = f[x].start /\ g[x].end = f[x].end /\ g[x].index = f[x].index
      BY DEF SameBounds
    <2> QED BY <2>1, <2>2 DEF Region
  <1> QED BY <1>1, <1>2

\* Compact indexes are 0, 1, 2, ..., and each counts the regions before it.
LEMMA CompactCounts ==
    ASSUME NEW rs, IsArrangement(rs), Compact(rs)
    PROVE  /\ {rs[r].index : r \in DOMAIN rs} = 0 .. Cardinality(DOMAIN rs) - 1
           /\ \A x \in DOMAIN rs :
                 Cardinality({q \in DOMAIN rs : rs[q].index < rs[x].index}) = rs[x].index
  <1> DEFINE D == DOMAIN rs
             f == [x \in D |-> rs[x].index]
  <1>1. IsFiniteSet(D) /\ Cardinality(D) \in Nat BY FS_CardinalityType DEF IsArrangement
  <1>2. \A x \in D : rs[x].index \in Nat BY DEF IsArrangement, Region
  <1>3. f \in [D -> 0 .. Cardinality(D) - 1] BY <1>1, <1>2 DEF Compact
  <1>4. \A x, y \in D : f[x] = f[y] => x = y BY DEF Compact
  <1>5. \A x \in D : f[x] = rs[x].index OBVIOUS
  <1>6. /\ {f[x] : x \in D} = 0 .. Cardinality(D) - 1
        /\ \A x \in D : Cardinality({q \in D : f[q] < f[x]}) = f[x]
    <2> HIDE DEF D, f
    <2> QED BY <1>1, <1>3, <1>4, NumbersCount
  <1>7. {f[x] : x \in D} = {rs[r].index : r \in D} BY <1>5
  <1>8. ASSUME NEW x \in D
        PROVE  {q \in D : f[q] < f[x]} = {q \in D : rs[q].index < rs[x].index}
    BY <1>5
  <1> QED BY <1>5, <1>6, <1>7, <1>8

\* The order of reindexRegions: by index, by start, and as the database likes.
Precedes(rs, newest, q, r) ==
    \/ rs[q].index < rs[r].index
    \/ rs[q].index = rs[r].index /\ rs[q].start < rs[r].start
    \/ /\ rs[q].index = rs[r].index /\ rs[q].start = rs[r].start
       /\ IF newest THEN q > r ELSE q < r

\* Every reindexing counts regions in such an order.
LEMMA ReindexingCounts ==
    ASSUME NEW rs, IsArrangement(rs), NEW out \in Reindexings(rs)
    PROVE  /\ out \in [DOMAIN rs -> Region] /\ SameBounds(rs, out)
           /\ \E newest \in BOOLEAN : \A x \in DOMAIN rs :
                 out[x].index = Cardinality({q \in DOMAIN rs : Precedes(rs, newest, q, x)})
  <1>1. PICK newest \in BOOLEAN :
           out = [r \in DOMAIN rs |-> [rs[r] EXCEPT !.index =
                     Cardinality({q \in DOMAIN rs : Precedes(rs, newest, q, r)})]]
    BY Zenon DEF Reindexings, Precedes
  <1> DEFINE N(x) == Cardinality({q \in DOMAIN rs : Precedes(rs, newest, q, x)})
  <1>2. \A x \in DOMAIN rs : out[x] = [rs[x] EXCEPT !.index = N(x)] BY Zenon, <1>1
  <1>3. DOMAIN out = DOMAIN rs BY Zenon, <1>1
  <1>4. ASSUME NEW x \in DOMAIN rs PROVE N(x) \in Nat
    <2> DEFINE B == {q \in DOMAIN rs : Precedes(rs, newest, q, x)}
    <2>1. B \in SUBSET DOMAIN rs OBVIOUS
    <2>2. IsFiniteSet(DOMAIN rs) BY DEF IsArrangement
    <2> HIDE DEF B
    <2>3. Cardinality(B) \in Nat BY <2>1, <2>2, FS_Subset, FS_CardinalityType
    <2> QED BY <2>3 DEF B
  <1>5. out = [x \in DOMAIN rs |-> [rs[x] EXCEPT !.index = N(x)]] BY Zenon, <1>1
  <1> HIDE DEF N
  <1>6. ASSUME NEW x \in DOMAIN rs
        PROVE  /\ out[x] \in Region /\ out[x].index = N(x)
               /\ out[x].start = rs[x].start /\ out[x].end = rs[x].end
    <2>1. rs[x] \in Region BY DEF IsArrangement
    <2> QED BY <1>2, <1>4, <2>1 DEF Region
  <1>7. out \in [DOMAIN rs -> Region] BY <1>5, <1>6
  <1>8. SameBounds(rs, out) BY <1>3, <1>6 DEF SameBounds
  <1>9. \A x \in DOMAIN rs :
           out[x].index = Cardinality({q \in DOMAIN rs : Precedes(rs, newest, q, x)})
    BY <1>6 DEF N
  <1> QED BY <1>7, <1>8, <1>9

\* A reindexing is compact and keeps what was in order in that order.
LEMMA Reindexed ==
    ASSUME NEW rs, IsArrangement(rs), NEW out \in Reindexings(rs)
    PROVE  /\ IsArrangement(out) /\ Compact(out)
           /\ SameBounds(rs, out) /\ SameOrder(rs, out, DOMAIN rs)
  <1> DEFINE D == DOMAIN rs
  <1>1. out \in [D -> Region] /\ SameBounds(rs, out) BY ReindexingCounts
  <1>2. PICK newest \in BOOLEAN : \A x \in D :
           out[x].index = Cardinality({q \in D : Precedes(rs, newest, q, x)})
    BY ReindexingCounts
  <1>3. DOMAIN out = D BY <1>1 DEF SameBounds
  <1>4. IsFiniteSet(D) /\ D \subseteq Nat BY DEF IsArrangement
  <1> DEFINE R == {p \in D \X D : Precedes(rs, newest, p[1], p[2])}
  <1>5. \A q, x \in D : <<q, x>> \in R <=> Precedes(rs, newest, q, x) OBVIOUS
  <1>6. \A x \in D : rs[x].index \in Int /\ rs[x].start \in Int /\ x \in Int
    BY <1>4 DEF IsArrangement, Region, Times
  <1>7. Orders(R, D)
    <2> HIDE DEF R
    <2>1. \A x \in D : <<x, x>> \notin R BY <1>5, <1>6 DEF Precedes
    <2>2. \A x, y, z \in D : <<x, y>> \in R /\ <<y, z>> \in R => <<x, z>> \in R
      BY <1>5, <1>6 DEF Precedes
    <2>3. \A x, y \in D : x # y => <<x, y>> \in R \/ <<y, x>> \in R
      BY <1>5, <1>6 DEF Precedes
    <2> QED BY <2>1, <2>2, <2>3 DEF Orders
  <1>8. ASSUME NEW x \in D PROVE out[x].index = Rank(R, D, x)
    <2>1. {q \in D : <<q, x>> \in R} = {q \in D : Precedes(rs, newest, q, x)} BY <1>5
    <2> HIDE DEF R, D
    <2> QED BY <1>2, <2>1 DEF Rank
  <1>9. /\ \A x \in D : Rank(R, D, x) \in Nat /\ Rank(R, D, x) < Cardinality(D)
        /\ \A x, y \in D : <<x, y>> \in R <=> Rank(R, D, x) < Rank(R, D, y)
    <2> HIDE DEF R, D
    <2> QED BY <1>4, <1>7, RanksOrder
  <1>10. Compact(out)
    <2>1. \A x \in D : out[x].index < Cardinality(D) BY <1>8, <1>9
    <2>2. ASSUME NEW x \in D, NEW y \in D, out[x].index = out[y].index PROVE x = y
      <3>1. Rank(R, D, x) = Rank(R, D, y) BY <1>8, <2>2
      <3>2. Rank(R, D, x) \in Nat BY <1>9
      <3>3. <<x, y>> \notin R /\ <<y, x>> \notin R BY <1>9, <3>1, <3>2
      <3> QED BY <1>7, <3>3 DEF Orders
    <2> QED BY <1>3, <2>1, <2>2 DEF Compact
  <1>11. SameOrder(rs, out, D)
    <2> SUFFICES ASSUME NEW x \in D, NEW y \in D, rs[x].index < rs[y].index
                 PROVE  out[x].index < out[y].index
      BY DEF SameOrder
    <2>1. <<x, y>> \in R BY <1>5 DEF Precedes
    <2> QED BY <1>8, <1>9, <2>1
  <1>12. IsArrangement(out) BY <1>1, <1>3, <1>4 DEF IsArrangement
  <1> QED BY <1>1, <1>10, <1>11, <1>12

\* An arrangement has a reindexing.
LEMMA ReindexingExists == ASSUME NEW rs PROVE Reindexings(rs) # {}
  BY DEF Reindexings

\* What has the regions of a compact arrangement in their order is reindexed
\* to it.
LEMMA ReindexingRestores ==
    ASSUME NEW rs, IsArrangement(rs), Compact(rs),
           NEW f, IsArrangement(f), SameBounds(f, rs), SameOrder(rs, f, DOMAIN rs)
    PROVE  Reindexings(f) = {rs}
  <1> DEFINE D == DOMAIN rs
  <1>1. DOMAIN f = D BY DEF SameBounds
  <1>2. \A x \in D : rs[x].index \in Nat /\ f[x].index \in Nat
    BY <1>1 DEF IsArrangement, Region
  <1>3. ASSUME NEW out \in Reindexings(f) PROVE out = rs
    <2>1. IsArrangement(out) /\ SameBounds(f, out) BY <1>3, Reindexed
    <2>2. SameBounds(rs, out) BY <1>1, <2>1 DEF SameBounds
    <2>3. PICK newest \in BOOLEAN : \A x \in D :
             out[x].index = Cardinality({q \in D : Precedes(f, newest, q, x)})
      BY <1>1, <1>3, ReindexingCounts
    <2>4. ASSUME NEW x \in D PROVE out[x].index = rs[x].index
      <3>1. ASSUME NEW q \in D
            PROVE  Precedes(f, newest, q, x) <=> rs[q].index < rs[x].index
        <4>1. CASE q = x
          <5>1. f[x].start \in Int /\ x \in Int BY <1>1 DEF IsArrangement, Region, Times
          <5>2. ~Precedes(f, newest, x, x) BY <1>2, <5>1 DEF Precedes
          <5> QED BY <1>2, <4>1, <5>2
        <4>2. CASE rs[q].index < rs[x].index
          <5>1. f[q].index < f[x].index BY <4>2 DEF SameOrder
          <5> QED BY <4>2, <5>1 DEF Precedes
        <4>3. CASE q # x /\ ~(rs[q].index < rs[x].index)
          <5>1. rs[x].index < rs[q].index BY <1>2, <4>3 DEF Compact
          <5>2. f[x].index < f[q].index BY <5>1 DEF SameOrder
          <5> QED BY <1>2, <4>3, <5>2 DEF Precedes
        <4> QED BY <4>1, <4>2, <4>3
      <3>2. {q \in D : Precedes(f, newest, q, x)} = {q \in D : rs[q].index < rs[x].index}
        BY <3>1
      <3>3. Cardinality({q \in D : rs[q].index < rs[x].index}) = rs[x].index
        BY CompactCounts
      <3> HIDE DEF D
      <3> QED BY <2>3, <3>2, <3>3
    <2> QED BY <2>1, <2>2, <2>4, SameArrangement
  <1> QED BY <1>3, ReindexingExists

\* How many of the other regions are before x.
OthersBefore(rs, r, x) == Cardinality({q \in DOMAIN rs \ {r} : rs[q].index < rs[x].index})

\* Where a region goes, and where the others are then.
LEMMA MovedIndexes ==
    ASSUME NEW rs, IsArrangement(rs), NEW r \in DOMAIN rs, NEW target \in Nat
    PROVE  LET out == Moved(rs, r, target)
               n == Cardinality(DOMAIN rs)
               place == IF target < n THEN target ELSE n - 1
           IN  /\ n \in Nat /\ n > 0
               /\ out \in [DOMAIN rs -> Region] /\ SameBounds(rs, out)
               /\ out[r].index = place
               /\ \A x \in DOMAIN rs \ {r} :
                     /\ OthersBefore(rs, r, x) \in Nat
                     /\ out[x].index = IF OthersBefore(rs, r, x) < place
                                       THEN OthersBefore(rs, r, x)
                                       ELSE OthersBefore(rs, r, x) + 1
  <1> DEFINE D == DOMAIN rs
             n == Cardinality(D)
             place == IF target < n THEN target ELSE n - 1
             B(x) == OthersBefore(rs, r, x)
             out == Moved(rs, r, target)
  <1>1. IsFiniteSet(D) BY DEF IsArrangement
  <1>2. n \in Nat /\ n > 0 /\ Cardinality(D \ {r}) = n - 1
    <2> HIDE DEF D
    <2>1. Cardinality(D \ {r}) = IF r \in D THEN Cardinality(D) - 1 ELSE Cardinality(D)
      BY <1>1, FS_RemoveElement
    <2>2. Cardinality(D) \in Nat /\ D # {} BY <1>1, FS_CardinalityType DEF D
    <2>3. Cardinality(D) # 0 BY <1>1, <2>2, FS_EmptySet
    <2> QED BY <2>1, <2>2, <2>3 DEF D
  <1>3. Min({target, Cardinality(D \ {r})}) = place
    <2> HIDE DEF D
    <2>1. n - 1 \in Int /\ target \in Int BY <1>2
    <2>2. Min({target, n - 1}) = IF target <= n - 1 THEN target ELSE n - 1 BY <2>1, MinOfTwo
    <2> QED BY <1>2, <2>2
  <1>4. \A x \in D : B(x) \in Nat
    <2> TAKE x \in D
    <2> DEFINE S == {q \in D \ {r} : rs[q].index < rs[x].index}
    <2>1. S \in SUBSET D OBVIOUS
    <2> HIDE DEF S, D
    <2>2. Cardinality(S) \in Nat BY <1>1, <2>1, FS_Subset, FS_CardinalityType
    <2> QED BY <2>2 DEF S, D, OthersBefore
  <1> DEFINE N(x) == IF x = r THEN place ELSE IF B(x) < place THEN B(x) ELSE B(x) + 1
  <1>5. out = [x \in D |-> [rs[x] EXCEPT !.index = N(x)]]
    <2> DEFINE low == Min({target, Cardinality(D \ {r})})
               M(x) == IF x = r THEN low ELSE IF B(x) < low THEN B(x) ELSE B(x) + 1
    <2>1. out = [x \in D |-> [rs[x] EXCEPT !.index = M(x)]] BY Zenon DEF Moved, OthersBefore
    <2>2. low = place BY <1>3
    <2> HIDE DEF low, place, B, out
    <2>3. \A x \in D : M(x) = N(x) BY Zenon, <2>2
    <2> HIDE DEF M, N
    <2> QED BY Zenon, <2>1, <2>3
  <1>6. \A x \in D : N(x) \in Nat
    <2> HIDE DEF B, n
    <2> QED BY <1>2, <1>4
  <1>7. \A x \in D : out[x] = [rs[x] EXCEPT !.index = N(x)]
    <2> HIDE DEF N, out
    <2> QED BY Zenon, <1>5
  <1>8. \A x \in D : N(x) = IF x = r THEN place ELSE IF B(x) < place THEN B(x) ELSE B(x) + 1
    OBVIOUS
  <1> HIDE DEF N
  <1>9. ASSUME NEW x \in D
        PROVE  /\ out[x] \in Region /\ out[x].index = N(x)
               /\ out[x].start = rs[x].start /\ out[x].end = rs[x].end
    <2>1. rs[x] \in Region /\ N(x) \in Nat BY <1>6 DEF IsArrangement
    <2>2. out[x] = [rs[x] EXCEPT !.index = N(x)] BY <1>7
    <2> HIDE DEF out
    <2> QED BY <2>1, <2>2 DEF Region
  <1>10. out \in [D -> Region] /\ DOMAIN out = D
    <2> HIDE DEF out
    <2> QED BY <1>5, <1>9
  <1>11. SameBounds(rs, out)
    <2> HIDE DEF out
    <2> QED BY <1>9, <1>10 DEF SameBounds
  <1>12. out[r].index = place BY <1>8, <1>9
  <1>13. \A x \in D \ {r} : B(x) \in Nat /\ out[x].index = IF B(x) < place THEN B(x) ELSE B(x) + 1
    <2> HIDE DEF out, B, place
    <2> QED BY <1>4, <1>8, <1>9
  <1> QED BY <1>2, <1>10, <1>11, <1>12, <1>13

\* When the others have different indexes, what is moved is compact.
LEMMA MovedCompact ==
    ASSUME NEW rs, IsArrangement(rs), NEW r \in DOMAIN rs, NEW target \in Nat,
           \A x, y \in DOMAIN rs \ {r} : rs[x].index = rs[y].index => x = y
    PROVE  LET out == Moved(rs, r, target)
           IN  /\ IsArrangement(out) /\ Compact(out) /\ SameBounds(rs, out)
               /\ SameOrder(rs, out, DOMAIN rs \ {r})
  <1> DEFINE D == DOMAIN rs
             O == D \ {r}
             n == Cardinality(D)
             place == IF target < n THEN target ELSE n - 1
             B(x) == OthersBefore(rs, r, x)
             out == Moved(rs, r, target)
             R == {p \in O \X O : rs[p[1]].index < rs[p[2]].index}
  <1>1. /\ n \in Nat /\ n > 0 /\ out \in [D -> Region] /\ SameBounds(rs, out)
        /\ out[r].index = place
        /\ \A x \in O : B(x) \in Nat /\ out[x].index = IF B(x) < place THEN B(x) ELSE B(x) + 1
    BY MovedIndexes
  <1>2. IsFiniteSet(D) /\ D \subseteq Nat /\ DOMAIN out = D BY <1>1 DEF IsArrangement, SameBounds
  <1>3. IsFiniteSet(O) /\ Cardinality(O) = n - 1
    <2> HIDE DEF D
    <2>1. r \in D BY DEF D
    <2> QED BY <1>2, <2>1, FS_RemoveElement
  <1>4. \A q, x \in O : <<q, x>> \in R <=> rs[q].index < rs[x].index OBVIOUS
  <1>5. \A x \in D : rs[x].index \in Nat BY DEF IsArrangement, Region
  <1>6. Orders(R, O)
    <2> HIDE DEF R
    <2>1. \A x, y \in O : x # y => rs[x].index # rs[y].index OBVIOUS
    <2> QED BY <1>4, <1>5, <2>1 DEF Orders
  <1>7. ASSUME NEW x \in O PROVE B(x) = Rank(R, O, x)
    <2>1. {q \in O : <<q, x>> \in R} = {q \in O : rs[q].index < rs[x].index} BY <1>4
    <2> HIDE DEF R
    <2> QED BY <2>1 DEF Rank, OthersBefore
  <1>8. /\ \A x \in O : Rank(R, O, x) \in Nat /\ Rank(R, O, x) < Cardinality(O)
        /\ \A x, y \in O : <<x, y>> \in R <=> Rank(R, O, x) < Rank(R, O, y)
    <2> HIDE DEF R, O
    <2> QED BY <1>3, <1>6, RanksOrder
  <1>9. /\ \A x \in O : B(x) \in Nat /\ B(x) < n - 1
        /\ \A x, y \in O : rs[x].index < rs[y].index <=> B(x) < B(y)
    <2> HIDE DEF R, O, B, n
    <2>1. \A x \in O : B(x) \in Nat /\ B(x) < n - 1 BY <1>3, <1>7, <1>8
    <2>2. \A x, y \in O : rs[x].index < rs[y].index <=> B(x) < B(y) BY <1>4, <1>7, <1>8
    <2> QED BY <2>1, <2>2
  <1>10. \A x, y \in O : x # y => B(x) # B(y)
    <2> SUFFICES ASSUME NEW x \in O, NEW y \in O, x # y PROVE B(x) # B(y) OBVIOUS
    <2>1. rs[x].index # rs[y].index /\ rs[x].index \in Nat /\ rs[y].index \in Nat BY <1>5
    <2>2. rs[x].index < rs[y].index \/ rs[y].index < rs[x].index BY <2>1
    <2> HIDE DEF B
    <2> QED BY <1>9, <2>2
  <1>11. place \in Nat /\ place < n BY <1>1
  <1> HIDE DEF B, n, place, out
  <1>12. \A x \in D : out[x].index < n
    <2> TAKE x \in D
    <2>1. CASE x = r BY <1>1, <1>11, <2>1
    <2>2. CASE x # r BY <1>1, <1>9, <2>2
    <2> QED BY <2>1, <2>2
  <1>13. ASSUME NEW x \in D, NEW y \in D, out[x].index = out[y].index PROVE x = y
    <2>1. CASE x # r /\ y # r
      <3>1. B(x) \in Nat /\ B(y) \in Nat BY <1>9, <2>1
      <3>2. /\ out[x].index = IF B(x) < place THEN B(x) ELSE B(x) + 1
            /\ out[y].index = IF B(y) < place THEN B(y) ELSE B(y) + 1
        BY <1>1, <2>1
      <3>3. B(x) = B(y)
        <4>1. (IF B(x) < place THEN B(x) ELSE B(x) + 1) = (IF B(y) < place THEN B(y) ELSE B(y) + 1)
          BY <1>13, <3>2
        <4>2. place \in Nat BY <1>11
        <4> QED BY <3>1, <4>1, <4>2
      <3> QED BY <1>10, <2>1, <3>3
    <2>2. CASE x = r /\ y # r
      <3>1. out[y].index = IF B(y) < place THEN B(y) ELSE B(y) + 1 BY <1>1, <2>2
      <3>2. B(y) \in Nat BY <1>9, <2>2
      <3> QED BY <1>1, <1>11, <1>13, <2>2, <3>1, <3>2
    <2>3. CASE x # r /\ y = r
      <3>1. out[x].index = IF B(x) < place THEN B(x) ELSE B(x) + 1 BY <1>1, <2>3
      <3>2. B(x) \in Nat BY <1>9, <2>3
      <3> QED BY <1>1, <1>11, <1>13, <2>3, <3>1, <3>2
    <2> QED BY <2>1, <2>2, <2>3
  <1>14. Compact(out) BY <1>2, <1>12, <1>13 DEF Compact, n
  <1>15. SameOrder(rs, out, O)
    <2> SUFFICES ASSUME NEW x \in O, NEW y \in O, rs[x].index < rs[y].index
                 PROVE  out[x].index < out[y].index
      BY DEF SameOrder
    <2>1. B(x) \in Nat /\ B(y) \in Nat /\ B(x) < B(y) BY <1>9
    <2> QED BY <1>1, <1>11, <2>1
  <1>16. IsArrangement(out) BY <1>1, <1>2 DEF IsArrangement
  <1> QED BY <1>1, <1>14, <1>15, <1>16 DEF out

\* A region that goes back to the place it had, among others that are in the
\* order they had, gives back the arrangement.
LEMMA MovedBack ==
    ASSUME NEW rs, IsArrangement(rs), Compact(rs), NEW r \in DOMAIN rs,
           NEW f, IsArrangement(f), SameBounds(f, rs), SameOrder(rs, f, DOMAIN rs \ {r})
    PROVE  Moved(f, r, rs[r].index) = rs
  <1> DEFINE D == DOMAIN rs
             O == D \ {r}
             n == Cardinality(D)
             home == rs[r].index
             B(x) == OthersBefore(f, r, x)
             out == Moved(f, r, home)
  <1>1. DOMAIN f = D /\ IsFiniteSet(D) BY DEF SameBounds, IsArrangement
  <1>2. \A x \in D : rs[x].index \in Nat /\ rs[x].index < n BY DEF IsArrangement, Region, Compact
  <1>3. /\ n \in Nat /\ out \in [D -> Region] /\ SameBounds(f, out)
        /\ out[r].index = home
        /\ \A x \in O : B(x) \in Nat /\ out[x].index = IF B(x) < home THEN B(x) ELSE B(x) + 1
    <2>1. home \in Nat /\ home < n /\ r \in DOMAIN f BY <1>1, <1>2
    <2>2. /\ n \in Nat /\ out \in [D -> Region] /\ SameBounds(f, out)
          /\ out[r].index = IF home < n THEN home ELSE n - 1
          /\ \A x \in O : B(x) \in Nat /\ out[x].index =
                IF B(x) < (IF home < n THEN home ELSE n - 1) THEN B(x) ELSE B(x) + 1
      <3> HIDE DEF home
      <3> QED BY <1>1, <2>1, MovedIndexes
    <2> HIDE DEF home, n, B, out
    <2> QED BY <2>1, <2>2
  <1>4. ASSUME NEW x \in O PROVE out[x].index = rs[x].index
    <2> DEFINE S == {q \in O : rs[q].index < rs[x].index}
    <2>1. {q \in O : f[q].index < f[x].index} = S
      <3> SUFFICES ASSUME NEW q \in O
                   PROVE  f[q].index < f[x].index <=> rs[q].index < rs[x].index
        OBVIOUS
      <3>1. f[q].index \in Nat /\ f[x].index \in Nat BY <1>1 DEF IsArrangement, Region
      <3>2. CASE rs[q].index < rs[x].index BY <3>2 DEF SameOrder
      <3>3. CASE rs[x].index < rs[q].index
        <4>1. f[x].index < f[q].index BY <3>3 DEF SameOrder
        <4> QED BY <1>2, <3>1, <3>3, <4>1
      <3>4. CASE x = q BY <1>2, <3>1, <3>4
      <3>5. x = q \/ rs[q].index < rs[x].index \/ rs[x].index < rs[q].index
        BY <1>2 DEF Compact
      <3> QED BY <3>2, <3>3, <3>4, <3>5
    <2>2. B(x) = Cardinality(S)
      <3> HIDE DEF S
      <3> QED BY Zenon, <1>1, <2>1 DEF OthersBefore
    <2>3. Cardinality({q \in D : rs[q].index < rs[x].index}) = rs[x].index BY CompactCounts
    <2>4. CASE rs[r].index < rs[x].index
      <3>1. {q \in D : rs[q].index < rs[x].index} = S \cup {r} BY <2>4
      <3>2. r \notin S /\ S \in SUBSET D OBVIOUS
      <3> HIDE DEF S, D, B
      <3>3. Cardinality(S \cup {r}) = Cardinality(S) + 1 /\ Cardinality(S) \in Nat
        BY <1>1, <3>2, FS_Subset, FS_AddElement, FS_CardinalityType
      <3>4. rs[x].index = B(x) + 1 BY <2>2, <2>3, <3>1, <3>3
      <3>5. B(x) \in Nat /\ home \in Nat BY <1>2, <1>3 DEF D
      <3>6. ~(B(x) < home) BY <2>4, <3>4, <3>5
      <3> QED BY <1>3, <3>4, <3>6
    <2>5. CASE ~(rs[r].index < rs[x].index)
      <3>1. {q \in D : rs[q].index < rs[x].index} = S BY <2>5
      <3>2. rs[x].index = B(x)
        <4> HIDE DEF S, B
        <4> QED BY <2>2, <2>3, <3>1
      <3>3. rs[r].index # rs[x].index BY DEF Compact
      <3>4. B(x) < home
        <4> HIDE DEF B
        <4>1. rs[x].index \in Nat /\ rs[r].index \in Nat BY <1>2
        <4> QED BY <2>5, <3>2, <3>3, <4>1
      <3> QED BY <1>3, <3>2, <3>4
    <2> QED BY <2>4, <2>5
  <1>5. IsArrangement(out) /\ SameBounds(rs, out) BY <1>1, <1>3 DEF IsArrangement, SameBounds
  <1>6. \A x \in D : out[x].index = rs[x].index BY <1>3, <1>4
  <1> HIDE DEF out, home
  <1>7. out = rs BY <1>5, <1>6, SameArrangement
  <1> QED BY <1>7 DEF out, home

-----------------------------------------------------------------------------
(* What the operations are made of *)

\* An arrangement as an operation leaves it.
Arranged(rs) == IsArrangement(rs) /\ Compact(rs)

\* A region that is put.
LEMMA PutRegion ==
    ASSUME NEW rs, IsArrangement(rs), NEW r \in Nat, NEW new \in Region
    PROVE  LET out == Put(rs, r, new)
           IN  /\ IsArrangement(out) /\ DOMAIN out = DOMAIN rs \cup {r}
               /\ out[r] = new /\ \A x \in DOMAIN rs : x # r => out[x] = rs[x]
  <1> DEFINE D == DOMAIN rs
             out == Put(rs, r, new)
  <1>1. /\ DOMAIN out = D \cup {r} /\ out[r] = new
        /\ \A x \in D : x # r => out[x] = rs[x]
        /\ out = [x \in D \cup {r} |-> out[x]]
    BY DEF Put
  <1>2. IsFiniteSet(D) /\ D \subseteq Nat /\ \A x \in D : rs[x] \in Region BY DEF IsArrangement
  <1>3. IsFiniteSet(D \cup {r})
    <2> HIDE DEF D
    <2> QED BY <1>2, FS_AddElement
  <1> HIDE DEF out, D
  <1>4. \A x \in D \cup {r} : out[x] \in Region BY <1>1, <1>2
  <1>5. out \in [D \cup {r} -> Region] BY <1>1, <1>4
  <1>6. IsArrangement(out) BY <1>1, <1>2, <1>3, <1>5 DEF IsArrangement
  <1> QED BY <1>1, <1>6 DEF D, out

\* A region that is dropped.
LEMMA DropRegion ==
    ASSUME NEW rs, IsArrangement(rs), NEW r
    PROVE  LET out == Drop(rs, r)
           IN  /\ IsArrangement(out) /\ DOMAIN out = DOMAIN rs \ {r}
               /\ \A x \in DOMAIN rs : x # r => out[x] = rs[x]
  <1> DEFINE D == DOMAIN rs
             out == Drop(rs, r)
  <1>1. /\ DOMAIN out = D \ {r} /\ \A x \in D : x # r => out[x] = rs[x]
        /\ out = [x \in D \ {r} |-> out[x]]
    BY DEF Drop
  <1>2. IsFiniteSet(D) /\ D \subseteq Nat /\ \A x \in D : rs[x] \in Region BY DEF IsArrangement
  <1>3. IsFiniteSet(D \ {r})
    <2>1. D \ {r} \in SUBSET D OBVIOUS
    <2> HIDE DEF D
    <2> QED BY <1>2, <2>1, FS_Subset
  <1> HIDE DEF out, D
  <1>4. out \in [D \ {r} -> Region] BY <1>1, <1>2
  <1>5. IsArrangement(out) BY <1>1, <1>2, <1>3, <1>4 DEF IsArrangement
  <1> QED BY <1>1, <1>5 DEF D, out

\* A region that gets other bounds.
LEMMA ResizedRegion ==
    ASSUME NEW rs, IsArrangement(rs), NEW r \in DOMAIN rs, NEW start \in Times, NEW end \in Times
    PROVE  LET out == Resized(rs, r, start, end)
           IN  /\ IsArrangement(out) /\ DOMAIN out = DOMAIN rs
               /\ out[r].start = start /\ out[r].end = end
               /\ \A x \in DOMAIN rs : x # r => out[x] = rs[x]
               /\ \A x \in DOMAIN rs : out[x].index = rs[x].index
               /\ Compact(rs) => Compact(out)
  <1> DEFINE D == DOMAIN rs
             out == Resized(rs, r, start, end)
  <1>1. IsFiniteSet(D) /\ D \subseteq Nat /\ \A x \in D : rs[x] \in Region BY DEF IsArrangement
  <1>2. rs \in [D -> Region] BY DEF IsArrangement
  <1>3. /\ DOMAIN out = D /\ \A x \in D : x # r => out[x] = rs[x]
        /\ out[r] = [rs[r] EXCEPT !.start = start, !.end = end]
        /\ out = [x \in D |-> out[x]]
    BY <1>2 DEF Resized
  <1> HIDE DEF out
  <1>4. /\ out[r] \in Region /\ out[r].start = start /\ out[r].end = end
        /\ out[r].index = rs[r].index
    BY <1>1, <1>3 DEF Region
  <1>5. out \in [D -> Region] BY <1>2, <1>3, <1>4
  <1>6. IsArrangement(out) BY <1>1, <1>3, <1>5 DEF IsArrangement
  <1>7. \A x \in D : out[x].index = rs[x].index BY <1>3, <1>4
  <1>8. Compact(rs) => Compact(out) BY <1>3, <1>7 DEF Compact
  <1> QED BY <1>3, <1>4, <1>6, <1>7, <1>8 DEF out

\* What the editor writes to change one bound.
LEMMA StartWritten ==
    ASSUME NEW rs, IsArrangement(rs), NEW r \in DOMAIN rs, NEW a
    PROVE  [rs EXCEPT ![r].start = a] = Resized(rs, r, a, rs[r].end)
  <1>1. rs \in [DOMAIN rs -> Region] /\ rs[r] \in Region BY DEF IsArrangement
  <1>2. [rs[r] EXCEPT !.start = a] = [rs[r] EXCEPT !.start = a, !.end = rs[r].end]
    BY <1>1 DEF Region
  <1> QED BY <1>1, <1>2 DEF Resized

LEMMA EndWritten ==
    ASSUME NEW rs, IsArrangement(rs), NEW r \in DOMAIN rs, NEW a
    PROVE  [rs EXCEPT ![r].end = a] = Resized(rs, r, rs[r].start, a)
  <1>1. rs \in [DOMAIN rs -> Region] /\ rs[r] \in Region BY DEF IsArrangement
  <1>2. [rs[r] EXCEPT !.end = a] = [rs[r] EXCEPT !.start = rs[r].start, !.end = a]
    BY <1>1 DEF Region
  <1> QED BY <1>1, <1>2 DEF Resized

\* out has the regions of rs, and one more, in their order; the bounds are
\* the same but for the end of r.
Extends(rs, out, id, r) ==
    /\ IsArrangement(out) /\ id \notin DOMAIN rs /\ DOMAIN out = DOMAIN rs \cup {id}
    /\ \A x \in DOMAIN rs :
          out[x].start = rs[x].start /\ (x # r => out[x].end = rs[x].end)
    /\ SameOrder(rs, out, DOMAIN rs)

\* A split: the region ends where the new one starts.
LEMMA SplitRegion ==
    ASSUME NEW rs, IsArrangement(rs), NEW r \in DOMAIN rs, NEW at \in Times,
           NEW id \in Nat, id \notin DOMAIN rs, NEW out \in Splits(rs, r, at, id)
    PROVE  /\ rs[r].start < at /\ at < rs[r].end
           /\ Arranged(out) /\ Extends(rs, out, id, r)
           /\ out[r].end = at /\ out[id].start = at /\ out[id].end = rs[r].end
  <1> DEFINE cut == [rs EXCEPT ![r].end = at]
             new == [start |-> at, end |-> rs[r].end, index |-> rs[r].index + 1]
             f == Put(cut, id, new)
  <1>1. r \in DOMAIN rs /\ rs[r].start < at /\ at < rs[r].end /\ out \in Reindexings(f)
    BY DEF Splits
  <1>2. rs[r].start \in Times /\ rs[r].end \in Times /\ rs[r].index \in Nat
    BY <1>1 DEF IsArrangement, Region
  <1>3. cut = Resized(rs, r, rs[r].start, at)
    BY <1>1, EndWritten
  <1>4. /\ IsArrangement(cut) /\ DOMAIN cut = DOMAIN rs
        /\ cut[r].start = rs[r].start /\ cut[r].end = at
        /\ \A x \in DOMAIN rs : x # r => cut[x] = rs[x]
        /\ \A x \in DOMAIN rs : cut[x].index = rs[x].index
    <2> DEFINE start == rs[r].start
    <2>1. start \in Times /\ cut = Resized(rs, r, start, at) BY <1>2, <1>3
    <2> HIDE DEF cut, start
    <2>2. /\ IsArrangement(cut) /\ DOMAIN cut = DOMAIN rs
          /\ cut[r].start = start /\ cut[r].end = at
          /\ \A x \in DOMAIN rs : x # r => cut[x] = rs[x]
          /\ \A x \in DOMAIN rs : cut[x].index = rs[x].index
      BY <2>1, ResizedRegion
    <2> QED BY <2>2 DEF start
  <1>5. new \in Region /\ new.start = at /\ new.end = rs[r].end BY <1>2 DEF Region
  <1>6. /\ IsArrangement(f) /\ DOMAIN f = DOMAIN rs \cup {id}
        /\ f[id] = new /\ \A x \in DOMAIN rs : x # id => f[x] = cut[x]
    <2> HIDE DEF new, cut
    <2>0. IsArrangement(cut) /\ new \in Region BY <1>4, <1>5
    <2>1. /\ IsArrangement(f) /\ DOMAIN f = DOMAIN cut \cup {id}
          /\ f[id] = new /\ \A x \in DOMAIN cut : x # id => f[x] = cut[x]
      BY <2>0, PutRegion
    <2> QED BY <1>4, <2>1
  <1> HIDE DEF f, new, cut
  <1>7. IsArrangement(out) /\ Compact(out) /\ SameBounds(f, out) /\ SameOrder(f, out, DOMAIN f)
    BY <1>1, <1>6, Reindexed
  <1>8. \A x \in DOMAIN rs : x # id BY <1>1
  <1>9. SameOrder(rs, out, DOMAIN rs) BY <1>4, <1>6, <1>7, <1>8 DEF SameOrder
  <1>10. \A x \in DOMAIN out : out[x].start = f[x].start /\ out[x].end = f[x].end
    BY <1>7 DEF SameBounds
  <1>11. DOMAIN out = DOMAIN f BY <1>7 DEF SameBounds
  <1>12. \A x \in DOMAIN rs : out[x].start = rs[x].start /\ (x # r => out[x].end = rs[x].end)
    BY <1>4, <1>6, <1>8, <1>10, <1>11
  <1>13. Extends(rs, out, id, r) BY <1>6, <1>7, <1>9, <1>11, <1>12 DEF Extends
  <1> QED BY <1>1, <1>4, <1>5, <1>6, <1>7, <1>8, <1>10, <1>11, <1>13 DEF Arranged

-----------------------------------------------------------------------------
(* Operations and their undo *)

\* A region is deleted, and the others are reindexed.
LEMMA DropReindexed ==
    ASSUME NEW rs, IsArrangement(rs), NEW r, NEW out \in Reindexings(Drop(rs, r))
    PROVE  /\ Arranged(out) /\ DOMAIN out = DOMAIN rs \ {r}
           /\ \A x \in DOMAIN rs \ {r} : out[x].start = rs[x].start /\ out[x].end = rs[x].end
           /\ SameOrder(rs, out, DOMAIN rs \ {r})
  <1> DEFINE f == Drop(rs, r)
  <1>1. /\ IsArrangement(f) /\ DOMAIN f = DOMAIN rs \ {r}
        /\ \A x \in DOMAIN rs : x # r => f[x] = rs[x]
    BY DropRegion
  <1>2. out \in Reindexings(f) OBVIOUS
  <1> HIDE DEF f
  <1>3. IsArrangement(out) /\ Compact(out) /\ SameBounds(f, out) /\ SameOrder(f, out, DOMAIN f)
    BY <1>1, <1>2, Reindexed
  <1> QED BY <1>1, <1>3 DEF SameBounds, SameOrder, Arranged

\* Without it, and with that end as it was, the arrangement is back.
LEMMA DroppedBack ==
    ASSUME NEW rs, Arranged(rs), NEW r \in DOMAIN rs, NEW id, NEW out, Extends(rs, out, id, r),
           out[r].end = rs[r].end
    PROVE  Reindexings(Drop(out, id)) = {rs}
  <1> DEFINE f == Drop(out, id)
  <1>1. IsArrangement(out) BY DEF Extends
  <1>2. /\ IsArrangement(f) /\ DOMAIN f = DOMAIN out \ {id}
        /\ \A x \in DOMAIN out : x # id => f[x] = out[x]
    BY <1>1, DropRegion
  <1> HIDE DEF f
  <1>3. DOMAIN f = DOMAIN rs /\ \A x \in DOMAIN rs : f[x] = out[x] BY <1>2 DEF Extends
  <1>4. SameBounds(f, rs) BY <1>3 DEF SameBounds, Extends
  <1>5. SameOrder(rs, f, DOMAIN rs) BY <1>3 DEF SameOrder, Extends
  <1>6. Reindexings(f) = {rs} BY <1>2, <1>4, <1>5, ReindexingRestores DEF Arranged
  <1> QED BY <1>6 DEF f

LEMMA JoinedBack ==
    ASSUME NEW rs, Arranged(rs), NEW r \in DOMAIN rs, NEW id, NEW out, Extends(rs, out, id, r)
    PROVE  /\ Reindexings([Drop(out, id) EXCEPT ![r].end = rs[r].end]) = {rs}
           /\ Reindexings(Drop([out EXCEPT ![r].end = rs[r].end], id)) = {rs}
  <1> DEFINE end == rs[r].end
             start == out[r].start
             whole == Resized(out, r, start, end)
  <1>1. IsArrangement(out) /\ r \in DOMAIN out /\ r # id BY DEF Extends
  <1>2. end \in Times BY DEF Arranged, IsArrangement, Region
  <1>3. out[r].start \in Times BY <1>1 DEF IsArrangement, Region
  <1>4. /\ IsArrangement(whole) /\ DOMAIN whole = DOMAIN out
        /\ whole[r].start = out[r].start /\ whole[r].end = end
        /\ \A x \in DOMAIN out : x # r => whole[x] = out[x]
        /\ \A x \in DOMAIN out : whole[x].index = out[x].index
    <2>1. start \in Times BY <1>3
    <2> HIDE DEF end, start
    <2>2. /\ IsArrangement(whole) /\ DOMAIN whole = DOMAIN out
          /\ whole[r].start = start /\ whole[r].end = end
          /\ \A x \in DOMAIN out : x # r => whole[x] = out[x]
          /\ \A x \in DOMAIN out : whole[x].index = out[x].index
      BY <1>1, <1>2, <2>1, ResizedRegion
    <2> QED BY <2>2 DEF start
  <1>5. [out EXCEPT ![r].end = end] = whole
    <2> HIDE DEF end
    <2> QED BY <1>1, EndWritten
  <1> HIDE DEF whole
  <1>6. Extends(rs, whole, id, r) /\ whole[r].end = rs[r].end
    BY <1>1, <1>4 DEF Extends, SameOrder
  <1>7. Reindexings(Drop(whole, id)) = {rs} BY <1>6, DroppedBack
  <1>8. [Drop(out, id) EXCEPT ![r].end = end] = Drop(whole, id)
    <2> HIDE DEF end
    <2> QED BY Zenon, <1>1, <1>5 DEF Drop
  <1> QED BY <1>5, <1>7, <1>8

\* The song's length is a number.
LEMMA LengthType == Length \in Nat
  BY ArrangementAssumption

\* What the editor asks for, or has asked for.
IsOperation(op) ==
    /\ op.does \in {"mix", "delete", "duplicate", "split", "move", "delete_range", "resize"}
    /\ op.from \in Times /\ op.to \in Nat

LEMMA DeleteUndone ==
    ASSUME NEW rs, Arranged(rs), NEW op, op.does = "delete", NEW id,
           NEW out \in Applications(op, rs, id), NEW n, NEW created
    PROVE  /\ Arranged(out)
           /\ Reversals(StoredAs(op, UndoMeta(op, rs, id), n, created), out) = {rs}
  <1> DEFINE r == op.region
             stored == StoredAs(op, UndoMeta(op, rs, id), n, created)
             f == Put(out, r, rs[r])
  <1>1. r \in DOMAIN rs /\ out \in Reindexings(Drop(rs, r)) BY DEF Applications
  <1>2. IsArrangement(rs) /\ r \in Nat /\ rs[r] \in Region
    BY <1>1 DEF Arranged, IsArrangement
  <1>3. /\ Arranged(out) /\ DOMAIN out = DOMAIN rs \ {r}
        /\ \A x \in DOMAIN rs \ {r} : out[x].start = rs[x].start /\ out[x].end = rs[x].end
        /\ SameOrder(rs, out, DOMAIN rs \ {r})
    <2> HIDE DEF r
    <2> QED BY <1>1, <1>2, DropReindexed
  <1>4. /\ stored.does = "delete" /\ stored.region = r
        /\ stored.meta.known = TRUE /\ stored.meta.was = rs[r]
    BY DEF StoredAs, UndoMeta
  <1>5. Reversals(stored, out) = {Moved(f, r, rs[r].index)}
    <2>1. (stored.does = "delete") = (stored.region \in DOMAIN out) <=> FALSE BY <1>3, <1>4
    <2> HIDE DEF stored, r
    <2> QED BY <1>3, <1>4, <2>1 DEF Reversals
  <1>6. /\ IsArrangement(f) /\ DOMAIN f = DOMAIN out \cup {r}
        /\ f[r] = rs[r] /\ \A x \in DOMAIN out : x # r => f[x] = out[x]
    <2> DEFINE new == rs[r]
    <2>1. IsArrangement(out) /\ r \in Nat /\ new \in Region BY <1>2, <1>3 DEF Arranged
    <2> HIDE DEF new, r
    <2>2. /\ IsArrangement(Put(out, r, new)) /\ DOMAIN Put(out, r, new) = DOMAIN out \cup {r}
          /\ Put(out, r, new)[r] = new
          /\ \A x \in DOMAIN out : x # r => Put(out, r, new)[x] = out[x]
      BY <2>1, PutRegion
    <2> QED BY <2>2 DEF new
  <1> HIDE DEF f, stored, r
  <1>7. DOMAIN f = DOMAIN rs BY <1>1, <1>3, <1>6
  <1>8. SameBounds(f, rs)
    <2> SUFFICES ASSUME NEW x \in DOMAIN rs
                 PROVE  rs[x].start = f[x].start /\ rs[x].end = f[x].end
      BY <1>7 DEF SameBounds
    <2>1. CASE x = r BY <1>6, <2>1
    <2>2. CASE x # r BY <1>3, <1>6, <2>2
    <2> QED BY <2>1, <2>2
  <1>9. SameOrder(rs, f, DOMAIN rs \ {r}) BY <1>3, <1>6 DEF SameOrder
  <1>10. Moved(f, r, rs[r].index) = rs BY <1>1, <1>6, <1>8, <1>9, MovedBack DEF Arranged
  <1> QED BY <1>3, <1>5, <1>10 DEF stored

LEMMA DuplicateUndone ==
    ASSUME NEW rs, Arranged(rs), NEW op, op.does = "duplicate",
           NEW id \in Nat, id \notin DOMAIN rs,
           NEW out \in Applications(op, rs, id), NEW n, NEW created
    PROVE  /\ Arranged(out)
           /\ Reversals(StoredAs(op, UndoMeta(op, rs, id), n, created), out) = {rs}
  <1> DEFINE r == op.region
             stored == StoredAs(op, UndoMeta(op, rs, id), n, created)
             new == [rs[r] EXCEPT !.index = @ + 1]
             f == Put(rs, id, new)
  <1>1. r \in DOMAIN rs /\ out \in Reindexings(f) BY DEF Applications
  <1>2. IsArrangement(rs) /\ rs[r] \in Region BY <1>1 DEF Arranged, IsArrangement
  <1>3. new \in Region BY <1>2 DEF Region
  <1>4. /\ IsArrangement(f) /\ DOMAIN f = DOMAIN rs \cup {id}
        /\ f[id] = new /\ \A x \in DOMAIN rs : x # id => f[x] = rs[x]
    <2> HIDE DEF new
    <2> QED BY <1>2, <1>3, PutRegion
  <1> HIDE DEF f, new
  <1>5. IsArrangement(out) /\ Compact(out) /\ SameBounds(f, out) /\ SameOrder(f, out, DOMAIN f)
    BY <1>1, <1>4, Reindexed
  <1>6. Extends(rs, out, id, r) /\ out[r].end = rs[r].end
    <2>1. \A x \in DOMAIN rs : x # id BY <1>1
    <2>2. SameOrder(rs, out, DOMAIN rs) BY <1>4, <1>5, <2>1 DEF SameOrder
    <2> HIDE DEF r
    <2>3. \A x \in DOMAIN rs : out[x].start = rs[x].start /\ out[x].end = rs[x].end
      BY <1>4, <1>5, <2>1 DEF SameBounds
    <2> QED BY <1>1, <1>4, <1>5, <2>2, <2>3 DEF Extends, SameBounds
  <1>7. /\ stored.does = "duplicate" /\ stored.meta.known = TRUE /\ stored.meta.made = id
    BY DEF StoredAs, UndoMeta
  <1> HIDE DEF stored, r
  <1>8. Duplicates(stored, out) = {id}
    BY <1>6, <1>7 DEF Duplicates, Extends
  <1>9. Reversals(stored, out) = UNION {Reindexings(Drop(out, x)) : x \in Duplicates(stored, out)}
    BY <1>7 DEF Reversals
  <1>10. Reindexings(Drop(out, id)) = {rs} BY <1>1, <1>6, DroppedBack
  <1>11. Reversals(stored, out) = {rs} BY <1>8, <1>9, <1>10
  <1> QED BY <1>5, <1>11 DEF Arranged, stored

LEMMA MoveUndone ==
    ASSUME NEW rs, Arranged(rs), NEW op, IsOperation(op), op.does = "move", NEW id,
           NEW out \in Applications(op, rs, id), NEW n, NEW created
    PROVE  /\ Arranged(out)
           /\ Reversals(StoredAs(op, UndoMeta(op, rs, id), n, created), out) = {rs}
  <1> DEFINE r == op.region
             to == op.to
             stored == StoredAs(op, UndoMeta(op, rs, id), n, created)
  <1>1. r \in DOMAIN rs /\ out = Moved(rs, r, to) BY DEF Applications
  <1>2. IsArrangement(rs) /\ to \in Nat BY DEF Arranged, IsOperation
  <1>3. \A x, y \in DOMAIN rs \ {r} : rs[x].index = rs[y].index => x = y
    BY DEF Arranged, Compact
  <1>4. /\ stored.does = "move" /\ stored.region = r
        /\ stored.meta.known = TRUE /\ stored.meta.was = rs[r]
    BY DEF StoredAs, UndoMeta
  <1> HIDE DEF r, to, stored
  <1>5. /\ IsArrangement(out) /\ Compact(out) /\ SameBounds(rs, out)
        /\ SameOrder(rs, out, DOMAIN rs \ {r})
    BY <1>1, <1>2, <1>3, MovedCompact
  <1>6. DOMAIN out = DOMAIN rs /\ SameBounds(out, rs) BY <1>5 DEF SameBounds
  <1>7. Reversals(stored, out) = {Moved(out, r, rs[r].index)}
    <2>1. (stored.does = "delete") = (stored.region \in DOMAIN out) <=> FALSE
      BY <1>1, <1>4, <1>6
    <2> QED BY <1>4, <2>1 DEF Reversals
  <1>8. Moved(out, r, rs[r].index) = rs BY <1>1, <1>2, <1>5, <1>6, MovedBack DEF Arranged
  <1> QED BY <1>5, <1>7, <1>8 DEF Arranged, stored

LEMMA SplitUndone ==
    ASSUME NEW rs, Arranged(rs), NEW op, IsOperation(op), op.does = "split",
           NEW id \in Nat, id \notin DOMAIN rs,
           NEW out \in Applications(op, rs, id), NEW n, NEW created
    PROVE  /\ Arranged(out)
           /\ StartingAt(rs, op.from) = {} =>
                 Reversals(StoredAs(op, UndoMeta(op, rs, id), n, created), out) = {rs}
  <1> DEFINE r == op.region
             at == op.from
             stored == StoredAs(op, UndoMeta(op, rs, id), n, created)
  <1>1. r \in DOMAIN rs /\ out \in Splits(rs, r, at, id) BY DEF Applications, Splits
  <1>2. IsArrangement(rs) /\ at \in Times BY DEF Arranged, IsOperation
  <1>3. /\ stored.does = "split" /\ stored.region = r /\ stored.from = at
        /\ stored.meta.known = TRUE /\ stored.meta.was = rs[r]
    BY DEF StoredAs, UndoMeta
  <1> HIDE DEF r, at, stored
  <1>4. /\ rs[r].start < at /\ Arranged(out) /\ Extends(rs, out, id, r)
        /\ out[r].end = at /\ out[id].start = at
    BY <1>1, <1>2, SplitRegion
  <1>5. DOMAIN out = DOMAIN rs \cup {id} /\ \A x \in DOMAIN rs : out[x].start = rs[x].start
    BY <1>4 DEF Extends
  <1>6. ASSUME StartingAt(rs, at) = {} PROVE Reversals(stored, out) = {rs}
    <2>1. \A x \in DOMAIN rs : out[x].start # at BY <1>5, <1>6 DEF StartingAt
    <2>2. StartingAt(out, at) = {id} BY <1>4, <1>5, <2>1 DEF StartingAt
    <2>3. r \in DOMAIN Drop(out, id) BY <1>1, <1>5 DEF Drop
    <2> DEFINE end == rs[r].end
               one == [Drop(out, id) EXCEPT ![r].end = end]
    <2>4. Joins(out, r, at, end) = Reindexings(one)
      <3> DEFINE d == Drop(out, id)
      <3>1. {Drop(out, x) : x \in StartingAt(out, at)} = {d} BY <2>2
      <3>2. {some \in {d} : r \in DOMAIN some} = {d} BY <2>3
      <3> HIDE DEF d, end
      <3>3. Joins(out, r, at, end) =
               UNION {Reindexings([o EXCEPT ![r].end = end]) :
                         o \in {some \in {d} : r \in DOMAIN some}}
        BY Zenon, <2>2, <3>1 DEF Joins
      <3>4. Joins(out, r, at, end) = UNION {Reindexings([o EXCEPT ![r].end = end]) : o \in {d}}
        BY Zenon, <3>2, <3>3
      <3>5. UNION {Reindexings([o EXCEPT ![r].end = end]) : o \in {d}} = Reindexings(one)
        BY Zenon DEF d
      <3> QED BY <3>4, <3>5
    <2>5. Reindexings(one) = {rs} BY <1>1, <1>4, JoinedBack
    <2>6. Reversals(stored, out) = UNION {Joins(out, r, at, e) : e \in {rs[r].end}}
      BY <1>3 DEF Reversals
    <2> HIDE DEF one
    <2>7. UNION {Joins(out, r, at, e) : e \in {rs[r].end}} = Joins(out, r, at, end) BY Zenon
    <2> QED BY <2>4, <2>5, <2>6, <2>7
  <1> QED BY <1>4, <1>6 DEF stored, at

\* A range inside a region is split off twice, and goes.
LEMMA RangeInside ==
    ASSUME NEW rs, Arranged(rs), NEW r \in DOMAIN rs, NEW from \in Times, NEW to \in Times,
           NEW id \in Nat, \A x \in DOMAIN rs : x < id,
           NEW two \in Splits(rs, r, from, id), NEW three \in Splits(two, id, to, id + 1),
           NEW out \in Reindexings(Drop(three, id))
    PROVE  /\ Arranged(out) /\ Extends(rs, out, id + 1, r)
           /\ rs[r].start < from /\ to < rs[r].end /\ out[r].end = from
           /\ out[id + 1].start = to /\ out[id + 1].end = rs[r].end
  <1> DEFINE next == id + 1
  <1>1. next \in Nat /\ next # id OBVIOUS
  <1>2. IsArrangement(rs) /\ id \notin DOMAIN rs /\ next \notin DOMAIN rs
    BY DEF Arranged, IsArrangement
  <1>3. /\ rs[r].start < from /\ Arranged(two) /\ Extends(rs, two, id, r)
        /\ two[r].end = from /\ two[id].start = from /\ two[id].end = rs[r].end
    BY <1>2, SplitRegion
  <1>4. /\ IsArrangement(two) /\ DOMAIN two = DOMAIN rs \cup {id}
        /\ \A x \in DOMAIN rs :
              two[x].start = rs[x].start /\ (x # r => two[x].end = rs[x].end)
        /\ SameOrder(rs, two, DOMAIN rs)
    BY <1>3 DEF Extends
  <1>5. id \in DOMAIN two /\ next \notin DOMAIN two /\ three \in Splits(two, id, to, next)
    BY <1>1, <1>2, <1>4
  <1> HIDE DEF next
  <1>6. /\ to < two[id].end /\ Arranged(three) /\ Extends(two, three, next, id)
        /\ three[next].start = to /\ three[next].end = two[id].end
    BY <1>1, <1>4, <1>5, SplitRegion
  <1>7. /\ IsArrangement(three) /\ DOMAIN three = DOMAIN two \cup {next}
        /\ \A x \in DOMAIN two :
              three[x].start = two[x].start /\ (x # id => three[x].end = two[x].end)
        /\ SameOrder(two, three, DOMAIN two)
    BY <1>6 DEF Extends
  <1>8. /\ Arranged(out) /\ DOMAIN out = DOMAIN three \ {id}
        /\ \A x \in DOMAIN three \ {id} :
              out[x].start = three[x].start /\ out[x].end = three[x].end
        /\ SameOrder(three, out, DOMAIN three \ {id})
    BY <1>7, DropReindexed
  <1>9. \A x \in DOMAIN rs : x \in DOMAIN two /\ x \in DOMAIN three \ {id} /\ x # id
    BY <1>2, <1>4, <1>7
  <1>10. DOMAIN out = DOMAIN rs \cup {next} BY <1>1, <1>2, <1>4, <1>7, <1>8
  <1>11. ASSUME NEW x \in DOMAIN rs
         PROVE  out[x].start = rs[x].start /\ (x # r => out[x].end = rs[x].end)
    <2>1. x \in DOMAIN two /\ x \in DOMAIN three \ {id} /\ x # id BY <1>9
    <2>2. out[x].start = three[x].start /\ out[x].end = three[x].end BY <1>8, <2>1
    <2>3. three[x].start = two[x].start /\ three[x].end = two[x].end BY <1>7, <2>1
    <2> QED BY <1>4, <2>2, <2>3
  <1>12. SameOrder(rs, out, DOMAIN rs)
    <2> SUFFICES ASSUME NEW x \in DOMAIN rs, NEW y \in DOMAIN rs, rs[x].index < rs[y].index
                 PROVE  out[x].index < out[y].index
      BY DEF SameOrder
    <2>1. two[x].index < two[y].index BY <1>4 DEF SameOrder
    <2>2. three[x].index < three[y].index BY <1>7, <1>9, <2>1 DEF SameOrder
    <2> QED BY <1>8, <1>9, <2>2 DEF SameOrder
  <1>13. Extends(rs, out, next, r)
    BY <1>2, <1>8, <1>10, <1>11, <1>12 DEF Extends, Arranged
  <1>14. out[r].end = from
    <2>1. r \in DOMAIN two /\ r \in DOMAIN three \ {id} /\ r # id BY <1>9
    <2> QED BY <1>3, <1>7, <1>8, <2>1
  <1>15. out[next].start = to /\ out[next].end = rs[r].end
    <2>1. next \in DOMAIN three \ {id} BY <1>1, <1>7
    <2> QED BY <1>3, <1>6, <1>8, <2>1
  <1> QED BY <1>3, <1>6, <1>8, <1>13, <1>14, <1>15 DEF next

\* Bounds of a region that are changed, and changed back.
LEMMA ResizedBack ==
    ASSUME NEW rs, Arranged(rs), NEW r \in DOMAIN rs, NEW start \in Times, NEW end \in Times
    PROVE  LET out == Resized(rs, r, start, end)
           IN  /\ Arranged(out) /\ DOMAIN out = DOMAIN rs
               /\ out[r].start = start /\ out[r].end = end
               /\ Resized(out, r, rs[r].start, rs[r].end) = rs
  <1> DEFINE out == Resized(rs, r, start, end)
             back == Resized(out, r, rs[r].start, rs[r].end)
  <1>1. IsArrangement(rs) BY DEF Arranged
  <1>2. /\ IsArrangement(out) /\ DOMAIN out = DOMAIN rs
        /\ out[r].start = start /\ out[r].end = end
        /\ \A x \in DOMAIN rs : x # r => out[x] = rs[x]
        /\ \A x \in DOMAIN rs : out[x].index = rs[x].index
        /\ Compact(rs) => Compact(out)
    BY <1>1, ResizedRegion
  <1> HIDE DEF out
  <1>3. out \in [DOMAIN rs -> Region] /\ rs \in [DOMAIN rs -> Region]
    BY <1>1, <1>2 DEF IsArrangement
  <1>4. back = [out EXCEPT ![r] = [out[r] EXCEPT !.start = rs[r].start, !.end = rs[r].end]]
    BY <1>3 DEF Resized
  <1> HIDE DEF back
  <1>5. [out[r] EXCEPT !.start = rs[r].start, !.end = rs[r].end] = rs[r]
    <2>1. out[r] \in Region /\ rs[r] \in Region /\ out[r].index = rs[r].index BY <1>2, <1>3
    <2> QED BY <2>1 DEF Region
  <1>6. back = rs BY <1>2, <1>3, <1>4, <1>5
  <1> QED BY <1>2, <1>6 DEF Arranged, out, back

LEMMA ResizeUndone ==
    ASSUME NEW rs, Arranged(rs), NEW op, IsOperation(op), op.does = "resize", NEW id,
           NEW out \in Applications(op, rs, id), NEW n, NEW created
    PROVE  /\ Arranged(out)
           /\ Reversals(StoredAs(op, UndoMeta(op, rs, id), n, created), out) = {rs}
  <1> DEFINE r == op.region
             from == op.from
             to == op.to
             stored == StoredAs(op, UndoMeta(op, rs, id), n, created)
  <1>1. r \in DOMAIN rs /\ to <= Length /\ out = Resized(rs, r, from, to)
    <2>1. op.to \in Int /\ Length \in Int BY LengthType DEF IsOperation
    <2> QED BY <2>1 DEF Applications
  <1>2. from \in Times /\ to \in Times
    BY <1>1, LengthType DEF IsOperation, Times
  <1>3. /\ stored.does = "resize" /\ stored.region = r
        /\ stored.meta.known = TRUE /\ stored.meta.was = rs[r]
    BY DEF StoredAs, UndoMeta
  <1> HIDE DEF r, from, to, stored
  <1>4. /\ Arranged(out) /\ DOMAIN out = DOMAIN rs
        /\ Resized(out, r, rs[r].start, rs[r].end) = rs
    BY <1>1, <1>2, ResizedBack
  <1>5. Reversals(stored, out) = {Resized(out, r, rs[r].start, rs[r].end)}
    <2>1. (stored.does = "delete") = (stored.region \in DOMAIN out) <=> FALSE
      BY <1>1, <1>3, <1>4
    <2> QED BY <1>3, <2>1 DEF Reversals
  <1> QED BY <1>4, <1>5 DEF stored

LEMMA RangeUndone ==
    ASSUME NEW rs, Arranged(rs), NEW op, IsOperation(op), op.does = "delete_range",
           NEW id \in Nat, \A x \in DOMAIN rs : x < id,
           NEW out \in Applications(op, rs, id), NEW n, NEW created
    PROVE  /\ Arranged(out)
           /\ Reversals(StoredAs(op, UndoMeta(op, rs, id), n, created), out) = {rs}
  <1> DEFINE r == op.region
             from == op.from
             to == op.to
             stored == StoredAs(op, UndoMeta(op, rs, id), n, created)
  <1>1. r \in DOMAIN rs /\ out \in RangeDeletions(rs, r, from, to, id)
    BY DEF Applications
  <1>2. IsArrangement(rs) /\ from \in Times /\ to \in Nat BY DEF Arranged, IsOperation
  <1>3. /\ stored.does = "delete_range" /\ stored.region = r
        /\ stored.from = from /\ stored.to = to
        /\ stored.meta.known = TRUE /\ stored.meta.was = rs[r] /\ stored.meta.made = id + 1
    BY DEF StoredAs, UndoMeta
  <1> HIDE DEF r, from, to, stored
  <1>4. rs[r].start \in Times /\ rs[r].end \in Times BY <1>1, <1>2 DEF IsArrangement, Region
  <1>5. to \in Times
    <2>1. ~(to > rs[r].end) BY <1>1 DEF RangeDeletions
    <2> QED BY <1>2, <1>4, <2>1, LengthType DEF Times
  <1>6. ASSUME r \in DOMAIN out
        PROVE  Reversals(stored, out) = RangeRestorations(stored, out)
    <2>1. (stored.does = "delete") = (stored.region \in DOMAIN out) <=> FALSE
      BY <1>3, <1>6
    <2> QED BY <1>3, <2>1 DEF Reversals
  <1>7. CASE TakesStart(rs[r], from)
    <2> DEFINE end == rs[r].end
    <2>1. out = [rs EXCEPT ![r].start = to] BY <1>1, <1>7 DEF RangeDeletions
    <2>2. out = Resized(rs, r, to, rs[r].end) BY <1>1, <1>2, <2>1, StartWritten
    <2>3. /\ Arranged(out) /\ DOMAIN out = DOMAIN rs /\ out[r].end = end
          /\ Resized(out, r, rs[r].start, end) = rs
      <3>1. end \in Times /\ out = Resized(rs, r, to, end) BY <1>4, <2>2
      <3> HIDE DEF end
      <3>2. /\ Arranged(out) /\ DOMAIN out = DOMAIN rs /\ out[r].end = end
            /\ Resized(out, r, rs[r].start, rs[r].end) = rs
        BY <1>1, <1>5, <3>1, ResizedBack
      <3> QED BY <3>2 DEF end
    <2>4. IsArrangement(out) /\ r \in DOMAIN out BY <1>1, <2>3 DEF Arranged
    <2>5. [out EXCEPT ![r].start = rs[r].start] = Resized(out, r, rs[r].start, out[r].end)
      BY <2>4, StartWritten
    <2>6. RangeRestorations(stored, out) = {[out EXCEPT ![r].start = rs[r].start]}
      BY <1>3, <1>7 DEF RangeRestorations
    <2> QED BY <1>6, <2>3, <2>4, <2>5, <2>6 DEF stored
  <1>8. CASE ~TakesStart(rs[r], from) /\ TakesEnd(rs[r], to)
    <2> DEFINE start == rs[r].start
    <2>1. out = [rs EXCEPT ![r].end = from] BY <1>1, <1>8 DEF RangeDeletions
    <2>2. out = Resized(rs, r, rs[r].start, from)
      <3>1. [rs EXCEPT ![r].end = from] = Resized(rs, r, rs[r].start, from)
        BY <1>1, <1>2, EndWritten
      <3> QED BY <2>1, <3>1
    <2>3. /\ Arranged(out) /\ DOMAIN out = DOMAIN rs /\ out[r].start = start
          /\ Resized(out, r, start, rs[r].end) = rs
      <3>1. start \in Times /\ out = Resized(rs, r, start, from) BY <1>4, <2>2
      <3> HIDE DEF start
      <3>2. /\ Arranged(out) /\ DOMAIN out = DOMAIN rs /\ out[r].start = start
            /\ Resized(out, r, rs[r].start, rs[r].end) = rs
        BY <1>1, <1>2, <3>1, ResizedBack
      <3> QED BY <3>2 DEF start
    <2>4. IsArrangement(out) /\ r \in DOMAIN out BY <1>1, <2>3 DEF Arranged
    <2>5. [out EXCEPT ![r].end = rs[r].end] = Resized(out, r, out[r].start, rs[r].end)
      BY <2>4, EndWritten
    <2>6. RangeRestorations(stored, out) = {[out EXCEPT ![r].end = rs[r].end]}
      BY <1>3, <1>8 DEF RangeRestorations
    <2> QED BY <1>6, <2>3, <2>4, <2>5, <2>6 DEF stored
  <1>9. CASE ~TakesStart(rs[r], from) /\ ~TakesEnd(rs[r], to)
    <2> DEFINE Left(two) == UNION {Reindexings(Drop(three, id)) :
                                      three \in Splits(two, id, to, id + 1)}
    <2>1. out \in UNION {Left(two) : two \in Splits(rs, r, from, id)}
      BY <1>1, <1>9 DEF RangeDeletions
    <2>2. PICK two \in Splits(rs, r, from, id) : out \in Left(two)
      <3> HIDE DEF Left
      <3> QED BY <2>1
    <2>3. PICK three \in Splits(two, id, to, id + 1) : out \in Reindexings(Drop(three, id))
      BY <2>2
    <2>4. Arranged(out) /\ Extends(rs, out, id + 1, r)
      BY Zenon, <1>1, <1>2, <1>5, <2>3, RangeInside
    <2>5. r \in DOMAIN out /\ id + 1 \in DOMAIN out /\ id + 1 # r
      BY <1>1, <2>4 DEF Extends
    <2> DEFINE whole == [out EXCEPT ![r].end = rs[r].end]
    <2>6. Tails(stored, out) = {id + 1} BY <1>3, <2>5 DEF Tails
    <2>7. RangeRestorations(stored, out) =
             UNION {Reindexings(IF x = r THEN whole ELSE Drop(whole, x)) : x \in {id + 1}}
      BY <1>3, <1>9, <2>6 DEF RangeRestorations
    <2>8. Reindexings(Drop(whole, id + 1)) = {rs}
      <3> DEFINE next == id + 1
      <3>1. Extends(rs, out, next, r) BY <2>4
      <3> HIDE DEF next
      <3>2. Reindexings(Drop([out EXCEPT ![r].end = rs[r].end], next)) = {rs}
        BY <1>1, <3>1, JoinedBack
      <3> QED BY <3>2 DEF next
    <2>9. RangeRestorations(stored, out) = {rs}
      <3> HIDE DEF whole
      <3> QED BY <2>5, <2>7, <2>8
    <2> QED BY <1>6, <2>4, <2>5, <2>9 DEF stored
  <1> QED BY <1>7, <1>8, <1>9

\* Whatever is applied, the arrangement that comes of it is one, and the undo
\* gives back the one before.
LEMMA AppliedAndUndone ==
    ASSUME NEW rs, Arranged(rs), NEW op, IsOperation(op),
           NEW id \in Nat, \A x \in DOMAIN rs : x < id,
           NEW out \in Applications(op, rs, id), NEW n, NEW created
    PROVE  /\ Arranged(out)
           /\ (op.does = "split" => StartingAt(rs, op.from) = {}) =>
                 Reversals(StoredAs(op, UndoMeta(op, rs, id), n, created), out) = {rs}
  <1>1. id \notin DOMAIN rs BY DEF Arranged, IsArrangement
  <1>2. CASE op.does = "mix"
    <2>1. out = rs BY <1>2 DEF Applications
    <2>2. Reversals(StoredAs(op, UndoMeta(op, rs, id), n, created), out) = {out}
      BY <1>2 DEF Reversals, StoredAs
    <2> QED BY <2>1, <2>2
  <1>3. CASE op.does = "delete" BY <1>3, DeleteUndone
  <1>4. CASE op.does = "duplicate" BY <1>1, <1>4, DuplicateUndone
  <1>5. CASE op.does = "split" BY <1>1, <1>5, SplitUndone
  <1>6. CASE op.does = "move" BY <1>6, MoveUndone
  <1>7. CASE op.does = "delete_range" BY <1>7, RangeUndone
  <1>8. CASE op.does = "resize" BY <1>8, ResizeUndone
  <1> QED BY <1>2, <1>3, <1>4, <1>5, <1>6, <1>7, <1>8 DEF IsOperation

\* An end that is put back, and the regions reindexed.
LEMMA EndReindexed ==
    ASSUME NEW rs, IsArrangement(rs), NEW r \in DOMAIN rs, NEW end \in Times,
           NEW out \in Reindexings([rs EXCEPT ![r].end = end])
    PROVE  Arranged(out)
  <1> DEFINE start == rs[r].start
             f == Resized(rs, r, start, end)
  <1>1. start \in Times BY DEF IsArrangement, Region
  <1>2. [rs EXCEPT ![r].end = end] = f BY EndWritten
  <1> HIDE DEF start
  <1>3. IsArrangement(f) BY <1>1, ResizedRegion
  <1>4. out \in Reindexings(f) BY <1>2
  <1> HIDE DEF f
  <1> QED BY <1>3, <1>4, Reindexed DEF Arranged

\* Undo of a split, of a range, of an operation: what comes of it is an
\* arrangement.
LEMMA Joined ==
    ASSUME NEW rs, Arranged(rs), NEW r, NEW at, NEW end \in Times, NEW out \in Joins(rs, r, at, end)
    PROVE  Arranged(out)
  <1> DEFINE left == IF StartingAt(rs, at) = {} THEN {rs} ELSE {Drop(rs, x) : x \in StartingAt(rs, at)}
             Wholes(one) == Reindexings([one EXCEPT ![r].end = end])
  <1>1. out \in UNION {Wholes(one) : one \in {some \in left : r \in DOMAIN some}}
    BY Zenon DEF Joins
  <1>2. PICK one \in left : r \in DOMAIN one /\ out \in Wholes(one)
    <2> HIDE DEF left, Wholes
    <2> QED BY Zenon, <1>1
  <1>3. IsArrangement(rs) BY DEF Arranged
  <1>4. IsArrangement(one)
    <2>1. CASE one = rs BY <1>3, <2>1
    <2>2. CASE one # rs
      <3>1. PICK x \in StartingAt(rs, at) : one = Drop(rs, x) BY <1>2, <2>2
      <3> QED BY <1>3, <3>1, DropRegion
    <2> QED BY <2>1, <2>2
  <1> QED BY <1>2, <1>4, EndReindexed

LEMMA RangeRestored ==
    ASSUME NEW rs, Arranged(rs), NEW op, op.region \in DOMAIN rs, op.meta.was \in Region,
           NEW out \in RangeRestorations(op, rs)
    PROVE  Arranged(out)
  <1> DEFINE r == op.region
             was == op.meta.was
             start == was.start
             end == was.end
             whole == [rs EXCEPT ![r].end = was.end]
  <1>1. IsArrangement(rs) /\ r \in DOMAIN rs BY DEF Arranged
  <1>2. start \in Times /\ end \in Times BY DEF Region
  <1>3. rs[r].start \in Times /\ rs[r].end \in Times BY <1>1 DEF IsArrangement, Region
  <1>4. CASE TakesStart(op.meta.was, op.from)
    <2> DEFINE stop == rs[r].end
    <2>1. out = [rs EXCEPT ![r].start = start] BY <1>4 DEF RangeRestorations
    <2> HIDE DEF r, start, was
    <2>2. [rs EXCEPT ![r].start = start] = Resized(rs, r, start, rs[r].end)
      BY <1>1, StartWritten
    <2>3. stop \in Times /\ out = Resized(rs, r, start, stop) BY <1>3, <2>1, <2>2
    <2> HIDE DEF stop
    <2> QED BY <1>1, <1>2, <2>3, ResizedBack
  <1>5. CASE ~TakesStart(op.meta.was, op.from) /\ TakesEnd(op.meta.was, op.to)
    <2> DEFINE go == rs[r].start
    <2>1. out = [rs EXCEPT ![r].end = end] BY <1>5 DEF RangeRestorations
    <2> HIDE DEF r, end, was
    <2>2. [rs EXCEPT ![r].end = end] = Resized(rs, r, rs[r].start, end)
      BY <1>1, EndWritten
    <2>3. go \in Times /\ out = Resized(rs, r, go, end) BY <1>3, <2>1, <2>2
    <2> HIDE DEF go
    <2> QED BY <1>1, <1>2, <2>3, ResizedBack
  <1>6. CASE ~TakesStart(op.meta.was, op.from) /\ ~TakesEnd(op.meta.was, op.to)
    <2>1. ASSUME Tails(op, rs) = {} PROVE out \in Reindexings([rs EXCEPT ![r].end = end])
      BY <1>6, <2>1 DEF RangeRestorations
    <2> DEFINE Left(x) == Reindexings(IF x = r THEN whole ELSE Drop(whole, x))
    <2>2. ASSUME Tails(op, rs) # {} PROVE out \in UNION {Left(x) : x \in Tails(op, rs)}
      BY <1>6, <2>2 DEF RangeRestorations
    <2>3. CASE Tails(op, rs) = {}
      <3>1. out \in Reindexings([rs EXCEPT ![r].end = end]) BY <2>1, <2>3
      <3> HIDE DEF r, end
      <3> QED BY <1>1, <1>2, <3>1, EndReindexed
    <2>4. CASE Tails(op, rs) # {}
      <3>1. PICK x \in Tails(op, rs) : out \in Left(x)
        <4> HIDE DEF Left
        <4> QED BY <2>2, <2>4
      <3>2. CASE x = r
        <4>1. out \in Reindexings([rs EXCEPT ![r].end = end]) BY <3>1, <3>2
        <4> HIDE DEF r, end
        <4> QED BY <1>1, <1>2, <4>1, EndReindexed
      <3>3. CASE x # r
        <4> DEFINE go == rs[r].start
        <4>1. out \in Reindexings(Drop(whole, x)) BY <3>1, <3>3
        <4> HIDE DEF r, end, was
        <4>2. [rs EXCEPT ![r].end = end] = Resized(rs, r, rs[r].start, end)
          BY <1>1, EndWritten
        <4>3. go \in Times /\ whole = Resized(rs, r, go, end) BY <1>3, <4>2 DEF end
        <4> HIDE DEF go, whole
        <4>4. IsArrangement(whole) BY <1>1, <1>2, <4>3, ResizedRegion
        <4> QED BY <4>1, <4>4, DropReindexed
      <3> QED BY <3>2, <3>3
    <2> QED BY <2>3, <2>4
  <1> QED BY <1>4, <1>5, <1>6

LEMMA Reversed ==
    ASSUME NEW rs, Arranged(rs), NEW op, IsOperation(op), op.region \in Nat, op.meta.was \in Region,
           op.meta.known \in BOOLEAN, NEW out \in Reversals(op, rs)
    PROVE  Arranged(out)
  <1> DEFINE r == op.region
             was == op.meta.was
             at == op.from
             place == op.meta.was.index
  <1>1. IsArrangement(rs) /\ was \in Region /\ r \in Nat BY DEF Arranged
  <1>2. place \in Nat /\ was.start \in Times /\ was.end \in Times BY <1>1 DEF Region
  <1>3. \A x, y \in DOMAIN rs : rs[x].index = rs[y].index => x = y BY DEF Arranged, Compact
  <1>4. CASE op.does = "mix" BY <1>4 DEF Reversals
  <1>5. CASE op.does = "duplicate"
    <2> DEFINE Left(x) == Reindexings(Drop(rs, x))
    <2>1. out \in UNION {Left(x) : x \in Duplicates(op, rs)} BY <1>5 DEF Reversals
    <2>2. PICK x \in Duplicates(op, rs) : out \in Left(x)
      <3> HIDE DEF Left
      <3> QED BY <2>1
    <2> QED BY <1>1, <2>2, DropReindexed
  <1>6. CASE op.does = "split"
    <2> DEFINE Ends == IF op.meta.known THEN {was.end} ELSE {rs[x].end : x \in StartingAt(rs, at)}
               Left(end) == Joins(rs, r, at, end)
    <2>1. out \in UNION {Left(end) : end \in Ends} BY <1>6 DEF Reversals
    <2>2. PICK end \in Ends : out \in Left(end)
      <3> HIDE DEF Left, Ends
      <3> QED BY <2>1
    <2>3. end \in Times
      <3>1. \A x \in StartingAt(rs, at) : rs[x].end \in Times
        BY <1>1 DEF StartingAt, IsArrangement, Region
      <3> QED BY <1>2, <2>2, <3>1
    <2> HIDE DEF r, at
    <2> QED BY <2>2, <2>3, Joined
  <1>7. CASE op.does = "delete"
    <2> DEFINE f == Put(rs, r, was)
    <2>1. r \notin DOMAIN rs /\ out = Moved(f, r, place) BY <1>7 DEF Reversals
    <2> HIDE DEF was, place, r
    <2>2. /\ IsArrangement(f) /\ DOMAIN f = DOMAIN rs \cup {r}
          /\ f[r] = was /\ \A x \in DOMAIN rs : x # r => f[x] = rs[x]
      BY <1>1, PutRegion
    <2> HIDE DEF f
    <2>3. \A x, y \in DOMAIN f \ {r} : f[x].index = f[y].index => x = y BY <1>3, <2>2
    <2>4. IsArrangement(f) /\ r \in DOMAIN f BY <2>2
    <2> QED BY <1>2, <2>1, <2>3, <2>4, MovedCompact DEF Arranged
  <1>8. CASE op.does = "move"
    <2>1. r \in DOMAIN rs /\ out = Moved(rs, r, place) BY <1>8 DEF Reversals
    <2> HIDE DEF place, r
    <2>2. \A x, y \in DOMAIN rs \ {r} : rs[x].index = rs[y].index => x = y BY <1>3
    <2> QED BY <1>1, <1>2, <2>1, <2>2, MovedCompact DEF Arranged
  <1>9. CASE op.does = "delete_range"
    <2>1. r \in DOMAIN rs /\ out \in RangeRestorations(op, rs) BY <1>9 DEF Reversals
    <2> QED BY <1>1, <2>1, RangeRestored
  <1>10. CASE op.does = "resize"
    <2> DEFINE start == was.start
               end == was.end
    <2>1. r \in DOMAIN rs /\ out = Resized(rs, r, start, end) BY <1>10 DEF Reversals
    <2>2. start \in Times /\ end \in Times BY <1>2
    <2> HIDE DEF r, start, end
    <2> QED BY <2>1, <2>2, ResizedBack
  <1> QED BY <1>4, <1>5, <1>6, <1>7, <1>8, <1>9, <1>10 DEF IsOperation

\* The regions that a song starts with are its parts, one after the other.
LEMMA DefaultArranged ==
    /\ Arranged(DefaultRegions(Length))
    /\ \A r \in DOMAIN DefaultRegions(Length) : r < Cardinality(Cuts)
    /\ \A r \in DOMAIN DefaultRegions(Length) :
          DefaultRegions(Length)[r].start + MinRange <= DefaultRegions(Length)[r].end
    /\ Cardinality(Cuts) \in Nat
  <1> DEFINE starts == Cuts \ {Length}
             n == Cardinality(starts)
             B(c) == Cardinality({d \in starts : d < c})
             R == {p \in starts \X starts : p[1] < p[2]}
             From(i) == CHOOSE c \in starts : B(c) = i - 1
             ends(c) == {d \in Cuts : d > c}
  <1>1. /\ IsFiniteSet(Cuts) /\ Cuts \subseteq Nat /\ Cuts # {}
        /\ Length \in Cuts /\ \A c \in Cuts : c <= Length
    BY ArrangementAssumption
  <1>2. /\ IsFiniteSet(starts) /\ n \in Nat
        /\ Cardinality(Cuts) \in Nat /\ n = Cardinality(Cuts) - 1
    <2> DEFINE total == Length
    <2>1. total \in Cuts BY <1>1
    <2> HIDE DEF total
    <2>2. IsFiniteSet(Cuts \ {total}) /\ Cardinality(Cuts \ {total}) = Cardinality(Cuts) - 1
      BY <1>1, <2>1, FS_RemoveElement
    <2>3. Cardinality(Cuts) \in Nat /\ Cardinality(Cuts \ {total}) \in Nat
      BY <1>1, <2>2, FS_CardinalityType
    <2> QED BY <2>2, <2>3 DEF total
  <1>3. \A c \in starts : c \in Nat /\ c \in Cuts BY <1>1
  <1>4. \A c, d \in starts : <<d, c>> \in R <=> d < c OBVIOUS
  <1>5. Orders(R, starts)
    <2> HIDE DEF R, starts
    <2> QED BY <1>3, <1>4 DEF Orders
  <1>6. ASSUME NEW c \in starts PROVE B(c) = Rank(R, starts, c)
    <2>1. {d \in starts : <<d, c>> \in R} = {d \in starts : d < c} BY <1>4
    <2> HIDE DEF R, starts
    <2> QED BY <2>1 DEF Rank
  <1>7. /\ \A c \in starts : Rank(R, starts, c) \in Nat /\ Rank(R, starts, c) < n
        /\ \A c, d \in starts : <<c, d>> \in R <=> Rank(R, starts, c) < Rank(R, starts, d)
    <2> HIDE DEF R, starts
    <2> QED BY <1>2, <1>5, RanksOrder
  <1> DEFINE f == [c \in starts |-> B(c)]
  <1>8. f \in [starts -> 0 .. n - 1] /\ \A c, d \in starts : f[c] = f[d] => c = d
    <2> HIDE DEF R, starts, B, n
    <2>1. \A c \in starts : f[c] = B(c) /\ f[c] \in 0 .. n - 1 BY <1>2, <1>6, <1>7
    <2>2. f \in [starts -> 0 .. n - 1] BY <2>1
    <2>3. ASSUME NEW c \in starts, NEW d \in starts, f[c] = f[d] PROVE c = d
      <3>1. Rank(R, starts, c) = Rank(R, starts, d) /\ Rank(R, starts, c) \in Nat
        BY <1>6, <1>7, <2>1, <2>3
      <3>2. <<c, d>> \notin R /\ <<d, c>> \notin R BY <1>7, <3>1
      <3>3. ~(c < d) /\ ~(d < c) BY <1>4, <3>2
      <3> QED BY <1>3, <3>3
    <2> QED BY <2>2, <2>3
  <1>9. {f[c] : c \in starts} = 0 .. n - 1
    <2> HIDE DEF starts, f
    <2> QED BY <1>2, <1>8, NumbersCount
  <1>10. ASSUME NEW i \in 1 .. n PROVE From(i) \in starts
    <2>1. i - 1 \in 0 .. n - 1 BY <1>2
    <2>2. \E c \in starts : f[c] = i - 1
      <3> HIDE DEF f, starts, n
      <3> QED BY <1>9, <2>1
    <2>3. \E c \in starts : B(c) = i - 1
      <3> HIDE DEF starts, B, n
      <3> QED BY <2>2
    <2> HIDE DEF starts, B, n
    <2> QED BY <2>3
  <1>11. ASSUME NEW c \in starts
         PROVE  c \in Times /\ Min(ends(c)) \in Times /\ c + MinRange <= Min(ends(c))
    <2>1. c \in Nat /\ c < Length BY <1>1
    <2>2. ends(c) \in SUBSET Int /\ ends(c) # {} /\ ends(c) \in SUBSET Cuts
      <3>1. Length \in ends(c)
        <4> DEFINE total == Length
        <4>1. total \in Cuts /\ total \in Nat /\ c < total BY <1>1, <2>1
        <4> HIDE DEF total
        <4>2. total > c BY <2>1, <4>1
        <4> QED BY <4>1, <4>2 DEF total
      <3>2. ends(c) \in SUBSET Cuts OBVIOUS
      <3> HIDE DEF ends
      <3>3. ends(c) # {} BY <3>1
      <3>4. ends(c) \in SUBSET Int
        <4>1. \A d \in Cuts : d \in Int BY <1>1
        <4> QED BY <3>2, <4>1
      <3> QED BY <3>2, <3>3, <3>4
    <2>3. Min(ends(c)) \in ends(c)
      <3> HIDE DEF ends
      <3>1. IsFiniteSet(ends(c)) BY <1>1, <2>2, FS_Subset
      <3> DEFINE E == ends(c)
      <3>2. E \in SUBSET Int /\ IsFiniteSet(E) /\ E # {} BY <2>2, <3>1
      <3> HIDE DEF E
      <3>3. Min(E) \in E BY <3>2, MinExists
      <3> QED BY <3>3 DEF E
    <2>4. Min(ends(c)) \in Cuts BY <2>2, <2>3
    <2> DEFINE e == Min(ends(c))
    <2>5. e > c BY <2>3
    <2>6. e \in Nat /\ e <= Length BY <1>1, <2>4
    <2>7. Length \in Nat BY <1>1
    <2> HIDE DEF e
    <2>8. c \in Times /\ e \in Times BY <2>1, <2>6, <2>7 DEF Times
    <2>9. c + MinRange <= e
      <3>1. c \in Cuts /\ e \in Cuts /\ c < e BY <1>3, <2>1, <2>4, <2>5, <2>6 DEF e
      <3> QED BY <3>1, ArrangementAssumption
    <2> QED BY <2>8, <2>9 DEF e
  <1> DEFINE rs == DefaultRegions(Length)
             At(i) == [start |-> From(i), end |-> Min(ends(From(i))), index |-> i - 1]
  <1>12. rs = [i \in 1 .. n |-> At(i)] BY Zenon DEF DefaultRegions
  <1>13. \A i \in 1 .. n : At(i) \in Region /\ At(i).index = i - 1 /\ At(i).start + MinRange <= At(i).end
    <2> TAKE i \in 1 .. n
    <2>1. /\ From(i) \in Times /\ Min(ends(From(i))) \in Times
          /\ From(i) + MinRange <= Min(ends(From(i)))
      BY Zenon, <1>10, <1>11
    <2>2. i - 1 \in Nat BY <1>2
    <2> HIDE DEF From, ends
    <2> QED BY <2>1, <2>2 DEF Region
  <1> HIDE DEF At, rs
  <1>14. /\ DOMAIN rs = 1 .. n /\ rs \in [1 .. n -> Region]
         /\ \A i \in 1 .. n : rs[i].index = i - 1 /\ rs[i].start + MinRange <= rs[i].end
    BY <1>12, <1>13
  <1>15. IsFiniteSet(1 .. n) /\ Cardinality(1 .. n) = n
    <2> HIDE DEF n
    <2>1. 1 \in Int /\ n \in Int BY <1>2
    <2>2. IsFiniteSet(1 .. n) /\ Cardinality(1 .. n) = IF 1 > n THEN 0 ELSE n - 1 + 1
      BY <2>1, FS_Interval
    <2> QED BY <1>2, <2>2
  <1> HIDE DEF n
  <1>16. IsArrangement(rs) BY <1>2, <1>14, <1>15 DEF IsArrangement
  <1>17. Compact(rs) BY <1>2, <1>14, <1>15 DEF Compact
  <1>18. \A r \in DOMAIN rs : r < Cardinality(Cuts) BY <1>2, <1>14
  <1>19. \A r \in DOMAIN rs : rs[r].start + MinRange <= rs[r].end BY <1>14
  <1> QED BY <1>2, <1>16, <1>17, <1>18, <1>19 DEF Arranged, rs

-----------------------------------------------------------------------------
(* The editor's state *)

Metas == [known : BOOLEAN, was : Region, made : Nat]

VersionRows ==
    [status : {"draft", "rendering", "completed", "failed"}, ops : SUBSET StoredOps]

Requests ==
    [does : {"nothing", "undo", "redo", "render"}, version : Nat \ {0}, op : StoredOps]

\* The arrangement is one, the next id is new to it, and what is stored of
\* operations can be undone into it.  The first version stays a draft, so that
\* there is a current one; what is rendered is another one.
RegionsInv ==
    /\ Arranged(regions)
    /\ nextId \in Nat /\ \A r \in DOMAIN regions : r < nextId

VersionsInv ==
    /\ versions \in Seq(VersionRows) /\ Len(versions) > 0 /\ versions[1].status = "draft"

SlotsInv ==
    /\ slot \in [Slots -> Requests]
    /\ \A q \in Slots :
          /\ slot[q].version <= Len(versions)
          /\ slot[q].does = "render" => slot[q].version > 1

CountsInv ==
    /\ clock \in Nat
    /\ asked \in 0 .. MaxOps /\ undos \in 0 .. MaxUndos /\ renders \in 0 .. MaxRenders

EditorInv == RegionsInv /\ VersionsInv /\ SlotsInv /\ CountsInv

\* What is stored has the type of an operation.
LEMMA ZeroIsTime == 0 \in Times
  BY LengthType DEF Times

LEMMA NoMetaTyped == NoMeta \in Metas
  BY ZeroIsTime DEF NoMeta, Metas, Region

LEMMA MetaTyped ==
    ASSUME IsArrangement(regions), nextId \in Nat, NEW op, op.does = "mix" \/ op.region \in DOMAIN regions
    PROVE  UndoMeta(op, regions, nextId) \in Metas
  <1>1. CASE op.does = "mix" BY <1>1, NoMetaTyped DEF UndoMeta
  <1>2. CASE op.does # "mix"
    <2>1. regions[op.region] \in Region BY <1>2 DEF IsArrangement
    <2>2. (IF op.does = "delete_range" THEN nextId + 1 ELSE nextId) \in Nat OBVIOUS
    <2> QED BY <1>2, <2>1, <2>2 DEF UndoMeta, Metas
  <1> QED BY <1>1, <1>2

LEMMA StoredTyped ==
    ASSUME NEW op, IsOperation(op), op.region \in Nat, NEW meta \in Metas, NEW id \in Nat,
           NEW created \in Nat
    PROVE  StoredAs(op, meta, id, created) \in StoredOps
  BY DEF StoredAs, StoredOps, IsOperation, Metas, Region

LEMMA StoredIsOperation ==
    ASSUME NEW op \in StoredOps
    PROVE  /\ IsOperation(op) /\ op.region \in Nat /\ op.meta \in Metas
           /\ op.meta.was \in Region /\ op.meta.known \in BOOLEAN
           /\ op.id \in Nat
  BY DEF StoredOps, IsOperation, Metas, Region

LEMMA IdleTyped == IdleSlot \in Requests
  <1> DEFINE op == Asked("mix", 1, 0, 0)
  <1>1. IsOperation(op) /\ op.region \in Nat BY ZeroIsTime DEF Asked, IsOperation
  <1> HIDE DEF op
  <1>2. StoredAs(op, NoMeta, 0, 0) \in StoredOps BY <1>1, NoMetaTyped, StoredTyped
  <1> QED BY <1>2 DEF IdleSlot, Requests, op

\* What the editor may ask for is an operation on a region that is there.
LEMMA OperationsTyped ==
    ASSUME IsArrangement(regions), NEW op \in Operations
    PROVE  /\ IsOperation(op) /\ op.region \in Nat
           /\ op.does = "mix" \/ op.region \in DOMAIN regions
  <1> DEFINE Ids == DOMAIN regions
  <1>1. Ids \subseteq Nat BY DEF IsArrangement
  <1>2. \A t \in Times : t \in Nat BY DEF Times
  <1>3. CASE op = Asked("mix", 1, 0, 0) BY <1>3, ZeroIsTime DEF Asked, IsOperation
  <1>4. CASE op \in {Asked(d, r, 0, 0) : d \in {"delete", "duplicate"}, r \in Ids}
    BY <1>1, <1>4, ZeroIsTime DEF Asked, IsOperation
  <1>5. CASE op \in {Asked("split", r, at, 0) : r \in Ids, at \in Times}
    BY <1>1, <1>5 DEF Asked, IsOperation
  <1>6. CASE op \in {Asked("move", r, 0, i) : r \in Ids, i \in 0 .. Cardinality(Ids) - 1}
    BY <1>1, <1>6, ZeroIsTime DEF Asked, IsOperation
  <1>7. CASE op \in {Asked(d, r, from, to) : d \in {"delete_range", "resize"},
                        r \in Ids, from \in Times, to \in Times}
    BY <1>1, <1>2, <1>7 DEF Asked, IsOperation
  <1> QED BY <1>3, <1>4, <1>5, <1>6, <1>7 DEF Operations

\* There is a current version.
LEMMA CurrentIn == ASSUME VersionsInv PROVE Current \in 1 .. Len(versions)
  <1> DEFINE S == {v \in DOMAIN versions : versions[v].status \in {"draft", "rendering"}}
             n == Len(versions)
  <1>1. n \in Nat /\ n > 0 /\ DOMAIN versions = 1 .. n BY DEF VersionsInv
  <1>2. 1 \in S BY <1>1 DEF VersionsInv
  <1>3. S \in SUBSET (1 .. n) /\ S \in SUBSET Int BY <1>1
  <1>4. IsFiniteSet(1 .. n)
    <2>1. 1 \in Int /\ n \in Int BY <1>1
    <2> HIDE DEF n
    <2> QED BY <2>1, FS_Interval
  <1>5. Current = Max(S) BY DEF Current
  <1> HIDE DEF S, n
  <1>6. IsFiniteSet(S) BY <1>3, <1>4, FS_Subset
  <1>7. Max(S) \in S BY <1>2, <1>3, <1>6, MaxExists
  <1> QED BY <1>3, <1>5, <1>7 DEF n

\* The regions are set, and the next id is above theirs.
LEMMA RegionsSet ==
    ASSUME RegionsInv, NEW rs, Arranged(rs), SetRegions(rs)
    PROVE  RegionsInv' /\ nextId <= nextId'
  <1> DEFINE S == DOMAIN rs \cup {nextId - 1}
  <1>1. nextId \in Nat /\ DOMAIN rs \subseteq Nat /\ IsFiniteSet(DOMAIN rs)
    BY DEF RegionsInv, Arranged, IsArrangement
  <1>2. S \in SUBSET Int /\ S # {} BY <1>1
  <1>3. IsFiniteSet(S)
    <2> DEFINE D == DOMAIN rs
               e == nextId - 1
    <2>1. IsFiniteSet(D) BY <1>1
    <2> HIDE DEF D, e
    <2>2. IsFiniteSet(D \cup {e}) BY <2>1, FS_AddElement
    <2> QED BY <2>2 DEF D, e
  <1>4. nextId - 1 \in S /\ \A r \in DOMAIN rs : r \in S OBVIOUS
  <1>5. regions' = rs /\ nextId' = Max(S) + 1 BY DEF SetRegions
  <1> HIDE DEF S
  <1>6. Max(S) \in S /\ \A x \in S : Max(S) >= x BY <1>2, <1>3, MaxExists
  <1>7. Max(S) \in Int /\ Max(S) >= nextId - 1 BY <1>2, <1>4, <1>6
  <1>8. nextId' \in Nat /\ nextId <= nextId' BY <1>1, <1>5, <1>7
  <1>9. \A r \in DOMAIN rs : r < nextId'
    <2> TAKE r \in DOMAIN rs
    <2>1. Max(S) >= r /\ r \in Int BY <1>1, <1>4, <1>6
    <2> QED BY <1>5, <1>7, <2>1
  <1> QED BY <1>5, <1>8, <1>9 DEF RegionsInv, Arranged, IsArrangement, Compact

\* The operations of a version change, and nothing else does.
LEMMA OpsSet ==
    ASSUME VersionsInv, NEW v \in 1 .. Len(versions), NEW ops \in SUBSET StoredOps,
           versions' = [versions EXCEPT ![v].ops = ops]
    PROVE  VersionsInv' /\ Len(versions') = Len(versions)
  <1> DEFINE new == [versions[v] EXCEPT !.ops = ops]
  <1>1. versions \in Seq(VersionRows) /\ versions[v] \in VersionRows BY DEF VersionsInv
  <1>2. new \in VersionRows /\ new.status = versions[v].status BY <1>1 DEF VersionRows
  <1>3. versions' = [versions EXCEPT ![v] = new] OBVIOUS
  <1> HIDE DEF new
  <1>4. versions' \in Seq(VersionRows) /\ Len(versions') = Len(versions) BY <1>1, <1>2, <1>3
  <1>5. versions'[1].status = "draft" BY <1>1, <1>2, <1>3 DEF VersionsInv
  <1> QED BY <1>4, <1>5 DEF VersionsInv

\* A version is rendered, or its rendering ends; the first one is a draft.
LEMMA StatusSet ==
    ASSUME VersionsInv, NEW v \in 1 .. Len(versions), v # 1, NEW s \in {"completed", "failed"},
           versions' = [versions EXCEPT ![v].status = s]
    PROVE  VersionsInv' /\ Len(versions') = Len(versions)
  <1> DEFINE new == [versions[v] EXCEPT !.status = s]
  <1>1. versions \in Seq(VersionRows) /\ versions[v] \in VersionRows BY DEF VersionsInv
  <1>2. new \in VersionRows BY <1>1 DEF VersionRows
  <1>3. versions' = [versions EXCEPT ![v] = new] OBVIOUS
  <1> HIDE DEF new
  <1>4. versions' \in Seq(VersionRows) /\ Len(versions') = Len(versions) BY <1>1, <1>2, <1>3
  <1>5. versions'[1].status = "draft" BY <1>1, <1>3 DEF VersionsInv
  <1> QED BY <1>4, <1>5 DEF VersionsInv

\* A request changes, to one of a version that there is.
LEMMA SlotSet ==
    ASSUME SlotsInv, NEW q \in Slots, NEW new \in Requests, slot' = [slot EXCEPT ![q] = new],
           Len(versions) \in Nat, Len(versions') \in Nat, Len(versions') >= Len(versions),
           new.version <= Len(versions'), new.does = "render" => new.version > 1
    PROVE  SlotsInv'
  <1>1. slot' \in [Slots -> Requests] BY DEF SlotsInv
  <1>2. ASSUME NEW p \in Slots
        PROVE  /\ slot'[p].version <= Len(versions')
               /\ slot'[p].does = "render" => slot'[p].version > 1
    <2>1. slot[p].version \in Nat BY DEF SlotsInv, Requests
    <2>2. CASE p = q BY <2>2 DEF SlotsInv
    <2>3. CASE p # q BY <2>1, <2>3 DEF SlotsInv
    <2> QED BY <2>2, <2>3
  <1> QED BY <1>1, <1>2 DEF SlotsInv

LEMMA SlotsSame ==
    ASSUME SlotsInv, UNCHANGED slot, Len(versions') = Len(versions)
    PROVE  SlotsInv'
  BY DEF SlotsInv

\* A request that has ended.
LEMMA SlotIdle ==
    ASSUME SlotsInv, VersionsInv, NEW q \in Slots, slot' = [slot EXCEPT ![q] = IdleSlot],
           Len(versions') = Len(versions)
    PROVE  SlotsInv'
  <1>1. IdleSlot \in Requests BY IdleTyped
  <1>2. IdleSlot.version = 1 /\ IdleSlot.does = "nothing" BY DEF IdleSlot
  <1>3. Len(versions) \in Nat /\ Len(versions) > 0 BY DEF VersionsInv
  <1>4. /\ Len(versions') \in Nat /\ Len(versions') >= Len(versions)
        /\ IdleSlot.version <= Len(versions')
        /\ IdleSlot.does = "render" => IdleSlot.version > 1
    BY <1>2, <1>3
  <1> QED BY <1>1, <1>3, <1>4, SlotSet

LEMMA ActiveTyped ==
    ASSUME VersionsInv
    PROVE  ActiveOps(Current) \subseteq StoredOps /\ UndoneOps(Current) \subseteq StoredOps
  <1>1. Current \in 1 .. Len(versions) BY CurrentIn
  <1>2. versions[Current] \in VersionRows BY <1>1 DEF VersionsInv
  <1>3. versions[Current].ops \subseteq StoredOps BY <1>2 DEF VersionRows
  <1> QED BY <1>3 DEF ActiveOps, UndoneOps

LEMMA ApplyKeeps == ASSUME EditorInv, NEW q \in Slots, Apply(q) PROVE EditorInv'
  <1>1. RegionsInv /\ VersionsInv /\ SlotsInv /\ CountsInv BY DEF EditorInv
  <1>2. PICK op \in Operations : \E rs \in Applications(op, regions, nextId) :
           /\ SetRegions(rs)
           /\ versions' = [versions EXCEPT ![Current].ops = ActiveOps(Current)
                 \cup {StoredAs(op, UndoMeta(op, regions, nextId), clock, clock)}]
    BY DEF Apply
  <1>3. PICK rs \in Applications(op, regions, nextId) :
           /\ SetRegions(rs)
           /\ versions' = [versions EXCEPT ![Current].ops = ActiveOps(Current)
                 \cup {StoredAs(op, UndoMeta(op, regions, nextId), clock, clock)}]
    BY <1>2
  <1>4. /\ Arranged(regions) /\ IsArrangement(regions) /\ nextId \in Nat /\ clock \in Nat
        /\ \A r \in DOMAIN regions : r < nextId
    BY <1>1 DEF RegionsInv, Arranged, CountsInv
  <1>5. /\ IsOperation(op) /\ op.region \in Nat
        /\ op.does = "mix" \/ op.region \in DOMAIN regions
    BY <1>4, OperationsTyped
  <1>6. Arranged(rs) BY <1>3, <1>4, <1>5, AppliedAndUndone
  <1>7. RegionsInv' BY <1>1, <1>3, <1>6, RegionsSet
  <1> DEFINE meta == UndoMeta(op, regions, nextId)
             stored == StoredAs(op, meta, clock, clock)
             ops == ActiveOps(Current) \cup {stored}
  <1>8. meta \in Metas BY <1>4, <1>5, MetaTyped
  <1>9. stored \in StoredOps
    <2> HIDE DEF meta
    <2> QED BY <1>4, <1>5, <1>8, StoredTyped
  <1>10. ops \in SUBSET StoredOps
    <2> HIDE DEF stored
    <2> QED BY <1>1, <1>9, ActiveTyped
  <1>11. versions' = [versions EXCEPT ![Current].ops = ops] BY <1>3
  <1> HIDE DEF ops
  <1>12. VersionsInv' /\ Len(versions') = Len(versions)
    BY <1>1, <1>10, <1>11, CurrentIn, OpsSet
  <1>13. SlotsInv' BY <1>1, <1>12, SlotsSame DEF Apply
  <1>14. CountsInv' BY <1>1, EditorAssumption DEF CountsInv, Apply
  <1> QED BY <1>7, <1>12, <1>13, <1>14 DEF EditorInv

LEMMA ChoosesKeeps ==
    ASSUME EditorInv, NEW q \in Slots, NEW does \in {"undo", "redo"},
           NEW found \in SUBSET StoredOps, Chooses(q, does, found)
    PROVE  EditorInv'
  <1>1. RegionsInv /\ VersionsInv /\ SlotsInv /\ CountsInv BY DEF EditorInv
  <1>2. PICK op \in found :
           slot' = [slot EXCEPT ![q] = [does |-> does, version |-> Current, op |-> op]]
    BY DEF Chooses
  <1> DEFINE new == [does |-> does, version |-> Current, op |-> op]
  <1>3. Current \in 1 .. Len(versions) /\ Len(versions) \in Nat
    BY <1>1, CurrentIn DEF VersionsInv
  <1>4. new \in Requests /\ new.version <= Len(versions) /\ new.does # "render"
    BY <1>3 DEF Requests
  <1>5. slot' = [slot EXCEPT ![q] = new] BY <1>2
  <1> HIDE DEF new
  <1>6. UNCHANGED <<regions, nextId, versions, clock, asked, renders>>
        /\ undos < MaxUndos /\ undos' = undos + 1
    BY DEF Chooses
  <1>7. RegionsInv' BY <1>1, <1>6 DEF RegionsInv, Arranged, IsArrangement, Compact
  <1>8. VersionsInv' BY <1>1, <1>6 DEF VersionsInv
  <1>9. SlotsInv'
    <2>1. /\ Len(versions') \in Nat /\ Len(versions') >= Len(versions)
          /\ new.version <= Len(versions')
          /\ new.does = "render" => new.version > 1
      BY <1>3, <1>4, <1>6
    <2> QED BY <1>1, <1>3, <1>4, <1>5, <2>1, SlotSet
  <1>10. CountsInv' BY <1>1, <1>6, EditorAssumption DEF CountsInv
  <1> QED BY <1>7, <1>8, <1>9, <1>10 DEF EditorInv

LEMMA StartUndoKeeps == ASSUME EditorInv, NEW q \in Slots, StartUndo(q) PROVE EditorInv'
  <1> DEFINE found == {op \in ActiveOps(Current) :
                          \A other \in ActiveOps(Current) : op.created >= other.created}
  <1>1. Chooses(q, "undo", found) BY DEF StartUndo
  <1>2. found \in SUBSET StoredOps BY ActiveTyped DEF EditorInv
  <1> HIDE DEF found
  <1> QED BY <1>1, <1>2, ChoosesKeeps

LEMMA StartRedoKeeps == ASSUME EditorInv, NEW q \in Slots, StartRedo(q) PROVE EditorInv'
  <1> DEFINE found == {op \in UndoneOps(Current) :
                          \A other \in UndoneOps(Current) : op.undone >= other.undone}
  <1>1. Chooses(q, "redo", found) BY DEF StartRedo
  <1>2. found \in SUBSET StoredOps BY ActiveTyped DEF EditorInv
  <1> HIDE DEF found
  <1> QED BY <1>1, <1>2, ChoosesKeeps

\* The transaction of an undo or a redo.
LEMMA CommitKeeps ==
    ASSUME EditorInv, NEW q \in Slots, slot' = [slot EXCEPT ![q] = IdleSlot],
           UNCHANGED <<asked, undos, renders>>, NEW stored \in StoredOps, NEW gone,
           \/ UNCHANGED <<regions, versions, clock, nextId>>
           \/ /\ \E rs : Arranged(rs) /\ SetRegions(rs)
              /\ versions' = [versions EXCEPT ![slot[q].version].ops = (@ \ gone) \cup {stored}]
              /\ clock' = clock + 1
    PROVE  EditorInv'
  <1>1. RegionsInv /\ VersionsInv /\ SlotsInv /\ CountsInv BY DEF EditorInv
  <1>2. CASE UNCHANGED <<regions, versions, clock, nextId>>
    <2>1. RegionsInv' BY <1>1, <1>2 DEF RegionsInv, Arranged, IsArrangement, Compact
    <2>2. VersionsInv' /\ CountsInv' BY <1>1, <1>2 DEF VersionsInv, CountsInv
    <2>3. SlotsInv' BY <1>1, <1>2, SlotIdle
    <2> QED BY <2>1, <2>2, <2>3 DEF EditorInv
  <1>3. CASE /\ \E rs : Arranged(rs) /\ SetRegions(rs)
             /\ versions' = [versions EXCEPT ![slot[q].version].ops = (@ \ gone) \cup {stored}]
             /\ clock' = clock + 1
    <2>1. RegionsInv' BY <1>1, <1>3, RegionsSet
    <2> DEFINE v == slot[q].version
               ops == (versions[v].ops \ gone) \cup {stored}
    <2>2. v \in 1 .. Len(versions)
      BY <1>1 DEF SlotsInv, Requests, VersionsInv
    <2>3. ops \in SUBSET StoredOps
      <3>1. versions[v] \in VersionRows BY <1>1, <2>2 DEF VersionsInv
      <3> QED BY <3>1 DEF VersionRows
    <2>4. versions' = [versions EXCEPT ![v].ops = ops] BY <1>3
    <2> HIDE DEF v, ops
    <2>5. VersionsInv' /\ Len(versions') = Len(versions) BY <1>1, <2>2, <2>3, <2>4, OpsSet
    <2>6. SlotsInv' BY <1>1, <2>5, SlotIdle
    <2>7. CountsInv' BY <1>1, <1>3 DEF CountsInv
    <2> QED BY <2>1, <2>5, <2>6, <2>7 DEF EditorInv
  <1> QED BY <1>2, <1>3

LEMMA UndoKeeps == ASSUME EditorInv, NEW q \in Slots, Undo(q) PROVE EditorInv'
  <1> DEFINE op == slot[q].op
             v == slot[q].version
             at == {o \in versions[v].ops : o.id = op.id}
             stored == [op EXCEPT !.undone = clock]
  <1>1. Arranged(regions) /\ clock \in Nat /\ op \in StoredOps
    BY DEF EditorInv, RegionsInv, CountsInv, SlotsInv, Requests
  <1>2. stored \in StoredOps BY <1>1 DEF StoredOps
  <1>3. \A rs \in Reversals(op, regions) : Arranged(rs)
    <2> HIDE DEF op
    <2> QED BY <1>1, StoredIsOperation, Reversed
  <1>4. /\ slot' = [slot EXCEPT ![q] = IdleSlot] /\ UNCHANGED <<asked, undos, renders>>
        /\ \/ UNCHANGED <<regions, versions, clock, nextId>>
           \/ /\ \E rs \in Reversals(op, regions) : SetRegions(rs)
              /\ versions' = [versions EXCEPT ![v].ops = (@ \ at) \cup {stored}]
              /\ clock' = clock + 1
    BY DEF Undo, Commits
  <1>5. \/ UNCHANGED <<regions, versions, clock, nextId>>
        \/ /\ \E rs : Arranged(rs) /\ SetRegions(rs)
           /\ versions' = [versions EXCEPT ![slot[q].version].ops = (@ \ at) \cup {stored}]
           /\ clock' = clock + 1
    BY <1>3, <1>4
  <1> HIDE DEF at, stored
  <1> QED BY <1>2, <1>4, <1>5, CommitKeeps

LEMMA RedoKeeps == ASSUME EditorInv, NEW q \in Slots, Redo(q) PROVE EditorInv'
  <1> DEFINE op == slot[q].op
             v == slot[q].version
             at == {o \in versions[v].ops : o.id = op.id}
             stored == [op EXCEPT !.undone = 0,
                                  !.meta.made = IF op.does = "duplicate" THEN nextId ELSE @]
  <1>1. /\ Arranged(regions) /\ op \in StoredOps /\ nextId \in Nat
        /\ \A r \in DOMAIN regions : r < nextId
    BY DEF EditorInv, RegionsInv, SlotsInv, Requests
  <1>2. stored \in StoredOps
    <2> DEFINE made == IF op.does = "duplicate" THEN nextId ELSE op.meta.made
               meta == [op.meta EXCEPT !.made = made]
    <2>1. op.meta \in Metas /\ op.meta.made \in Nat BY <1>1, StoredIsOperation DEF Metas
    <2>2. meta \in Metas BY <1>1, <2>1 DEF Metas
    <2>3. stored = [op EXCEPT !.undone = 0, !.meta = meta] BY <1>1 DEF StoredOps
    <2> HIDE DEF meta, op, stored
    <2> QED BY <1>1, <2>2, <2>3 DEF StoredOps, Metas, Region
  <1>3. \A rs \in Applications(op, regions, nextId) : Arranged(rs)
    <2> HIDE DEF op
    <2> QED BY <1>1, StoredIsOperation, AppliedAndUndone
  <1>4. /\ slot' = [slot EXCEPT ![q] = IdleSlot] /\ UNCHANGED <<asked, undos, renders>>
        /\ \/ UNCHANGED <<regions, versions, clock, nextId>>
           \/ /\ \E rs \in Applications(op, regions, nextId) : SetRegions(rs)
              /\ versions' = [versions EXCEPT ![v].ops = (@ \ at) \cup {stored}]
              /\ clock' = clock + 1
    BY DEF Redo, Commits
  <1>5. \/ UNCHANGED <<regions, versions, clock, nextId>>
        \/ /\ \E rs : Arranged(rs) /\ SetRegions(rs)
           /\ versions' = [versions EXCEPT ![slot[q].version].ops = (@ \ at) \cup {stored}]
           /\ clock' = clock + 1
    BY <1>3, <1>4
  <1> HIDE DEF at, stored
  <1> QED BY <1>2, <1>4, <1>5, CommitKeeps

LEMMA RenderKeeps == ASSUME EditorInv, NEW q \in Slots, Render(q) PROVE EditorInv'
  <1>1. RegionsInv /\ VersionsInv /\ SlotsInv /\ CountsInv BY DEF EditorInv
  <1> DEFINE copies == {StoredAs(op, NoMeta, op.id, clock) : op \in ActiveOps(Current)}
             new == [status |-> "rendering", ops |-> copies]
             n == Len(versions)
             asking == [IdleSlot EXCEPT !.does = "render", !.version = Len(versions')]
  <1>2. /\ versions' = Append(versions, new)
        /\ clock' = clock + 1 /\ renders < MaxRenders /\ renders' = renders + 1
        /\ slot' = [slot EXCEPT ![q] = asking]
        /\ UNCHANGED <<regions, nextId, asked, undos>>
    BY Zenon DEF Render
  <1>3. copies \in SUBSET StoredOps
    <2> SUFFICES ASSUME NEW op \in ActiveOps(Current)
                 PROVE  StoredAs(op, NoMeta, op.id, clock) \in StoredOps
      OBVIOUS
    <2>1. op \in StoredOps BY <1>1, ActiveTyped
    <2>2. IsOperation(op) /\ op.region \in Nat /\ op.id \in Nat BY <2>1, StoredIsOperation
    <2>3. clock \in Nat /\ NoMeta \in Metas BY <1>1, NoMetaTyped DEF CountsInv
    <2> DEFINE id == op.id
    <2>4. id \in Nat BY <2>2
    <2> HIDE DEF id
    <2>5. StoredAs(op, NoMeta, id, clock) \in StoredOps BY <2>2, <2>3, <2>4, StoredTyped
    <2> QED BY <2>5 DEF id
  <1>4. new \in VersionRows BY <1>3 DEF VersionRows
  <1> HIDE DEF new, copies
  <1>5. n \in Nat /\ n > 0 /\ versions \in Seq(VersionRows) BY <1>1 DEF VersionsInv
  <1>6. versions' \in Seq(VersionRows) /\ Len(versions') = n + 1 /\ versions'[1] = versions[1]
    BY <1>2, <1>4, <1>5
  <1>7. VersionsInv' BY <1>1, <1>5, <1>6 DEF VersionsInv
  <1>8. /\ asking \in Requests /\ asking.version <= Len(versions')
        /\ asking.version > 1
    <2> DEFINE m == Len(versions')
    <2>1. m \in Nat \ {0} /\ m > 1 BY <1>5, <1>6
    <2>2. IdleSlot \in Requests BY IdleTyped
    <2> HIDE DEF m
    <2>3. [IdleSlot EXCEPT !.does = "render", !.version = m] \in Requests
      BY <2>1, <2>2 DEF Requests
    <2>4. [IdleSlot EXCEPT !.does = "render", !.version = m].version = m
      BY <2>2 DEF Requests
    <2> QED BY <2>1, <2>3, <2>4 DEF m
  <1> HIDE DEF asking
  <1>9. SlotsInv'
    <2>1. /\ Len(versions') \in Nat /\ Len(versions') >= Len(versions) /\ Len(versions) \in Nat
          /\ asking.version <= Len(versions')
          /\ asking.does = "render" => asking.version > 1
      BY <1>5, <1>6, <1>8
    <2> QED BY <1>1, <1>2, <1>8, <2>1, SlotSet
  <1>10. RegionsInv' BY <1>1, <1>2 DEF RegionsInv, Arranged, IsArrangement, Compact
  <1>11. CountsInv' BY <1>1, <1>2, EditorAssumption DEF CountsInv
  <1> QED BY <1>7, <1>9, <1>10, <1>11 DEF EditorInv

LEMMA RenderEndsKeeps == ASSUME EditorInv, NEW q \in Slots, RenderEnds(q) PROVE EditorInv'
  <1>1. RegionsInv /\ VersionsInv /\ SlotsInv /\ CountsInv BY DEF EditorInv
  <1> DEFINE v == slot[q].version
  <1>2. PICK s \in {"completed", "failed"} : versions' = [versions EXCEPT ![v].status = s]
    BY DEF RenderEnds
  <1>3. /\ slot' = [slot EXCEPT ![q] = IdleSlot]
        /\ UNCHANGED <<regions, clock, nextId, asked, undos, renders>>
    BY DEF RenderEnds
  <1>4. v \in 1 .. Len(versions) /\ v # 1
    BY <1>1 DEF RenderEnds, SlotsInv, Requests, VersionsInv
  <1> HIDE DEF v
  <1>5. VersionsInv' /\ Len(versions') = Len(versions) BY <1>1, <1>2, <1>4, StatusSet
  <1>6. SlotsInv' BY <1>1, <1>3, <1>5, SlotIdle
  <1>7. RegionsInv' BY <1>1, <1>3 DEF RegionsInv, Arranged, IsArrangement, Compact
  <1>8. CountsInv' BY <1>1, <1>3 DEF CountsInv
  <1> QED BY <1>5, <1>6, <1>7, <1>8 DEF EditorInv

LEMMA RenderDiesKeeps == ASSUME EditorInv, NEW q \in Slots, RenderDies(q) PROVE EditorInv'
  <1>1. RegionsInv /\ VersionsInv /\ SlotsInv /\ CountsInv BY DEF EditorInv
  <1>2. /\ slot' = [slot EXCEPT ![q] = IdleSlot]
        /\ UNCHANGED <<regions, versions, clock, nextId, asked, undos, renders>>
    BY DEF RenderDies
  <1>3. VersionsInv' /\ Len(versions') = Len(versions) BY <1>1, <1>2 DEF VersionsInv
  <1>4. SlotsInv' BY <1>1, <1>2, <1>3, SlotIdle
  <1>5. RegionsInv' BY <1>1, <1>2 DEF RegionsInv, Arranged, IsArrangement, Compact
  <1>6. CountsInv' BY <1>1, <1>2 DEF CountsInv
  <1> QED BY <1>3, <1>4, <1>5, <1>6 DEF EditorInv

LEMMA EditorStarts == EditorInit => EditorInv
  <1> SUFFICES ASSUME EditorInit PROVE EditorInv OBVIOUS
  <1>1. RegionsInv
    <2>1. regions = DefaultRegions(Length) /\ nextId = Cardinality(Cuts) BY DEF EditorInit
    <2> QED BY <2>1, DefaultArranged DEF RegionsInv
  <1>2. VersionsInv
    <2> DEFINE draft == [status |-> "draft", ops |-> {}]
    <2>1. versions = <<draft>> BY DEF EditorInit
    <2>2. draft \in VersionRows /\ draft.status = "draft" BY DEF VersionRows
    <2> HIDE DEF draft
    <2> QED BY <2>1, <2>2 DEF VersionsInv
  <1>3. SlotsInv
    <2>1. slot = [q \in Slots |-> IdleSlot] BY DEF EditorInit
    <2>2. IdleSlot \in Requests BY IdleTyped
    <2>3. IdleSlot.version = 1 /\ IdleSlot.does = "nothing" BY DEF IdleSlot
    <2>4. Len(versions) \in Nat /\ Len(versions) > 0 BY <1>2 DEF VersionsInv
    <2> QED BY <2>1, <2>2, <2>3, <2>4 DEF SlotsInv
  <1>4. CountsInv BY EditorAssumption DEF EditorInit, CountsInv
  <1> QED BY <1>1, <1>2, <1>3, <1>4 DEF EditorInv

LEMMA EditorStep == EditorInv /\ [EditorNext]_editorVars => EditorInv'
  <1> SUFFICES ASSUME EditorInv, [EditorNext]_editorVars PROVE EditorInv' OBVIOUS
  <1>1. CASE UNCHANGED editorVars
    BY <1>1 DEF editorVars, EditorInv, RegionsInv, Arranged, IsArrangement, Compact,
        VersionsInv, SlotsInv, CountsInv
  <1>2. CASE EditorNext
    <2>1. PICK q \in Slots :
             \/ Apply(q) \/ StartUndo(q) \/ Undo(q) \/ StartRedo(q) \/ Redo(q)
             \/ Render(q) \/ RenderEnds(q) \/ RenderDies(q)
      BY <1>2 DEF EditorNext
    <2>2. CASE Apply(q) BY <2>2, ApplyKeeps
    <2>3. CASE StartUndo(q) BY <2>3, StartUndoKeeps
    <2>4. CASE Undo(q) BY <2>4, UndoKeeps
    <2>5. CASE StartRedo(q) BY <2>5, StartRedoKeeps
    <2>6. CASE Redo(q) BY <2>6, RedoKeeps
    <2>7. CASE Render(q) BY <2>7, RenderKeeps
    <2>8. CASE RenderEnds(q) BY <2>8, RenderEndsKeeps
    <2>9. CASE RenderDies(q) BY <2>9, RenderDiesKeeps
    <2> QED BY <2>1, <2>2, <2>3, <2>4, <2>5, <2>6, <2>7, <2>8, <2>9
  <1> QED BY <1>1, <1>2

\* What the requests do, in any order, keeps the invariant of the editor.
THEOREM EditorInvariant == EditorSpec => []EditorInv
  BY EditorStarts, EditorStep, PTL DEF EditorSpec

\* The regions of an arrangement play in one definite order.
LEMMA ArrangedIsDense == ASSUME RegionsInv PROVE IndexesDense
  BY CompactCounts DEF RegionsInv, Arranged, IndexesDense

LEMMA EditorTyped == ASSUME EditorInv PROVE EditorTypeOK
  <1>1. RegionsInv /\ VersionsInv /\ SlotsInv /\ CountsInv BY DEF EditorInv
  <1>2. ASSUME NEW r \in DOMAIN regions
        PROVE  r < nextId /\ regions[r] \in [start : Times, end : Times, index : Nat]
    BY <1>1 DEF RegionsInv, Arranged, IsArrangement, Region
  <1>3. ASSUME NEW v \in DOMAIN versions
        PROVE  /\ versions[v].status \in {"draft", "rendering", "completed", "failed"}
               /\ versions[v].ops \subseteq StoredOps
    <2>1. versions[v] \in VersionRows BY <1>1 DEF VersionsInv
    <2> QED BY <2>1 DEF VersionRows
  <1>4. slot \in [Slots -> [does : {"nothing", "undo", "redo", "render"},
                            version : DOMAIN versions, op : StoredOps]]
    <2>1. Len(versions) \in Nat /\ DOMAIN versions = 1 .. Len(versions)
      BY <1>1 DEF VersionsInv
    <2>2. \A q \in Slots : slot[q].version \in DOMAIN versions
      BY <1>1, <2>1 DEF SlotsInv, Requests
    <2> QED BY <1>1, <2>2 DEF SlotsInv, Requests
  <1> QED BY <1>1, <1>2, <1>3, <1>4, ArrangedIsDense DEF EditorTypeOK, CountsInv, RegionsInv

\* The editor's state has its types, and the indexes of the regions are
\* 0, 1, 2, ... after every edit, undo and redo.
THEOREM EditorTypes == EditorSpec => []EditorTypeOK
  BY EditorInvariant, EditorTyped, PTL

LEMMA InvInverts == ASSUME EditorInv PROVE UndoInverts
  <1>1. /\ Arranged(regions) /\ IsArrangement(regions) /\ nextId \in Nat
        /\ \A r \in DOMAIN regions : r < nextId
    BY DEF EditorInv, RegionsInv, Arranged
  <1> SUFFICES ASSUME NEW op \in Operations, op.does = "split" => StartingAt(regions, op.from) = {},
                      NEW rs \in Applications(op, regions, nextId)
               PROVE  Reversals(StoredAs(op, UndoMeta(op, regions, nextId), clock, clock), rs)
                         = {regions}
    BY DEF UndoInverts
  <1>2. IsOperation(op) BY <1>1, OperationsTyped
  <1> QED BY <1>1, <1>2, AppliedAndUndone

\* In every arrangement that edits, undos and redos can lead to, whatever the
\* editor accepts next is undone by its undo: the arrangement is back.
THEOREM UndoGivesBack == EditorSpec => []UndoInverts
  BY EditorInvariant, InvInverts, PTL

-----------------------------------------------------------------------------
(* The bounds that operations leave *)

\* The operations that change the bounds of their region, or take it away.
Shapes(op) == op.does \in {"delete", "split", "delete_range", "resize"}

SameSpan(f, g) == g.start = f.start /\ g.end = f.end

\* A region that can be heard.
Audible(g) == g.start < g.end

\* g has the bounds that an operation leaves of a region that was there; a
\* deletion leaves none.
Leaves(op, was, g) ==
    /\ g.start = IF op.does = "resize" THEN op.from
                 ELSE IF op.does = "delete_range" /\ TakesStart(was, op.from) THEN op.to
                 ELSE was.start
    /\ g.end = IF op.does = "resize" THEN op.to
               ELSE IF op.does = "split" THEN op.from
               ELSE IF op.does = "delete_range" /\ ~TakesStart(was, op.from) THEN op.from
               ELSE was.end

\* Of the regions after an operation, the ones that were there have the bounds
\* they had or, its own region, those it leaves.
Applied(op, rs, id, out) ==
    \A x \in DOMAIN out :
        /\ Audible(out[x])
        /\ x \in DOMAIN rs \/ x >= id
        /\ x \in DOMAIN rs /\ (x # op.region \/ ~Shapes(op)) => SameSpan(rs[x], out[x])
        /\ x \in DOMAIN rs /\ x = op.region /\ Shapes(op) => Leaves(op, rs[x], out[x])

\* An operation that leaves the bounds of every region.
LEMMA SpansKept ==
    ASSUME NEW rs, NEW op, NEW id, NEW out, ~Shapes(op), \A x \in DOMAIN rs : Audible(rs[x]),
           DOMAIN out = DOMAIN rs, \A x \in DOMAIN rs : SameSpan(rs[x], out[x])
    PROVE  Applied(op, rs, id, out)
  BY DEF Applied, SameSpan, Audible

\* An operation that changes the bounds of its own region.
LEMMA RegionChanged ==
    ASSUME NEW rs, NEW op, NEW id \in Nat, NEW out, NEW r \in DOMAIN rs, r = op.region,
           Leaves(op, rs[r], out[r]), Shapes(op),
           \A x \in DOMAIN out : Audible(out[x]) /\ (x \in DOMAIN rs \/ x >= id),
           \A x \in DOMAIN rs : x # r => SameSpan(rs[x], out[x])
    PROVE  Applied(op, rs, id, out)
  <1> SUFFICES ASSUME NEW x \in DOMAIN out
               PROVE  /\ Audible(out[x])
                      /\ x \in DOMAIN rs \/ x >= id
                      /\ x \in DOMAIN rs /\ (x # op.region \/ ~Shapes(op)) => SameSpan(rs[x], out[x])
                      /\ x \in DOMAIN rs /\ x = op.region /\ Shapes(op) => Leaves(op, rs[x], out[x])
    BY DEF Applied
  <1>1. Audible(out[x]) /\ (x \in DOMAIN rs \/ x >= id) OBVIOUS
  <1>2. x \in DOMAIN rs /\ (x # op.region \/ ~Shapes(op)) => SameSpan(rs[x], out[x]) OBVIOUS
  <1>3. x \in DOMAIN rs /\ x = op.region /\ Shapes(op) => Leaves(op, rs[x], out[x]) BY Zenon
  <1> QED BY Zenon, <1>1, <1>2, <1>3

LEMMA DeleteApplied ==
    ASSUME NEW rs, Arranged(rs), \A x \in DOMAIN rs : Audible(rs[x]),
           NEW op, op.does = "delete", NEW id, NEW out \in Applications(op, rs, id)
    PROVE  Applied(op, rs, id, out)
  <1> DEFINE r == op.region
  <1>1. out \in Reindexings(Drop(rs, r)) BY DEF Applications
  <1>2. /\ DOMAIN out = DOMAIN rs \ {r}
        /\ \A x \in DOMAIN rs \ {r} : out[x].start = rs[x].start /\ out[x].end = rs[x].end
    BY <1>1, DropReindexed DEF Arranged
  <1> QED BY <1>2 DEF Applied, SameSpan, Audible

LEMMA DuplicateApplied ==
    ASSUME NEW rs, Arranged(rs), \A x \in DOMAIN rs : Audible(rs[x]),
           NEW op, op.does = "duplicate", NEW id \in Nat, id \notin DOMAIN rs,
           NEW out \in Applications(op, rs, id)
    PROVE  Applied(op, rs, id, out)
  <1> DEFINE r == op.region
             new == [rs[r] EXCEPT !.index = @ + 1]
             f == Put(rs, id, new)
  <1>1. r \in DOMAIN rs /\ out \in Reindexings(f) BY DEF Applications
  <1>2. IsArrangement(rs) /\ rs[r] \in Region BY <1>1 DEF Arranged, IsArrangement
  <1>3. new \in Region /\ SameSpan(rs[r], new) BY <1>2 DEF Region, SameSpan
  <1> HIDE DEF new, r
  <1>4. /\ IsArrangement(f) /\ DOMAIN f = DOMAIN rs \cup {id}
        /\ f[id] = new /\ \A x \in DOMAIN rs : x # id => f[x] = rs[x]
    BY <1>2, <1>3, PutRegion
  <1> HIDE DEF f
  <1>5. SameBounds(f, out) BY <1>1, <1>4, Reindexed
  <1>6. DOMAIN out = DOMAIN rs \cup {id} /\ SameSpan(rs[r], out[id])
        /\ \A x \in DOMAIN rs : SameSpan(rs[x], out[x])
    BY <1>3, <1>4, <1>5 DEF SameBounds, SameSpan
  <1>7. \A x \in DOMAIN out : Audible(out[x])
    BY <1>1, <1>6 DEF Audible, SameSpan
  <1> QED BY <1>6, <1>7 DEF Applied, Shapes

LEMMA SplitApplied ==
    ASSUME NEW rs, Arranged(rs), \A x \in DOMAIN rs : Audible(rs[x]),
           NEW op, IsOperation(op), op.does = "split", NEW id \in Nat, id \notin DOMAIN rs,
           NEW out \in Applications(op, rs, id)
    PROVE  Applied(op, rs, id, out)
  <1> DEFINE r == op.region
             at == op.from
  <1>1. out \in Splits(rs, r, at, id) /\ at \in Times /\ IsArrangement(rs)
        /\ r \in DOMAIN rs
    BY DEF Applications, IsOperation, Arranged
  <1> HIDE DEF r, at
  <1>2. /\ rs[r].start < at /\ at < rs[r].end /\ Extends(rs, out, id, r)
        /\ out[r].end = at /\ out[id].start = at /\ out[id].end = rs[r].end
    BY <1>1, SplitRegion
  <1>3. /\ DOMAIN out = DOMAIN rs \cup {id}
        /\ \A x \in DOMAIN rs : out[x].start = rs[x].start /\ (x # r => out[x].end = rs[x].end)
    BY <1>2 DEF Extends
  <1>4. \A x \in DOMAIN out : Audible(out[x]) BY <1>2, <1>3 DEF Audible
  <1>5. Leaves(op, rs[r], out[r]) BY <1>1, <1>2, <1>3 DEF Leaves, at
  <1>6. r = op.region /\ Shapes(op) BY DEF r, Shapes
  <1>7. \A x \in DOMAIN rs : x # r => SameSpan(rs[x], out[x]) BY <1>3 DEF SameSpan
  <1>8. \A x \in DOMAIN out : Audible(out[x]) /\ (x \in DOMAIN rs \/ x >= id)
    BY <1>3, <1>4
  <1> QED BY <1>1, <1>5, <1>6, <1>7, <1>8, RegionChanged

LEMMA MoveApplied ==
    ASSUME NEW rs, Arranged(rs), \A x \in DOMAIN rs : Audible(rs[x]),
           NEW op, IsOperation(op), op.does = "move", NEW id, NEW out \in Applications(op, rs, id)
    PROVE  Applied(op, rs, id, out)
  <1> DEFINE r == op.region
             to == op.to
  <1>1. r \in DOMAIN rs /\ out = Moved(rs, r, to) BY DEF Applications
  <1>2. IsArrangement(rs) /\ to \in Nat BY DEF Arranged, IsOperation
  <1>3. \A x, y \in DOMAIN rs \ {r} : rs[x].index = rs[y].index => x = y
    BY DEF Arranged, Compact
  <1> HIDE DEF r, to
  <1>4. SameBounds(rs, out) BY <1>1, <1>2, <1>3, MovedCompact
  <1>5. ~Shapes(op) BY DEF Shapes
  <1> QED BY <1>4, <1>5, SpansKept DEF SameBounds, SameSpan

LEMMA ResizeApplied ==
    ASSUME NEW rs, Arranged(rs), \A x \in DOMAIN rs : Audible(rs[x]),
           NEW op, IsOperation(op), op.does = "resize", op.from < op.to,
           NEW id \in Nat, NEW out \in Applications(op, rs, id)
    PROVE  Applied(op, rs, id, out)
  <1> DEFINE r == op.region
             from == op.from
             to == op.to
  <1>1. r \in DOMAIN rs /\ to <= Length /\ out = Resized(rs, r, from, to)
    <2>1. op.to \in Int /\ Length \in Int BY LengthType DEF IsOperation
    <2> QED BY <2>1 DEF Applications
  <1>2. from \in Times /\ to \in Times /\ IsArrangement(rs)
    BY <1>1, LengthType DEF IsOperation, Times, Arranged
  <1> HIDE DEF r, from, to
  <1>3. /\ DOMAIN out = DOMAIN rs /\ out[r].start = from /\ out[r].end = to
        /\ \A x \in DOMAIN rs : x # r => out[x] = rs[x]
    BY <1>1, <1>2, ResizedRegion
  <1>4. Leaves(op, rs[r], out[r]) BY <1>3 DEF Leaves, from, to
  <1>5. Audible(out[r]) BY <1>3 DEF Audible, from, to
  <1>6. r = op.region /\ Shapes(op) BY DEF r, Shapes
  <1>7. \A x \in DOMAIN rs : x # r => SameSpan(rs[x], out[x]) BY <1>3 DEF SameSpan
  <1>8. \A x \in DOMAIN out : Audible(out[x]) /\ (x \in DOMAIN rs \/ x >= id)
    BY <1>3, <1>5, <1>7 DEF SameSpan, Audible
  <1> QED BY <1>1, <1>4, <1>6, <1>7, <1>8, RegionChanged

LEMMA RangeApplied ==
    ASSUME NEW rs, Arranged(rs), \A x \in DOMAIN rs : Audible(rs[x]),
           NEW op, IsOperation(op), op.does = "delete_range",
           NEW id \in Nat, \A x \in DOMAIN rs : x < id,
           NEW out \in Applications(op, rs, id)
    PROVE  Applied(op, rs, id, out)
  <1> DEFINE r == op.region
             from == op.from
             to == op.to
  <1>1. r \in DOMAIN rs /\ out \in RangeDeletions(rs, r, from, to, id)
    BY DEF Applications
  <1>2. IsArrangement(rs) /\ from \in Times /\ to \in Nat BY DEF Arranged, IsOperation
  <1>3. op.does = "delete_range" /\ op.from = from /\ op.to = to /\ op.region = r OBVIOUS
  <1> HIDE DEF r, from, to
  <1>4. rs[r].start \in Times /\ rs[r].end \in Times BY <1>1, <1>2 DEF IsArrangement, Region
  <1>5. to \in Times
    <2>1. ~(to > rs[r].end) BY <1>1 DEF RangeDeletions
    <2> QED BY <1>2, <1>4, <2>1, LengthType DEF Times
  <1>6. Edge \in Nat /\ \A t \in Times : t \in Nat BY ArrangementAssumption DEF Times
  <1>7. Shapes(op) BY <1>3 DEF Shapes
  <1>8. CASE TakesStart(rs[r], from)
    <2> DEFINE end == rs[r].end
    <2>1. out = [rs EXCEPT ![r].start = to] /\ ~TakesEnd(rs[r], to)
      BY <1>1, <1>8 DEF RangeDeletions
    <2>2. out = Resized(rs, r, to, rs[r].end) BY <1>1, <1>2, <2>1, StartWritten
    <2>3. /\ DOMAIN out = DOMAIN rs /\ out[r].start = to /\ out[r].end = end
          /\ \A x \in DOMAIN rs : x # r => out[x] = rs[x]
      <3>1. end \in Times /\ out = Resized(rs, r, to, end) BY <1>4, <2>2
      <3> HIDE DEF end
      <3> QED BY <1>1, <1>2, <1>5, <3>1, ResizedRegion
    <2>4. Leaves(op, rs[r], out[r]) BY <1>3, <1>8, <2>3 DEF Leaves
    <2>5. Audible(out[r]) BY <1>4, <1>5, <1>6, <2>1, <2>3 DEF Audible, TakesEnd
    <2>6. \A x \in DOMAIN rs : x # r => SameSpan(rs[x], out[x]) BY <2>3 DEF SameSpan
    <2>7. \A x \in DOMAIN out : Audible(out[x]) /\ (x \in DOMAIN rs \/ x >= id)
      BY <2>3, <2>5, <2>6 DEF SameSpan, Audible
    <2> QED BY <1>1, <1>3, <1>7, <2>4, <2>6, <2>7, RegionChanged
  <1>9. CASE ~TakesStart(rs[r], from) /\ TakesEnd(rs[r], to)
    <2> DEFINE start == rs[r].start
    <2>1. out = [rs EXCEPT ![r].end = from] BY <1>1, <1>9 DEF RangeDeletions
    <2>2. out = Resized(rs, r, rs[r].start, from)
      <3>1. [rs EXCEPT ![r].end = from] = Resized(rs, r, rs[r].start, from)
        BY <1>1, <1>2, EndWritten
      <3> QED BY <2>1, <3>1
    <2>3. /\ DOMAIN out = DOMAIN rs /\ out[r].start = start /\ out[r].end = from
          /\ \A x \in DOMAIN rs : x # r => out[x] = rs[x]
      <3>1. start \in Times /\ out = Resized(rs, r, start, from) BY <1>4, <2>2
      <3> HIDE DEF start
      <3> QED BY <1>1, <1>2, <3>1, ResizedRegion
    <2>4. Leaves(op, rs[r], out[r]) BY <1>3, <1>9, <2>3 DEF Leaves
    <2>5. Audible(out[r]) BY <1>2, <1>4, <1>6, <1>9, <2>3 DEF Audible, TakesStart
    <2>6. \A x \in DOMAIN rs : x # r => SameSpan(rs[x], out[x]) BY <2>3 DEF SameSpan
    <2>7. \A x \in DOMAIN out : Audible(out[x]) /\ (x \in DOMAIN rs \/ x >= id)
      BY <2>3, <2>5, <2>6 DEF SameSpan, Audible
    <2> QED BY <1>1, <1>3, <1>7, <2>4, <2>6, <2>7, RegionChanged
  <1>10. CASE ~TakesStart(rs[r], from) /\ ~TakesEnd(rs[r], to)
    <2> DEFINE Left(two) == UNION {Reindexings(Drop(three, id)) :
                                      three \in Splits(two, id, to, id + 1)}
               next == id + 1
    <2>1. out \in UNION {Left(two) : two \in Splits(rs, r, from, id)}
      BY <1>1, <1>10 DEF RangeDeletions
    <2>2. PICK two \in Splits(rs, r, from, id) : out \in Left(two)
      <3> HIDE DEF Left
      <3> QED BY <2>1
    <2>3. PICK three \in Splits(two, id, to, id + 1) : out \in Reindexings(Drop(three, id))
      BY <2>2
    <2>4. /\ Extends(rs, out, next, r) /\ rs[r].start < from /\ to < rs[r].end
          /\ out[r].end = from /\ out[next].start = to /\ out[next].end = rs[r].end
      <3>0. Arranged(rs) /\ r \in DOMAIN rs /\ from \in Times /\ to \in Times
        BY <1>1, <1>2, <1>5
      <3> HIDE DEF Left, next
      <3>1. /\ Arranged(out) /\ Extends(rs, out, id + 1, r)
            /\ rs[r].start < from /\ to < rs[r].end /\ out[r].end = from
            /\ out[id + 1].start = to /\ out[id + 1].end = rs[r].end
        BY <3>0, <2>3, RangeInside
      <3> QED BY <3>1 DEF next
    <2>5. next \in Nat /\ next >= id OBVIOUS
    <2> HIDE DEF next
    <2>6. /\ DOMAIN out = DOMAIN rs \cup {next}
          /\ \A x \in DOMAIN rs : out[x].start = rs[x].start /\ (x # r => out[x].end = rs[x].end)
      BY <2>4 DEF Extends
    <2>7. Leaves(op, rs[r], out[r]) BY <1>1, <1>3, <1>10, <2>4, <2>6 DEF Leaves
    <2>8. \A x \in DOMAIN out : Audible(out[x]) BY <1>1, <2>4, <2>6 DEF Audible
    <2>9. \A x \in DOMAIN rs : x # r => SameSpan(rs[x], out[x]) BY <2>6 DEF SameSpan
    <2>10. \A x \in DOMAIN out : Audible(out[x]) /\ (x \in DOMAIN rs \/ x >= id)
      BY <2>5, <2>6, <2>8
    <2> QED BY <1>1, <1>3, <1>7, <2>7, <2>9, <2>10, RegionChanged
  <1> QED BY <1>8, <1>9, <1>10

\* So every operation, of regions that can be heard, makes such regions.
LEMMA AppliedSpans ==
    ASSUME NEW rs, Arranged(rs), \A x \in DOMAIN rs : Audible(rs[x]),
           NEW op, IsOperation(op), op.does = "resize" => op.from < op.to,
           NEW id \in Nat, \A x \in DOMAIN rs : x < id,
           NEW out \in Applications(op, rs, id)
    PROVE  Applied(op, rs, id, out)
  <1>1. id \notin DOMAIN rs BY DEF Arranged, IsArrangement
  <1>2. CASE op.does = "mix"
    <2>1. out = rs /\ ~Shapes(op) BY <1>2 DEF Applications, Shapes
    <2> QED BY <2>1, SpansKept DEF SameSpan
  <1>3. CASE op.does = "delete" BY <1>3, DeleteApplied
  <1>4. CASE op.does = "duplicate" BY <1>1, <1>4, DuplicateApplied
  <1>5. CASE op.does = "split" BY <1>1, <1>5, SplitApplied
  <1>6. CASE op.does = "move" BY <1>6, MoveApplied
  <1>7. CASE op.does = "delete_range" BY <1>7, RangeApplied
  <1>8. CASE op.does = "resize" BY <1>8, ResizeApplied
  <1> QED BY <1>2, <1>3, <1>4, <1>5, <1>6, <1>7, <1>8 DEF IsOperation

\* Of the regions after an undo, the ones that were there have the bounds they
\* had, and its own region those from before, if it had those the operation
\* leaves.
Restored(op, rs, out) ==
    \A x \in DOMAIN out :
        /\ x \in DOMAIN rs \/ (x = op.region /\ Shapes(op))
        /\ x \in DOMAIN rs /\ (x # op.region \/ ~Shapes(op)) => SameSpan(rs[x], out[x])
        /\ (x = op.region /\ Shapes(op) /\ (x \in DOMAIN rs => Leaves(op, op.meta.was, rs[x])))
              => SameSpan(op.meta.was, out[x])

\* An undo that changes the bounds of its own region, and one that changes none.
LEMMA RegionRestored ==
    ASSUME NEW op, NEW rs, NEW out, NEW r, r = op.region, Shapes(op),
           \A x \in DOMAIN out : x # r => x \in DOMAIN rs /\ SameSpan(rs[x], out[x]),
           (r \in DOMAIN rs => Leaves(op, op.meta.was, rs[r])) => SameSpan(op.meta.was, out[r])
    PROVE  Restored(op, rs, out)
  <1> SUFFICES ASSUME NEW x \in DOMAIN out
               PROVE  /\ x \in DOMAIN rs \/ (x = op.region /\ Shapes(op))
                      /\ x \in DOMAIN rs /\ (x # op.region \/ ~Shapes(op)) => SameSpan(rs[x], out[x])
                      /\ (x = op.region /\ Shapes(op)
                            /\ (x \in DOMAIN rs => Leaves(op, op.meta.was, rs[x])))
                           => SameSpan(op.meta.was, out[x])
    BY DEF Restored
  <1>1. x \in DOMAIN rs \/ (x = op.region /\ Shapes(op)) OBVIOUS
  <1>2. x \in DOMAIN rs /\ (x # op.region \/ ~Shapes(op)) => SameSpan(rs[x], out[x]) OBVIOUS
  <1>3. ASSUME x = op.region, x \in DOMAIN rs => Leaves(op, op.meta.was, rs[x])
        PROVE  SameSpan(op.meta.was, out[x])
    <2>1. x = r BY <1>3
    <2> QED BY Zenon, <1>3, <2>1
  <1> QED BY <1>1, <1>2, <1>3

LEMMA SpansBack ==
    ASSUME NEW op, NEW rs, NEW out, ~Shapes(op), DOMAIN out \subseteq DOMAIN rs,
           \A x \in DOMAIN out : SameSpan(rs[x], out[x])
    PROVE  Restored(op, rs, out)
  BY DEF Restored

\* An end that is put back.
LEMMA EndSpans ==
    ASSUME NEW rs, IsArrangement(rs), NEW r \in DOMAIN rs, NEW end \in Times
    PROVE  LET out == [rs EXCEPT ![r].end = end]
           IN  /\ IsArrangement(out) /\ DOMAIN out = DOMAIN rs
               /\ out[r].start = rs[r].start /\ out[r].end = end
               /\ \A x \in DOMAIN rs : x # r => out[x] = rs[x]
  <1> DEFINE start == rs[r].start
             f == Resized(rs, r, start, end)
  <1>1. start \in Times BY DEF IsArrangement, Region
  <1>2. [rs EXCEPT ![r].end = end] = f BY EndWritten
  <1> HIDE DEF start
  <1>3. /\ IsArrangement(f) /\ DOMAIN f = DOMAIN rs /\ f[r].start = start /\ f[r].end = end
        /\ \A x \in DOMAIN rs : x # r => f[x] = rs[x]
    BY <1>1, ResizedRegion
  <1> HIDE DEF f
  <1> QED BY <1>2, <1>3 DEF start

\* Regions that are reindexed, perhaps without one, after an end was put back.
LEMMA WholeSpans ==
    ASSUME NEW rs, IsArrangement(rs), NEW r \in DOMAIN rs, NEW end \in Times,
           NEW one, IsArrangement(one), DOMAIN one \subseteq DOMAIN rs,
           \A x \in DOMAIN one : one[x] = [rs EXCEPT ![r].end = end][x],
           NEW out \in Reindexings(one)
    PROVE  /\ DOMAIN out \subseteq DOMAIN rs
           /\ \A x \in DOMAIN out : x # r => SameSpan(rs[x], out[x])
           /\ r \in DOMAIN out => out[r].start = rs[r].start /\ out[r].end = end
  <1> DEFINE whole == [rs EXCEPT ![r].end = end]
  <1>1. /\ DOMAIN whole = DOMAIN rs
        /\ whole[r].start = rs[r].start /\ whole[r].end = end
        /\ \A x \in DOMAIN rs : x # r => whole[x] = rs[x]
    BY EndSpans
  <1>2. \A x \in DOMAIN one : one[x] = whole[x] OBVIOUS
  <1> HIDE DEF whole
  <1>3. SameBounds(one, out) BY Reindexed
  <1>4. DOMAIN out = DOMAIN one
        /\ \A x \in DOMAIN one : out[x].start = one[x].start /\ out[x].end = one[x].end
    BY <1>3 DEF SameBounds
  <1> QED BY <1>1, <1>2, <1>4 DEF SameSpan

LEMMA DeleteRestored ==
    ASSUME NEW rs, Arranged(rs), NEW op, op.does = "delete", op.region \in Nat,
           op.meta.was \in Region, NEW out \in Reversals(op, rs)
    PROVE  Restored(op, rs, out)
  <1> DEFINE r == op.region
             was == op.meta.was
             place == op.meta.was.index
             f == Put(rs, r, was)
  <1>1. r \notin DOMAIN rs /\ out = Moved(f, r, place) BY DEF Reversals
  <1>2. /\ place \in Nat
        /\ \A x, y \in DOMAIN rs : rs[x].index = rs[y].index => x = y
    BY DEF Arranged, Compact, Region
  <1>3. IsArrangement(rs) /\ was \in Region /\ r \in Nat BY DEF Arranged
  <1>4. r = op.region /\ was = op.meta.was /\ Shapes(op) BY DEF Shapes
  <1> HIDE DEF was, place, r
  <1>5. /\ IsArrangement(f) /\ DOMAIN f = DOMAIN rs \cup {r}
        /\ f[r] = was /\ \A x \in DOMAIN rs : x # r => f[x] = rs[x]
    BY <1>3, PutRegion
  <1> HIDE DEF f
  <1>6. \A x, y \in DOMAIN f \ {r} : f[x].index = f[y].index => x = y BY <1>2, <1>5
  <1>7. IsArrangement(f) /\ r \in DOMAIN f BY <1>5
  <1>8. SameBounds(f, out) BY <1>1, <1>2, <1>6, <1>7, MovedCompact
  <1>9. \A x \in DOMAIN out : x # r => x \in DOMAIN rs /\ SameSpan(rs[x], out[x])
    BY <1>5, <1>8 DEF SameBounds, SameSpan
  <1>10. SameSpan(was, out[r]) BY <1>5, <1>8 DEF SameBounds, SameSpan
  <1> QED BY <1>4, <1>9, <1>10, RegionRestored

LEMMA DuplicateRestored ==
    ASSUME NEW rs, Arranged(rs), NEW op, op.does = "duplicate", NEW out \in Reversals(op, rs)
    PROVE  Restored(op, rs, out)
  <1> DEFINE Left(x) == Reindexings(Drop(rs, x))
  <1>1. out \in UNION {Left(x) : x \in Duplicates(op, rs)} BY DEF Reversals
  <1>2. PICK x \in Duplicates(op, rs) : out \in Left(x)
    <2> HIDE DEF Left
    <2> QED BY <1>1
  <1>3. /\ DOMAIN out = DOMAIN rs \ {x}
        /\ \A y \in DOMAIN rs \ {x} : out[y].start = rs[y].start /\ out[y].end = rs[y].end
    BY <1>2, DropReindexed DEF Arranged
  <1>4. ~Shapes(op) BY DEF Shapes
  <1> QED BY <1>3, <1>4, SpansBack DEF SameSpan

LEMMA SplitRestored ==
    ASSUME NEW rs, Arranged(rs), NEW op, op.does = "split", op.meta.known,
           op.meta.was \in Region, NEW out \in Reversals(op, rs)
    PROVE  Restored(op, rs, out)
  <1> DEFINE r == op.region
             at == op.from
             end == op.meta.was.end
             left == IF StartingAt(rs, at) = {} THEN {rs} ELSE {Drop(rs, x) : x \in StartingAt(rs, at)}
             Wholes(one) == Reindexings([one EXCEPT ![r].end = end])
             Left(stop) == Joins(rs, r, at, stop)
  <1>1. out \in Joins(rs, r, at, end)
    <2>1. out \in UNION {Left(stop) : stop \in {end}} BY DEF Reversals
    <2> HIDE DEF Left, end
    <2>2. out \in Left(end) BY <2>1
    <2> QED BY <2>2 DEF Left
  <1>2. PICK one \in left : r \in DOMAIN one /\ out \in Wholes(one)
    <2>1. out \in UNION {Wholes(one) : one \in {some \in left : r \in DOMAIN some}}
      BY Zenon, <1>1 DEF Joins
    <2> HIDE DEF left, Wholes
    <2> QED BY Zenon, <2>1
  <1>3. IsArrangement(rs) /\ end \in Times BY DEF Arranged, Region
  <1>4. IsArrangement(one) /\ DOMAIN one \subseteq DOMAIN rs /\ \A x \in DOMAIN one : one[x] = rs[x]
    <2>1. CASE one = rs BY <1>3, <2>1
    <2>2. CASE one # rs
      <3>1. PICK x \in StartingAt(rs, at) : one = Drop(rs, x) BY <1>2, <2>2
      <3>2. /\ IsArrangement(one) /\ DOMAIN one = DOMAIN rs \ {x}
            /\ \A y \in DOMAIN rs : y # x => one[y] = rs[y]
        BY <1>3, <3>1, DropRegion
      <3> QED BY <3>2
    <2> QED BY <2>1, <2>2
  <1>5. r = op.region /\ Shapes(op) /\ end = op.meta.was.end BY DEF Shapes
  <1> HIDE DEF r, end, left
  <1>6. r \in DOMAIN one /\ out \in Reindexings([one EXCEPT ![r].end = end]) BY <1>2
  <1> HIDE DEF Wholes
  <1>7. /\ IsArrangement([one EXCEPT ![r].end = end])
        /\ DOMAIN [one EXCEPT ![r].end = end] = DOMAIN one
    BY <1>3, <1>4, <1>6, EndSpans
  <1>8. /\ DOMAIN out \subseteq DOMAIN one
        /\ \A x \in DOMAIN out : x # r => SameSpan(one[x], out[x])
        /\ r \in DOMAIN out => out[r].start = one[r].start /\ out[r].end = end
    <2> DEFINE whole == [one EXCEPT ![r].end = end]
    <2>1. /\ IsArrangement(whole) /\ DOMAIN whole \subseteq DOMAIN one
          /\ \A x \in DOMAIN whole : whole[x] = [one EXCEPT ![r].end = end][x]
          /\ out \in Reindexings(whole)
      BY <1>6, <1>7
    <2> HIDE DEF whole
    <2> QED BY <1>3, <1>4, <1>6, <2>1, WholeSpans
  <1>9. DOMAIN out = DOMAIN one
    <2> DEFINE whole == [one EXCEPT ![r].end = end]
    <2>1. IsArrangement(whole) /\ DOMAIN whole = DOMAIN one /\ out \in Reindexings(whole)
      BY <1>6, <1>7
    <2> HIDE DEF whole
    <2> QED BY <2>1, Reindexed DEF SameBounds
  <1>10. \A x \in DOMAIN out : x # r => x \in DOMAIN rs /\ SameSpan(rs[x], out[x])
    BY <1>4, <1>8
  <1>11. ASSUME r \in DOMAIN rs => Leaves(op, op.meta.was, rs[r]) PROVE SameSpan(op.meta.was, out[r])
    <2>1. Leaves(op, op.meta.was, rs[r]) BY <1>4, <1>6, <1>11
    <2>2. rs[r].start = op.meta.was.start BY <2>1 DEF Leaves
    <2> QED BY <1>4, <1>5, <1>6, <1>8, <1>9, <2>2 DEF SameSpan
  <1> QED BY <1>5, <1>10, <1>11, RegionRestored

LEMMA ResizeRestored ==
    ASSUME NEW rs, Arranged(rs), NEW op, op.does = "resize",
           op.meta.was \in Region, NEW out \in Reversals(op, rs)
    PROVE  Restored(op, rs, out)
  <1> DEFINE r == op.region
             start == op.meta.was.start
             end == op.meta.was.end
  <1>1. r \in DOMAIN rs /\ out = Resized(rs, r, start, end) BY DEF Reversals
  <1>2. IsArrangement(rs) /\ start \in Times /\ end \in Times BY DEF Arranged, Region
  <1>3. /\ r = op.region /\ Shapes(op)
        /\ start = op.meta.was.start /\ end = op.meta.was.end
    BY DEF Shapes
  <1> HIDE DEF r, start, end
  <1>4. /\ DOMAIN out = DOMAIN rs /\ out[r].start = start /\ out[r].end = end
        /\ \A x \in DOMAIN rs : x # r => out[x] = rs[x]
    BY <1>1, <1>2, ResizedRegion
  <1>5. \A x \in DOMAIN out : x # r => x \in DOMAIN rs /\ SameSpan(rs[x], out[x])
    BY <1>4 DEF SameSpan
  <1>6. SameSpan(op.meta.was, out[r]) BY <1>3, <1>4 DEF SameSpan
  <1> QED BY <1>3, <1>5, <1>6, RegionRestored

LEMMA RangeRestoredSpans ==
    ASSUME NEW rs, Arranged(rs), NEW op, op.does = "delete_range",
           op.meta.was \in Region, NEW out \in Reversals(op, rs)
    PROVE  Restored(op, rs, out)
  <1> DEFINE r == op.region
             was == op.meta.was
             start == was.start
             end == was.end
             whole == [rs EXCEPT ![r].end = end]
             Left(x) == Reindexings(IF x = r THEN whole ELSE Drop(whole, x))
  <1>1. r \in DOMAIN rs /\ out \in RangeRestorations(op, rs) /\ IsArrangement(rs)
    BY DEF Reversals, Arranged
  <1>2. start \in Times /\ end \in Times BY DEF Region
  <1>3. /\ r = op.region /\ was = op.meta.was /\ start = was.start /\ end = was.end
        /\ op.does = "delete_range" /\ Shapes(op)
    BY DEF Shapes
  <1>4. rs[r].start \in Times /\ rs[r].end \in Times BY <1>1 DEF IsArrangement, Region
  <1>5. CASE TakesStart(was, op.from)
    <2> DEFINE stop == rs[r].end
    <2>1. out = [rs EXCEPT ![r].start = start] BY <1>1, <1>5 DEF RangeRestorations
    <2> HIDE DEF r, start, was
    <2>2. [rs EXCEPT ![r].start = start] = Resized(rs, r, start, rs[r].end)
      BY <1>1, StartWritten
    <2>3. stop \in Times /\ out = Resized(rs, r, start, stop) BY <1>4, <2>1, <2>2
    <2> HIDE DEF stop
    <2>4. /\ DOMAIN out = DOMAIN rs /\ out[r].start = start /\ out[r].end = stop
          /\ \A x \in DOMAIN rs : x # r => out[x] = rs[x]
      <3>1. IsArrangement(rs) /\ r \in DOMAIN rs /\ start \in Times BY <1>1, <1>2 DEF start
      <3> QED BY <2>3, <3>1, ResizedRegion
    <2>5. \A x \in DOMAIN out : x # r => x \in DOMAIN rs /\ SameSpan(rs[x], out[x])
      BY <2>4 DEF SameSpan
    <2>6. ASSUME Leaves(op, was, rs[r]) PROVE SameSpan(was, out[r])
      <3>1. rs[r].end = was.end BY <1>3, <1>5, <2>6 DEF Leaves
      <3>2. stop = rs[r].end BY DEF stop
      <3> QED BY <1>3, <2>4, <3>1, <3>2 DEF SameSpan
    <2> QED BY <1>1, <1>3, <2>5, <2>6, RegionRestored
  <1>6. CASE ~TakesStart(was, op.from)
    <2>1. /\ IsArrangement(whole) /\ DOMAIN whole = DOMAIN rs
          /\ whole[r].start = rs[r].start /\ whole[r].end = end
          /\ \A x \in DOMAIN rs : x # r => whole[x] = rs[x]
      <3> HIDE DEF r, end
      <3> QED BY <1>1, <1>2, EndSpans
    <2>2. PICK one : /\ IsArrangement(one) /\ DOMAIN one \subseteq DOMAIN rs /\ r \in DOMAIN one
                     /\ \A x \in DOMAIN one : one[x] = whole[x]
                     /\ out = one \/ out \in Reindexings(one)
      <3>1. \/ out = whole \/ out \in Reindexings(whole)
            \/ out \in UNION {Left(x) : x \in Tails(op, rs)}
        BY <1>1, <1>6 DEF RangeRestorations
      <3>2. CASE out = whole \/ out \in Reindexings(whole)
        <4> HIDE DEF whole, r
        <4> QED BY <1>1, <2>1, <3>2
      <3>3. CASE out \in UNION {Left(x) : x \in Tails(op, rs)}
        <4>1. PICK x \in Tails(op, rs) : out \in Left(x)
          <5> HIDE DEF Left
          <5> QED BY <3>3
        <4>2. CASE x = r
          <5>1. out \in Reindexings(whole) BY <4>1, <4>2
          <5> HIDE DEF whole, r
          <5> QED BY <1>1, <2>1, <5>1
        <4>3. CASE x # r
          <5> DEFINE one == Drop(whole, x)
          <5>1. out \in Reindexings(one) BY <4>1, <4>3
          <5> HIDE DEF whole, r
          <5>2. /\ IsArrangement(one) /\ DOMAIN one = DOMAIN whole \ {x}
                /\ \A y \in DOMAIN whole : y # x => one[y] = whole[y]
            BY <2>1, DropRegion
          <5> HIDE DEF one
          <5> QED BY <1>1, <2>1, <4>3, <5>1, <5>2
        <4> QED BY <4>2, <4>3
      <3> QED BY <3>1, <3>2, <3>3
    <2>3. DOMAIN out = DOMAIN one
          /\ \A x \in DOMAIN one : out[x].start = one[x].start /\ out[x].end = one[x].end
      BY <2>2, Reindexed DEF SameBounds
    <2> HIDE DEF whole, r, was, start, end
    <2>4. \A x \in DOMAIN out : x # r => x \in DOMAIN rs /\ SameSpan(rs[x], out[x])
      BY <2>1, <2>2, <2>3 DEF SameSpan
    <2>5. ASSUME Leaves(op, was, rs[r]) PROVE SameSpan(was, out[r])
      <3>1. rs[r].start = was.start BY <1>3, <1>6, <2>5 DEF Leaves
      <3> QED BY <1>1, <1>3, <2>1, <2>2, <2>3, <3>1 DEF SameSpan
    <2> QED BY <1>1, <1>3, <2>4, <2>5, RegionRestored
  <1> QED BY <1>5, <1>6

\* So every undo gives back the bounds that its operation noted.
LEMMA ReversedSpans ==
    ASSUME NEW rs, Arranged(rs), NEW op \in StoredOps, op.does # "mix" => op.meta.known,
           NEW out \in Reversals(op, rs)
    PROVE  Restored(op, rs, out)
  <1>1. IsOperation(op) /\ op.region \in Nat /\ op.meta.was \in Region BY StoredIsOperation
  <1>2. CASE op.does = "mix"
    <2>1. out = rs /\ ~Shapes(op) BY <1>2 DEF Reversals, Shapes
    <2> QED BY <2>1, SpansBack DEF SameSpan
  <1>3. CASE op.does = "delete" BY <1>1, <1>3, DeleteRestored
  <1>4. CASE op.does = "duplicate" BY <1>4, DuplicateRestored
  <1>5. CASE op.does = "split" BY <1>1, <1>5, SplitRestored
  <1>6. CASE op.does = "move"
    <2> DEFINE r == op.region
               place == op.meta.was.index
    <2>1. r \in DOMAIN rs /\ out = Moved(rs, r, place) BY <1>6 DEF Reversals
    <2>2. IsArrangement(rs) /\ place \in Nat BY <1>1 DEF Arranged, Region
    <2> HIDE DEF place, r
    <2>3. \A x, y \in DOMAIN rs \ {r} : rs[x].index = rs[y].index => x = y
      BY DEF Arranged, Compact
    <2>4. SameBounds(rs, out) BY <2>1, <2>2, <2>3, MovedCompact
    <2>5. ~Shapes(op) BY <1>6 DEF Shapes
    <2>6. DOMAIN out \subseteq DOMAIN rs /\ \A x \in DOMAIN out : SameSpan(rs[x], out[x])
      BY <2>4 DEF SameBounds, SameSpan
    <2> QED BY <2>5, <2>6, SpansBack
  <1>7. CASE op.does = "delete_range" BY <1>1, <1>7, RangeRestoredSpans
  <1>8. CASE op.does = "resize" BY <1>1, <1>8, ResizeRestored
  <1> QED BY <1>1, <1>2, <1>3, <1>4, <1>5, <1>6, <1>7, <1>8 DEF IsOperation

-----------------------------------------------------------------------------
(* The operations of a draft, one request at a time *)

\* Another operation that changes the bounds of the same region.
Rival(X, Z) == Shapes(Z) /\ Z.region = X.region

\* Y is the next one after X that does.
Follows(S, X, Y) ==
    /\ Shapes(X) /\ Rival(X, Y) /\ X.created < Y.created
    /\ \A Z \in S : Rival(X, Z) => Z.created <= X.created \/ Y.created <= Z.created

\* X is the last that does and is not undone; U is the first that was undone.
Latest(S, X) ==
    /\ IsActive(X) /\ Shapes(X)
    /\ \A Z \in S : IsActive(Z) /\ Rival(X, Z) => Z.created <= X.created
Earliest(S, U) ==
    /\ ~IsActive(U) /\ Shapes(U)
    /\ \A Z \in S : ~IsActive(Z) /\ Rival(U, Z) => U.created <= Z.created

\* What is noted of an operation is what the one before it left, undone or not;
\* and the regions are as the last one left them, and as the first that was
\* undone found them.
Chained(S) == \A X, Y \in S : Follows(S, X, Y) => Leaves(X, X.meta.was, Y.meta.was)
Present(S, rs) ==
    /\ \A X \in S : Latest(S, X) /\ X.region \in DOMAIN rs =>
          Leaves(X, X.meta.was, rs[X.region])
    /\ \A U \in S : Earliest(S, U) /\ U.region \in DOMAIN rs =>
          SameSpan(U.meta.was, rs[U.region])

\* What is undone was done after the rest, and undone the other way round.
Ordered(S, time) ==
    /\ \A o \in S : o.id < time /\ o.created = o.id /\ o.undone < time
    /\ \A o, p \in S : o.id = p.id => o = p
    /\ \A o, p \in S : IsActive(o) /\ ~IsActive(p) => o.created < p.created
    /\ \A o, p \in S :
          ~IsActive(o) /\ ~IsActive(p) /\ o.created < p.created => p.undone < o.undone

\* Operations are noted with their region as it was, one that could be heard.
Noted(o, next) ==
    /\ o.does # "mix" => o.meta.known
    /\ Shapes(o) => Audible(o.meta.was) /\ o.region < next
    /\ o.does = "resize" => o.from < o.to

Story(S, rs, next, time) ==
    /\ \A o \in S : Noted(o, next)
    /\ Ordered(S, time) /\ Chained(S) /\ Present(S, rs)

\* An operation that was undone, or redone, but is otherwise the same.
SameOp(o, p) ==
    /\ p.does = o.does /\ p.region = o.region /\ p.from = o.from /\ p.to = o.to
    /\ p.id = o.id /\ p.created = o.created
    /\ p.meta.was = o.meta.was /\ p.meta.known = o.meta.known

\* What an operation leaves depends on the bounds that it found, and is one.
LEMMA LeavesSame ==
    ASSUME NEW o, NEW p, SameOp(o, p), NEW g, Leaves(o, o.meta.was, g)
    PROVE  Leaves(p, p.meta.was, g)
  BY DEF Leaves, SameOp

LEMMA LeavesSpan ==
    ASSUME NEW o, NEW was, NEW f, NEW g, Leaves(o, was, f), SameSpan(f, g)
    PROVE  Leaves(o, was, g)
  BY DEF Leaves, SameSpan

LEMMA LeavesFrom ==
    ASSUME NEW o, NEW was, NEW f, NEW g, Leaves(o, f, g), SameSpan(was, f)
    PROVE  Leaves(o, was, g)
  BY DEF Leaves, SameSpan, TakesStart

LEMMA LeavesOnce ==
    ASSUME NEW o, NEW was, NEW f, NEW g, Leaves(o, was, f), Leaves(o, was, g)
    PROVE  SameSpan(f, g)
  BY DEF Leaves, SameSpan

\* An undo and a redo change none of what is noted of operations.
LEMMA ChainedSame ==
    ASSUME NEW S, NEW T, Chained(S),
           \A p \in T : \E o \in S : SameOp(o, p), \A o \in S : \E p \in T : SameOp(o, p)
    PROVE  Chained(T)
  <1> SUFFICES ASSUME NEW X \in T, NEW Y \in T, Follows(T, X, Y)
               PROVE  Leaves(X, X.meta.was, Y.meta.was)
    BY DEF Chained
  <1>1. PICK A \in S : SameOp(A, X) OBVIOUS
  <1>2. PICK B \in S : SameOp(B, Y) OBVIOUS
  <1>3. Shapes(A) /\ Rival(A, B) /\ A.created < B.created
    BY <1>1, <1>2 DEF Follows, SameOp, Shapes, Rival
  <1>4. ASSUME NEW Z \in S, Rival(A, Z)
        PROVE  Z.created <= A.created \/ B.created <= Z.created
    <2>1. PICK P \in T : SameOp(Z, P) OBVIOUS
    <2>2. Rival(X, P) BY <1>1, <1>4, <2>1 DEF SameOp, Shapes, Rival
    <2>3. P.created <= X.created \/ Y.created <= P.created BY <2>2 DEF Follows
    <2> QED BY <1>1, <1>2, <2>1, <2>3 DEF SameOp
  <1>5. Follows(S, A, B) BY <1>3, <1>4 DEF Follows
  <1>6. Leaves(A, A.meta.was, B.meta.was) BY <1>5 DEF Chained
  <1>7. B.meta.was = Y.meta.was BY <1>2 DEF SameOp
  <1> QED BY <1>1, <1>6, <1>7, LeavesSame

\* T is S with stored in the place of op.
Replaces(S, T, op, stored) ==
    /\ op \in S /\ stored \in T /\ SameOp(op, stored)
    /\ \A p \in T : p = stored \/ (p \in S /\ p # op)
    /\ \A p \in S : p = op \/ p \in T

LEMMA ReplacedChained ==
    ASSUME NEW S, NEW T, NEW op, NEW stored, Replaces(S, T, op, stored), Chained(S)
    PROVE  Chained(T)
  <1>1. \A p : SameOp(p, p) BY DEF SameOp
  <1>2. \A p \in T : \E o \in S : SameOp(o, p) BY <1>1 DEF Replaces
  <1>3. \A o \in S : \E p \in T : SameOp(o, p) BY <1>1 DEF Replaces
  <1> QED BY <1>2, <1>3, ChainedSame

LEMMA ReplacedNoted ==
    ASSUME NEW S, NEW T, NEW op, NEW stored, Replaces(S, T, op, stored),
           NEW next \in Nat, NEW later \in Nat, next <= later,
           S \subseteq StoredOps, \A o \in S : Noted(o, next)
    PROVE  \A o \in T : Noted(o, later)
  <1> SUFFICES ASSUME NEW p \in T PROVE Noted(p, later) OBVIOUS
  <1>1. PICK o \in S : SameOp(o, p) BY DEF Replaces, SameOp
  <1>2. Noted(o, next) /\ o.region \in Nat BY DEF StoredOps
  <1> QED BY <1>1, <1>2 DEF Noted, SameOp, Shapes, Audible

LEMMA OrderedTypes ==
    ASSUME NEW S, S \subseteq StoredOps
    PROVE  \A o \in S : o.id \in Nat /\ o.created \in Nat /\ o.undone \in Nat
  BY DEF StoredOps

\* The last operation is undone.
LEMMA UndoneOrdered ==
    ASSUME NEW S, NEW T, S \subseteq StoredOps, NEW time \in Nat \ {0}, Ordered(S, time),
           NEW op, NEW stored, Replaces(S, T, op, stored), stored.undone = time,
           IsActive(op), \A o \in S : IsActive(o) => o.created <= op.created
    PROVE  Ordered(T, time + 1)
  <1> DEFINE later == time + 1
  <1>1. \A o \in S : o.id \in Nat /\ o.created \in Nat /\ o.undone \in Nat BY OrderedTypes
  <1>2. \A o \in S : o.id < time /\ o.created = o.id /\ o.undone < time BY DEF Ordered
  <1>3. op \in S /\ stored.id = op.id /\ stored.created = op.created
    BY DEF Replaces, SameOp
  <1>4. \A p \in T : p = stored \/ (p \in S /\ p # op) BY DEF Replaces
  <1>5. ~IsActive(stored) BY DEF IsActive
  <1>6. \A p \in T : p.id < later /\ p.created = p.id /\ p.undone < later
    BY <1>1, <1>2, <1>3, <1>4
  <1>7. \A p \in S : p # op => p.id # op.id BY <1>3 DEF Ordered
  <1>8. ASSUME NEW o \in T, NEW p \in T, o.id = p.id PROVE o = p
    <2>1. CASE o = stored \/ p = stored BY <1>3, <1>4, <1>7, <1>8, <2>1
    <2>2. CASE o # stored /\ p # stored BY <1>4, <1>8, <2>2 DEF Ordered
    <2> QED BY <2>1, <2>2
  <1>9. ASSUME NEW o \in T, NEW p \in T, IsActive(o), ~IsActive(p) PROVE o.created < p.created
    <2>1. o \in S /\ o # op BY <1>4, <1>5, <1>9
    <2>2. CASE p = stored
      <3>1. o.created <= op.created /\ o.created # op.created
        BY <1>2, <1>3, <1>7, <1>9, <2>1
      <3> QED BY <1>1, <1>3, <2>1, <2>2, <3>1
    <2>3. CASE p # stored BY <1>4, <1>9, <2>1, <2>3 DEF Ordered
    <2> QED BY <2>2, <2>3
  <1>10. ASSUME NEW o \in T, NEW p \in T, ~IsActive(o), ~IsActive(p), o.created < p.created
         PROVE  p.undone < o.undone
    <2>1. CASE o = stored
      <3>1. p \in S BY <1>1, <1>3, <1>4, <1>10, <2>1
      <3> QED BY <1>2, <2>1, <3>1
    <2>2. CASE o # stored /\ p = stored
      <3>1. o \in S BY <1>4, <2>2
      <3>2. op.created < o.created BY <1>3, <1>10, <3>1 DEF Ordered
      <3> QED BY <1>1, <1>3, <1>10, <2>2, <3>1, <3>2
    <2>3. CASE o # stored /\ p # stored BY <1>4, <1>10, <2>3 DEF Ordered
    <2> QED BY <2>1, <2>2, <2>3
  <1> HIDE DEF later
  <1>11. Ordered(T, later) BY <1>6, <1>8, <1>9, <1>10 DEF Ordered
  <1> QED BY <1>11 DEF later

\* The first that was undone is redone.
LEMMA RedoneOrdered ==
    ASSUME NEW S, NEW T, S \subseteq StoredOps, NEW time \in Nat \ {0}, Ordered(S, time),
           NEW op, NEW stored, Replaces(S, T, op, stored), stored.undone = 0,
           ~IsActive(op), \A o \in S : ~IsActive(o) => op.created <= o.created
    PROVE  Ordered(T, time + 1)
  <1> DEFINE later == time + 1
  <1>1. \A o \in S : o.id \in Nat /\ o.created \in Nat /\ o.undone \in Nat BY OrderedTypes
  <1>2. \A o \in S : o.id < time /\ o.created = o.id /\ o.undone < time BY DEF Ordered
  <1>3. op \in S /\ stored.id = op.id /\ stored.created = op.created
    BY DEF Replaces, SameOp
  <1>4. \A p \in T : p = stored \/ (p \in S /\ p # op) BY DEF Replaces
  <1>5. IsActive(stored) BY DEF IsActive
  <1>6. \A p \in T : p.id < later /\ p.created = p.id /\ p.undone < later
    BY <1>1, <1>2, <1>3, <1>4
  <1>7. \A p \in S : p # op => p.id # op.id BY <1>3 DEF Ordered
  <1>8. ASSUME NEW o \in T, NEW p \in T, o.id = p.id PROVE o = p
    <2>1. CASE o = stored \/ p = stored BY <1>3, <1>4, <1>7, <1>8, <2>1
    <2>2. CASE o # stored /\ p # stored BY <1>4, <1>8, <2>2 DEF Ordered
    <2> QED BY <2>1, <2>2
  <1>9. ASSUME NEW o \in T, NEW p \in T, IsActive(o), ~IsActive(p) PROVE o.created < p.created
    <2>1. p \in S /\ p # op BY <1>4, <1>5, <1>9
    <2>2. CASE o = stored
      <3>1. op.created <= p.created /\ op.created # p.created
        BY <1>2, <1>3, <1>7, <1>9, <2>1
      <3> QED BY <1>1, <1>3, <2>1, <2>2, <3>1
    <2>3. CASE o # stored BY <1>4, <1>9, <2>1, <2>3 DEF Ordered
    <2> QED BY <2>2, <2>3
  <1>10. ASSUME NEW o \in T, NEW p \in T, ~IsActive(o), ~IsActive(p), o.created < p.created
         PROVE  p.undone < o.undone
    BY <1>4, <1>5, <1>10 DEF Ordered
  <1> HIDE DEF later
  <1>11. Ordered(T, later) BY <1>6, <1>8, <1>9, <1>10 DEF Ordered
  <1> QED BY <1>11 DEF later

\* Its undo leaves its region as the operation before it did.
LEMMA UndonePresent ==
    ASSUME NEW S, NEW T, S \subseteq StoredOps, NEW time, Ordered(S, time),
           Chained(S), NEW rs, Present(S, rs),
           NEW op, NEW stored, Replaces(S, T, op, stored), ~IsActive(stored),
           IsActive(op), \A o \in S : IsActive(o) => o.created <= op.created,
           NEW out, Restored(op, rs, out)
    PROVE  /\ Present(T, out)
           /\ Shapes(op) /\ op.region \in DOMAIN out => SameSpan(op.meta.was, out[op.region])
  <1>1. \A o \in S : o.created \in Nat BY OrderedTypes
  <1>2. /\ op \in S /\ SameOp(op, stored)
        /\ \A p \in T : p = stored \/ (p \in S /\ p # op)
        /\ \A p \in S : p = op \/ p \in T
    BY DEF Replaces
  <1>3. \A o, p \in S : IsActive(o) /\ ~IsActive(p) => o.created < p.created BY DEF Ordered
  <1>4. ASSUME Shapes(op), op.region \in DOMAIN out
        PROVE  SameSpan(op.meta.was, out[op.region])
    <2>1. Latest(S, op) BY <1>4 DEF Latest
    <2>2. op.region \in DOMAIN rs => Leaves(op, op.meta.was, rs[op.region])
      BY <1>2, <2>1 DEF Present
    <2> QED BY <1>4, <2>2 DEF Restored
  <1>5. ASSUME NEW x \in DOMAIN out, ~(Shapes(op) /\ x = op.region)
        PROVE  x \in DOMAIN rs /\ SameSpan(rs[x], out[x])
    BY <1>5 DEF Restored
  <1>6. ASSUME NEW X \in T, Latest(T, X), X.region \in DOMAIN out
        PROVE  Leaves(X, X.meta.was, out[X.region])
    <2>1. X \in S /\ X # op /\ IsActive(X) /\ Shapes(X)
          /\ \A Z \in T : IsActive(Z) /\ Rival(X, Z) => Z.created <= X.created
      BY <1>2, <1>6 DEF Latest
    <2>2. CASE Shapes(op) /\ X.region = op.region
      <3>1. X.created < op.created
        <4>1. X.created <= op.created /\ X.id # op.id /\ X.created = X.id /\ op.created = op.id
          BY <1>2, <2>1 DEF Ordered
        <4> QED BY <1>1, <1>2, <2>1, <4>1
      <3>2. ASSUME NEW Z \in S, Rival(X, Z)
            PROVE  Z.created <= X.created \/ op.created <= Z.created
        <4>1. CASE Z = op BY <1>1, <1>2, <4>1
        <4>2. CASE Z # op /\ IsActive(Z) BY <1>2, <2>1, <3>2, <4>2
        <4>3. CASE ~IsActive(Z)
          <5>1. op.created < Z.created BY <1>2, <1>3, <4>3
          <5> QED BY <1>1, <1>2, <5>1
        <4> QED BY <4>1, <4>2, <4>3
      <3>3. Rival(X, op) BY <2>2 DEF Rival
      <3>4. Follows(S, X, op) BY <2>1, <3>1, <3>2, <3>3 DEF Follows
      <3>5. Leaves(X, X.meta.was, op.meta.was) BY <1>2, <2>1, <3>4 DEF Chained
      <3>6. SameSpan(op.meta.was, out[X.region]) BY Zenon, <1>4, <1>6, <2>2
      <3> QED BY <3>5, <3>6, LeavesSpan
    <2>3. CASE ~(Shapes(op) /\ X.region = op.region)
      <3>1. X.region \in DOMAIN rs /\ SameSpan(rs[X.region], out[X.region])
        BY <1>5, <1>6, <2>3
      <3>2. Latest(S, X) BY <1>2, <2>1, <2>3 DEF Latest, Rival
      <3>3. Leaves(X, X.meta.was, rs[X.region]) BY <2>1, <3>1, <3>2 DEF Present
      <3> QED BY <3>1, <3>3, LeavesSpan
    <2> QED BY <2>2, <2>3
  <1>7. ASSUME NEW U \in T, Earliest(T, U), U.region \in DOMAIN out
        PROVE  SameSpan(U.meta.was, out[U.region])
    <2>1. ~IsActive(U) /\ Shapes(U)
          /\ \A Z \in T : ~IsActive(Z) /\ Rival(U, Z) => U.created <= Z.created
      BY <1>7 DEF Earliest
    <2>2. CASE U = stored
      <3>1. Shapes(op) /\ U.region = op.region /\ U.meta.was = op.meta.was
        BY <1>2, <2>1, <2>2 DEF SameOp, Shapes
      <3>2. op.region \in DOMAIN out BY <1>7, <3>1
      <3>3. SameSpan(op.meta.was, out[op.region]) BY <1>4, <3>1, <3>2
      <3> QED BY Zenon, <3>1, <3>3
    <2>3. CASE U # stored
      <3>1. U \in S /\ U # op BY <1>2, <2>3
      <3>2. ~(Shapes(op) /\ U.region = op.region)
        <4> SUFFICES ASSUME Shapes(op), U.region = op.region PROVE FALSE OBVIOUS
        <4>1. Rival(U, stored) /\ stored.created = op.created /\ stored \in T
          BY <1>2 DEF SameOp, Rival, Shapes, Replaces
        <4>2. U.created <= op.created BY <2>1, <4>1
        <4>3. op.created < U.created BY <1>2, <1>3, <2>1, <3>1
        <4> QED BY <1>1, <1>2, <3>1, <4>2, <4>3
      <3>3. U.region \in DOMAIN rs /\ SameSpan(rs[U.region], out[U.region])
        BY <1>5, <1>7, <3>2
      <3>4. Earliest(S, U) BY <1>2, <2>1 DEF Earliest
      <3>5. SameSpan(U.meta.was, rs[U.region]) BY <3>1, <3>3, <3>4 DEF Present
      <3> QED BY <3>3, <3>5 DEF SameSpan
    <2> QED BY <2>2, <2>3
  <1> QED BY <1>4, <1>6, <1>7 DEF Present

\* Its redo leaves its region as the next operation found it.
LEMMA RedonePresent ==
    ASSUME NEW S, NEW T, S \subseteq StoredOps, NEW time, Ordered(S, time),
           Chained(S), NEW rs, Present(S, rs),
           NEW next \in Nat, \A o \in S : Noted(o, next),
           NEW op, NEW stored, Replaces(S, T, op, stored), IsActive(stored),
           ~IsActive(op), \A o \in S : ~IsActive(o) => op.created <= o.created,
           NEW out, Applied(op, rs, next, out)
    PROVE  Present(T, out)
  <1>1. \A o \in S : o.created \in Nat /\ o.region \in Nat BY OrderedTypes DEF StoredOps
  <1>2. /\ op \in S /\ SameOp(op, stored)
        /\ \A p \in T : p = stored \/ (p \in S /\ p # op)
        /\ \A p \in S : p = op \/ p \in T
    BY DEF Replaces
  <1>3. \A o, p \in S : IsActive(o) /\ ~IsActive(p) => o.created < p.created BY DEF Ordered
  <1>4. ASSUME NEW o \in S, Shapes(o), o.region \in DOMAIN out PROVE o.region \in DOMAIN rs
    <2>1. o.region < next BY <1>4 DEF Noted
    <2>2. o.region \in DOMAIN rs \/ o.region >= next BY <1>4 DEF Applied
    <2> QED BY <1>1, <2>1, <2>2
  <1>5. ASSUME Shapes(op), op.region \in DOMAIN out
        PROVE  Leaves(op, op.meta.was, out[op.region])
    <2>1. op.region \in DOMAIN rs BY <1>2, <1>4, <1>5
    <2>2. Leaves(op, rs[op.region], out[op.region]) BY <1>5, <2>1 DEF Applied
    <2>3. Earliest(S, op) BY <1>5 DEF Earliest
    <2>4. SameSpan(op.meta.was, rs[op.region]) BY <1>2, <2>1, <2>3 DEF Present
    <2> QED BY <2>2, <2>4, LeavesFrom
  <1>6. ASSUME NEW o \in S, Shapes(o), o.region \in DOMAIN out, ~(Shapes(op) /\ o.region = op.region)
        PROVE  o.region \in DOMAIN rs /\ SameSpan(rs[o.region], out[o.region])
    <2>1. o.region \in DOMAIN rs BY <1>4, <1>6
    <2> QED BY <1>6, <2>1 DEF Applied
  <1>7. ASSUME NEW X \in T, Latest(T, X), X.region \in DOMAIN out
        PROVE  Leaves(X, X.meta.was, out[X.region])
    <2>1. IsActive(X) /\ Shapes(X)
          /\ \A Z \in T : IsActive(Z) /\ Rival(X, Z) => Z.created <= X.created
      BY <1>7 DEF Latest
    <2>2. CASE X = stored
      <3>1. Shapes(op) /\ X.region = op.region BY <1>2, <2>1, <2>2 DEF SameOp, Shapes
      <3>2. op.region \in DOMAIN out BY <1>7, <3>1
      <3>3. Leaves(op, op.meta.was, out[op.region]) BY <1>5, <3>1, <3>2
      <3>4. Leaves(stored, stored.meta.was, out[op.region]) BY <1>2, <3>3, LeavesSame
      <3> QED BY Zenon, <2>2, <3>1, <3>4
    <2>3. CASE X # stored
      <3>1. X \in S /\ X # op BY <1>2, <2>3
      <3>2. ~(Shapes(op) /\ X.region = op.region)
        <4> SUFFICES ASSUME Shapes(op), X.region = op.region PROVE FALSE OBVIOUS
        <4>1. Rival(X, stored) /\ stored.created = op.created /\ stored \in T
          BY <1>2 DEF SameOp, Rival, Shapes, Replaces
        <4>2. op.created <= X.created BY <2>1, <4>1
        <4>3. X.created < op.created BY <1>2, <1>3, <2>1, <3>1
        <4> QED BY <1>1, <1>2, <3>1, <4>2, <4>3
      <3>3. X.region \in DOMAIN rs /\ SameSpan(rs[X.region], out[X.region])
        BY <1>6, <1>7, <2>1, <3>1, <3>2
      <3>4. Latest(S, X) BY <1>2, <2>1 DEF Latest
      <3>5. Leaves(X, X.meta.was, rs[X.region]) BY <3>1, <3>3, <3>4 DEF Present
      <3> QED BY <3>3, <3>5, LeavesSpan
    <2> QED BY <2>2, <2>3
  <1>8. ASSUME NEW U \in T, Earliest(T, U), U.region \in DOMAIN out
        PROVE  SameSpan(U.meta.was, out[U.region])
    <2>1. U \in S /\ U # op /\ ~IsActive(U) /\ Shapes(U)
          /\ \A Z \in T : ~IsActive(Z) /\ Rival(U, Z) => U.created <= Z.created
      BY <1>2, <1>8 DEF Earliest
    <2>2. CASE Shapes(op) /\ U.region = op.region
      <3>1. op.created < U.created
        <4>1. op.created <= U.created /\ U.id # op.id /\ U.created = U.id /\ op.created = op.id
          BY <1>2, <2>1 DEF Ordered
        <4> QED BY <1>1, <1>2, <2>1, <4>1
      <3>2. ASSUME NEW Z \in S, Rival(op, Z)
            PROVE  Z.created <= op.created \/ U.created <= Z.created
        <4>1. CASE Z = op BY <1>1, <1>2, <4>1
        <4>2. CASE Z # op /\ ~IsActive(Z)
          <5>1. Rival(U, Z) /\ Z \in T BY <1>2, <2>2, <3>2, <4>2 DEF Rival
          <5> QED BY <2>1, <4>2, <5>1
        <4>3. CASE IsActive(Z)
          <5>1. Z.created < op.created BY <1>2, <1>3, <4>3
          <5> QED BY <1>1, <1>2, <5>1
        <4> QED BY <4>1, <4>2, <4>3
      <3>3. Rival(op, U) BY <2>1, <2>2 DEF Rival
      <3>4. Follows(S, op, U) BY <2>2, <3>1, <3>2, <3>3 DEF Follows
      <3>5. Leaves(op, op.meta.was, U.meta.was) BY <1>2, <2>1, <3>4 DEF Chained
      <3>6. Leaves(op, op.meta.was, out[U.region]) BY Zenon, <1>5, <1>8, <2>2
      <3> QED BY <3>5, <3>6, LeavesOnce
    <2>3. CASE ~(Shapes(op) /\ U.region = op.region)
      <3>1. U.region \in DOMAIN rs /\ SameSpan(rs[U.region], out[U.region])
        BY <1>6, <1>8, <2>1, <2>3
      <3>2. Earliest(S, U) BY <1>2, <2>1, <2>3 DEF Earliest, Rival
      <3>3. SameSpan(U.meta.was, rs[U.region]) BY <2>1, <3>1, <3>2 DEF Present
      <3> QED BY <3>1, <3>3 DEF SameSpan
    <2> QED BY <2>2, <2>3
  <1> QED BY <1>7, <1>8 DEF Present

\* T is what is not undone of S, and a new operation.
Adds(S, T, new) ==
    /\ new \in T /\ \A p \in T : p = new \/ (p \in S /\ IsActive(p))
    /\ \A p \in S : IsActive(p) => p \in T

LEMMA AddedOrdered ==
    ASSUME NEW S, NEW T, S \subseteq StoredOps, NEW time \in Nat \ {0}, Ordered(S, time),
           NEW new, Adds(S, T, new), new.id = time, new.created = time, new.undone = 0
    PROVE  Ordered(T, time + 1)
  <1> DEFINE later == time + 1
  <1>1. \A o \in S : o.id \in Nat /\ o.created \in Nat /\ o.undone \in Nat BY OrderedTypes
  <1>2. \A o \in S : o.id < time /\ o.created = o.id /\ o.undone < time BY DEF Ordered
  <1>3. \A p \in T : p = new \/ (p \in S /\ IsActive(p)) BY DEF Adds
  <1>4. \A p \in T : IsActive(p) BY <1>3 DEF IsActive
  <1>5. \A p \in T : p.id < later /\ p.created = p.id /\ p.undone < later BY <1>1, <1>2, <1>3
  <1>6. ASSUME NEW o \in T, NEW p \in T, o.id = p.id PROVE o = p
    <2>1. CASE o = new \/ p = new BY <1>1, <1>2, <1>3, <1>6, <2>1
    <2>2. CASE o # new /\ p # new BY <1>3, <1>6, <2>2 DEF Ordered
    <2> QED BY <2>1, <2>2
  <1> HIDE DEF later
  <1>7. Ordered(T, later) BY <1>4, <1>5, <1>6 DEF Ordered
  <1> QED BY <1>7 DEF later

LEMMA AddedPresent ==
    ASSUME NEW S, NEW T, S \subseteq StoredOps, NEW time \in Nat, Ordered(S, time),
           Chained(S), NEW rs, Present(S, rs), NEW next \in Nat, \A o \in S : Noted(o, next),
           NEW new, Adds(S, T, new), new.created = time, IsActive(new),
           Shapes(new) => new.region \in DOMAIN rs /\ new.region < next /\ new.region \in Nat
                             /\ new.meta.was = rs[new.region],
           NEW out, Applied(new, rs, next, out)
    PROVE  Chained(T) /\ Present(T, out)
  <1>1. \A o \in S : o.created \in Nat /\ o.region \in Nat BY OrderedTypes DEF StoredOps
  <1>2. /\ new \in T /\ \A p \in T : p = new \/ (p \in S /\ IsActive(p))
        /\ \A p \in S : IsActive(p) => p \in T
    BY DEF Adds
  <1>3. \A o, p \in S : IsActive(o) /\ ~IsActive(p) => o.created < p.created BY DEF Ordered
  <1>4. \A o \in S : o.created < time BY DEF Ordered
  <1>5. ASSUME NEW X \in T, NEW Y \in T, Follows(T, X, Y) PROVE Leaves(X, X.meta.was, Y.meta.was)
    <2>1. Shapes(X) /\ Rival(X, Y) /\ X.created < Y.created
          /\ \A Z \in T : Rival(X, Z) => Z.created <= X.created \/ Y.created <= Z.created
      BY <1>5 DEF Follows
    <2>2. X \in S /\ IsActive(X) BY <1>1, <1>2, <1>4, <2>1
    <2>3. CASE Y = new
      <3>1. Latest(S, X)
        <4> SUFFICES ASSUME NEW Z \in S, IsActive(Z), Rival(X, Z) PROVE Z.created <= X.created
          BY <2>1, <2>2 DEF Latest
        <4>1. Z.created <= X.created \/ time <= Z.created BY <1>2, <2>1, <2>3
        <4> QED BY <1>1, <1>4, <4>1
      <3>2. Shapes(new) /\ new.region = X.region BY <2>1, <2>3 DEF Rival
      <3>3. Leaves(X, X.meta.was, rs[X.region]) BY <2>2, <3>1, <3>2 DEF Present
      <3> QED BY Zenon, <2>3, <3>2, <3>3
    <2>4. CASE Y # new
      <3>1. Y \in S /\ IsActive(Y) BY <1>2, <2>4
      <3>2. ASSUME NEW Z \in S, Rival(X, Z)
            PROVE  Z.created <= X.created \/ Y.created <= Z.created
        <4>1. CASE IsActive(Z) BY <1>2, <2>1, <3>2, <4>1
        <4>2. CASE ~IsActive(Z)
          <5>1. Y.created < Z.created BY <1>3, <3>1, <4>2
          <5> QED BY <1>1, <3>1, <5>1
        <4> QED BY <4>1, <4>2
      <3>3. Follows(S, X, Y) BY <2>1, <3>2 DEF Follows
      <3> QED BY <2>2, <3>1, <3>3 DEF Chained
    <2> QED BY <2>3, <2>4
  <1>6. ASSUME NEW X \in T, Latest(T, X), X.region \in DOMAIN out
        PROVE  Leaves(X, X.meta.was, out[X.region])
    <2>1. IsActive(X) /\ Shapes(X)
          /\ \A Z \in T : IsActive(Z) /\ Rival(X, Z) => Z.created <= X.created
      BY <1>6 DEF Latest
    <2>2. CASE X = new
      <3>1. Leaves(new, rs[new.region], out[new.region]) BY <1>6, <2>1, <2>2 DEF Applied
      <3> QED BY <2>1, <2>2, <3>1
    <2>3. CASE X # new
      <3>1. X \in S BY <1>2, <2>3
      <3>2. ~(Shapes(new) /\ X.region = new.region)
        <4> SUFFICES ASSUME Shapes(new), X.region = new.region PROVE FALSE OBVIOUS
        <4>1. time <= X.created BY <1>2, <2>1 DEF Rival
        <4> QED BY <1>1, <1>4, <3>1, <4>1
      <3>3. X.region < next /\ X.region \in Nat BY <1>1, <2>1, <3>1 DEF Noted
      <3>4. X.region \in DOMAIN rs \/ X.region >= next BY <1>6 DEF Applied
      <3>5. X.region \in DOMAIN rs BY <3>3, <3>4
      <3>6. SameSpan(rs[X.region], out[X.region]) BY <1>6, <3>2, <3>5 DEF Applied
      <3>7. Latest(S, X) BY <1>2, <2>1 DEF Latest
      <3>8. Leaves(X, X.meta.was, rs[X.region]) BY <3>1, <3>5, <3>7 DEF Present
      <3> QED BY <3>6, <3>8, LeavesSpan
    <2> QED BY <2>2, <2>3
  <1>7. \A U \in T : IsActive(U) BY <1>2
  <1>8. Chained(T) BY <1>5 DEF Chained
  <1>9. Present(T, out)
    <2>1. \A U \in T : ~Earliest(T, U) BY <1>7 DEF Earliest
    <2> QED BY <1>6, <2>1 DEF Present
  <1> QED BY <1>8, <1>9

\* An undo under way is of the last operation, a redo of the first undone.
Due(S, asking) ==
    /\ asking.does = "undo" =>
          /\ asking.op \in S /\ IsActive(asking.op)
          /\ \A o \in S : IsActive(o) => o.created <= asking.op.created
    /\ asking.does = "redo" =>
          /\ asking.op \in S /\ ~IsActive(asking.op)
          /\ \A o \in S : ~IsActive(o) => asking.op.created <= o.created
    /\ asking.does # "render"

Draft ==
    /\ \A x \in DOMAIN regions : Audible(regions[x])
    /\ Story(versions[1].ops, regions, nextId, clock)
    /\ \A q \in Slots : Due(versions[1].ops, slot[q])

\* The inductive invariant of a song that is edited by one request at a time.
DraftInv == clock > 0 /\ (OneAtATime /\ Len(versions) = 1 => Draft)

LEMMA IdleDue == \A S : Due(S, IdleSlot)
  BY DEF Due, IdleSlot

LEMMA OneVersion ==
    ASSUME EditorInv, Len(versions) = 1
    PROVE  /\ Current = 1 /\ versions[1] \in VersionRows /\ versions[1].ops \subseteq StoredOps
           /\ versions \in Seq(VersionRows) /\ DOMAIN versions = {1}
           /\ ActiveOps(1) = {o \in versions[1].ops : IsActive(o)}
           /\ UndoneOps(1) = {o \in versions[1].ops : ~IsActive(o)}
  <1>1. VersionsInv BY DEF EditorInv
  <1>2. versions \in Seq(VersionRows) BY <1>1 DEF VersionsInv
  <1>3. DOMAIN versions = {1} /\ versions[1] \in VersionRows BY <1>2
  <1>4. Current = 1
    <2>1. Current \in 1 .. Len(versions) BY <1>1, CurrentIn
    <2> QED BY <2>1
  <1> QED BY <1>2, <1>3, <1>4 DEF VersionRows, ActiveOps, UndoneOps

\* What is asked for when a region is resized.
LEMMA ResizeAsked ==
    ASSUME NEW op \in Operations, op.does = "resize"
    PROVE  op.from < op.to
  <1> DEFINE Ids == DOMAIN regions
  <1>1. op # Asked("mix", 1, 0, 0) BY DEF Asked
  <1>2. op \notin {Asked(d, r, 0, 0) : d \in {"delete", "duplicate"}, r \in Ids} BY DEF Asked
  <1>3. op \notin {Asked("split", r, at, 0) : r \in Ids, at \in Times} BY DEF Asked
  <1>4. op \notin {Asked("move", r, 0, i) : r \in Ids, i \in 0 .. Cardinality(Ids) - 1} BY DEF Asked
  <1> QED BY <1>1, <1>2, <1>3, <1>4 DEF Operations

LEMMA AppliedSame ==
    ASSUME NEW op, NEW new, new.does = op.does, new.region = op.region, new.from = op.from,
           new.to = op.to, NEW rs, NEW id, NEW out, Applied(op, rs, id, out)
    PROVE  Applied(new, rs, id, out)
  <1> SUFFICES ASSUME NEW x \in DOMAIN out
               PROVE  /\ Audible(out[x])
                      /\ x \in DOMAIN rs \/ x >= id
                      /\ x \in DOMAIN rs /\ (x # new.region \/ ~Shapes(new)) => SameSpan(rs[x], out[x])
                      /\ x \in DOMAIN rs /\ x = new.region /\ Shapes(new) => Leaves(new, rs[x], out[x])
    BY DEF Applied
  <1>1. Shapes(op) <=> Shapes(new) BY DEF Shapes
  <1>2. Leaves(op, rs[x], out[x]) => Leaves(new, rs[x], out[x]) BY DEF Leaves
  <1> QED BY <1>1, <1>2 DEF Applied

\* An operation is applied to a draft.
LEMMA StoryApplied ==
    ASSUME NEW rs, Arranged(rs), \A x \in DOMAIN rs : Audible(rs[x]),
           NEW next \in Nat, \A x \in DOMAIN rs : x < next, NEW time \in Nat \ {0},
           NEW S, S \subseteq StoredOps, Story(S, rs, next, time),
           NEW op, IsOperation(op), op.region \in Nat, op.does = "mix" \/ op.region \in DOMAIN rs,
           op.does = "resize" => op.from < op.to,
           NEW out \in Applications(op, rs, next),
           NEW T, Adds(S, T, StoredAs(op, UndoMeta(op, rs, next), time, time)),
           NEW later \in Nat, next <= later
    PROVE  Story(T, out, later, time + 1) /\ \A x \in DOMAIN out : Audible(out[x])
  <1> DEFINE new == StoredAs(op, UndoMeta(op, rs, next), time, time)
             r == op.region
  <1>1. Applied(op, rs, next, out) BY AppliedSpans
  <1>2. /\ new.does = op.does /\ new.region = op.region /\ new.from = op.from /\ new.to = op.to
        /\ new.id = time /\ new.created = time /\ new.undone = 0
        /\ op.does # "mix" => new.meta.known = TRUE /\ new.meta.was = rs[r]
    BY DEF StoredAs, UndoMeta
  <1>3. Adds(S, T, new) OBVIOUS
  <1> HIDE DEF new, r
  <1>4. Applied(new, rs, next, out) BY <1>1, <1>2, AppliedSame
  <1>5. /\ \A o \in S : Noted(o, next)
        /\ Ordered(S, time) /\ Chained(S) /\ Present(S, rs)
    BY DEF Story
  <1>6. IsActive(new) BY <1>2 DEF IsActive
  <1>7. Shapes(new) => op.does # "mix" BY <1>2 DEF Shapes
  <1>8. r \in Nat /\ (op.does # "mix" => r \in DOMAIN rs /\ r < next /\ Audible(rs[r])) BY DEF r
  <1>9. new.region = r BY <1>2 DEF r
  <1>10. Shapes(new) => /\ new.region \in DOMAIN rs /\ new.region < next /\ new.region \in Nat
                        /\ new.meta.was = rs[new.region]
    BY <1>2, <1>7, <1>8, <1>9
  <1>11. Chained(T) /\ Present(T, out)
    BY <1>2, <1>3, <1>4, <1>5, <1>6, <1>10, AddedPresent
  <1>12. Ordered(T, time + 1) BY <1>2, <1>3, <1>5, AddedOrdered
  <1>13. Noted(new, later)
    <2>1. Shapes(new) => Audible(new.meta.was) /\ new.region < later
      BY <1>2, <1>7, <1>8, <1>9
    <2> QED BY <1>2, <2>1 DEF Noted
  <1>14. ASSUME NEW o \in T PROVE Noted(o, later)
    <2>1. CASE o = new BY <1>13, <2>1
    <2>2. CASE o # new
      <3>1. o \in S BY <1>3, <2>2 DEF Adds
      <3>2. Noted(o, next) /\ o.region \in Nat BY <1>5, <3>1 DEF StoredOps
      <3> QED BY <3>2 DEF Noted
    <2> QED BY <2>1, <2>2
  <1>15. \A x \in DOMAIN out : Audible(out[x]) BY <1>4 DEF Applied
  <1> QED BY <1>11, <1>12, <1>14, <1>15 DEF Story

LEMMA StoryUndone ==
    ASSUME NEW rs, Arranged(rs), \A x \in DOMAIN rs : Audible(rs[x]),
           NEW next \in Nat, NEW time \in Nat \ {0},
           NEW S, S \subseteq StoredOps, Story(S, rs, next, time),
           NEW op \in S, IsActive(op), \A o \in S : IsActive(o) => o.created <= op.created,
           NEW out \in Reversals(op, rs),
           NEW T, NEW stored, Replaces(S, T, op, stored), stored.undone = time,
           NEW later \in Nat, next <= later
    PROVE  Story(T, out, later, time + 1) /\ \A x \in DOMAIN out : Audible(out[x])
  <1>1. /\ \A o \in S : Noted(o, next)
        /\ Ordered(S, time) /\ Chained(S) /\ Present(S, rs)
    BY DEF Story
  <1>2. Noted(op, next) /\ op \in StoredOps BY <1>1
  <1>3. Restored(op, rs, out)
    <2>1. op.does # "mix" => op.meta.known BY <1>2 DEF Noted
    <2> QED BY <1>2, <2>1, ReversedSpans
  <1>4. ~IsActive(stored) BY DEF IsActive
  <1>5. /\ Present(T, out)
        /\ Shapes(op) /\ op.region \in DOMAIN out => SameSpan(op.meta.was, out[op.region])
    BY <1>1, <1>3, <1>4, UndonePresent
  <1>6. Ordered(T, time + 1) BY <1>1, UndoneOrdered
  <1>7. Chained(T) BY <1>1, ReplacedChained
  <1>8. \A o \in T : Noted(o, later) BY <1>1, ReplacedNoted
  <1>9. ASSUME NEW x \in DOMAIN out PROVE Audible(out[x])
    <2>1. CASE Shapes(op) /\ x = op.region
      <3>1. Audible(op.meta.was) /\ SameSpan(op.meta.was, out[x])
        BY Zenon, <1>2, <1>5, <2>1 DEF Noted
      <3> QED BY <3>1 DEF Audible, SameSpan
    <2>2. CASE ~(Shapes(op) /\ x = op.region)
      <3>1. x \in DOMAIN rs /\ SameSpan(rs[x], out[x]) BY <1>3, <2>2 DEF Restored
      <3> QED BY <3>1 DEF Audible, SameSpan
    <2> QED BY <2>1, <2>2
  <1> QED BY <1>5, <1>6, <1>7, <1>8, <1>9 DEF Story

LEMMA StoryRedone ==
    ASSUME NEW rs, Arranged(rs), \A x \in DOMAIN rs : Audible(rs[x]),
           NEW next \in Nat, \A x \in DOMAIN rs : x < next, NEW time \in Nat \ {0},
           NEW S, S \subseteq StoredOps, Story(S, rs, next, time),
           NEW op \in S, ~IsActive(op), \A o \in S : ~IsActive(o) => op.created <= o.created,
           NEW out \in Applications(op, rs, next),
           NEW T, NEW stored, Replaces(S, T, op, stored), stored.undone = 0,
           NEW later \in Nat, next <= later
    PROVE  Story(T, out, later, time + 1) /\ \A x \in DOMAIN out : Audible(out[x])
  <1>1. /\ \A o \in S : Noted(o, next)
        /\ Ordered(S, time) /\ Chained(S) /\ Present(S, rs)
    BY DEF Story
  <1>2. Noted(op, next) /\ op \in StoredOps BY <1>1
  <1>3. Applied(op, rs, next, out)
    <2>1. op.does = "resize" => op.from < op.to BY <1>2 DEF Noted
    <2>2. IsOperation(op) BY <1>2, StoredIsOperation
    <2> QED BY <2>1, <2>2, AppliedSpans
  <1>4. IsActive(stored) BY DEF IsActive
  <1>5. Present(T, out) BY <1>1, <1>3, <1>4, RedonePresent
  <1>6. Ordered(T, time + 1) BY <1>1, RedoneOrdered
  <1>7. Chained(T) BY <1>1, ReplacedChained
  <1>8. \A o \in T : Noted(o, later) BY <1>1, ReplacedNoted
  <1>9. \A x \in DOMAIN out : Audible(out[x]) BY <1>3 DEF Applied
  <1> QED BY <1>5, <1>6, <1>7, <1>8, <1>9 DEF Story

\* A draft after a step that leaves no request under way.
LEMMA DraftSet ==
    ASSUME OneAtATime, NEW q \in Slots, Due(versions'[1].ops, slot'[q]),
           Story(versions'[1].ops, regions', nextId', clock'),
           \A x \in DOMAIN regions' : Audible(regions'[x])
    PROVE  Draft'
  BY DEF Draft, OneAtATime

LEMMA ApplyDrafts ==
    ASSUME EditorInv, RegionsInv', OneAtATime, Len(versions) = 1, Draft, clock > 0,
           NEW q \in Slots, Apply(q)
    PROVE  Draft' /\ clock' > 0
  <1>1. PICK op \in Operations : \E rs \in Applications(op, regions, nextId) :
           /\ SetRegions(rs)
           /\ versions' = [versions EXCEPT ![Current].ops = ActiveOps(Current)
                 \cup {StoredAs(op, UndoMeta(op, regions, nextId), clock, clock)}]
    BY DEF Apply
  <1>2. PICK rs \in Applications(op, regions, nextId) :
           /\ SetRegions(rs)
           /\ versions' = [versions EXCEPT ![Current].ops = ActiveOps(Current)
                 \cup {StoredAs(op, UndoMeta(op, regions, nextId), clock, clock)}]
    BY <1>1
  <1> DEFINE S == versions[1].ops
             new == StoredAs(op, UndoMeta(op, regions, nextId), clock, clock)
             T == ActiveOps(1) \cup {new}
  <1>3. /\ Arranged(regions) /\ nextId \in Nat /\ clock \in Nat \ {0} /\ RegionsInv
        /\ \A r \in DOMAIN regions : r < nextId
    BY DEF EditorInv, RegionsInv, CountsInv
  <1>4. /\ IsOperation(op) /\ op.region \in Nat
        /\ op.does = "mix" \/ op.region \in DOMAIN regions
        /\ op.does = "resize" => op.from < op.to
    BY <1>3, OperationsTyped, ResizeAsked DEF Arranged
  <1>5. Current = 1 /\ S \subseteq StoredOps /\ versions[1] \in VersionRows
        /\ versions \in Seq(VersionRows) /\ DOMAIN versions = {1}
        /\ ActiveOps(1) = {o \in S : IsActive(o)}
    BY OneVersion
  <1>6. Adds(S, T, new) BY <1>5 DEF Adds
  <1>7. versions'[1].ops = T
    <2>1. versions' = [versions EXCEPT ![1].ops = T] BY <1>2, <1>5
    <2> HIDE DEF T
    <2> QED BY <1>5, <2>1 DEF VersionRows
  <1>8. Arranged(rs) BY <1>2, <1>3, <1>4, AppliedAndUndone
  <1>9. /\ regions' = rs /\ nextId' \in Nat /\ nextId <= nextId' /\ clock' = clock + 1
        /\ slot' = slot /\ slot[q].does = "nothing"
    BY <1>2, <1>3, <1>8, RegionsSet DEF SetRegions, Apply, RegionsInv
  <1>10. Story(S, regions, nextId, clock) /\ \A x \in DOMAIN regions : Audible(regions[x])
    BY DEF Draft
  <1> DEFINE later == nextId'
  <1>11. later \in Nat /\ nextId <= later BY <1>9
  <1>12. Adds(S, T, StoredAs(op, UndoMeta(op, regions, nextId), clock, clock)) BY <1>6
  <1> HIDE DEF T, S, new, later
  <1>13. Story(T, rs, later, clock + 1) /\ \A x \in DOMAIN rs : Audible(rs[x])
    BY <1>2, <1>3, <1>4, <1>5, <1>10, <1>11, <1>12, StoryApplied
  <1>14. Due(T, slot'[q]) BY <1>9 DEF Due
  <1>15. Story(versions'[1].ops, regions', nextId', clock') BY Zenon, <1>7, <1>9, <1>13 DEF later
  <1>16. Due(versions'[1].ops, slot'[q]) BY Zenon, <1>7, <1>14
  <1>17. \A x \in DOMAIN regions' : Audible(regions'[x]) BY <1>9, <1>13
  <1> QED BY <1>3, <1>9, <1>15, <1>16, <1>17, DraftSet

\* A request that chooses its operation, or that ends without a change.
LEMMA SlotDrafts ==
    ASSUME EditorInv, OneAtATime, Draft, clock > 0, UNCHANGED <<regions, versions, clock, nextId>>,
           NEW q \in Slots, NEW new, slot' = [slot EXCEPT ![q] = new], Due(versions[1].ops, new)
    PROVE  Draft' /\ clock' > 0
  <1>1. slot'[q] = new BY DEF EditorInv, SlotsInv
  <1>2. Due(versions'[1].ops, slot'[q]) BY <1>1
  <1>3. Story(versions'[1].ops, regions', nextId', clock')
        /\ \A x \in DOMAIN regions' : Audible(regions'[x])
    BY DEF Draft
  <1> QED BY <1>2, <1>3, DraftSet

LEMMA StartUndoDrafts ==
    ASSUME EditorInv, OneAtATime, Len(versions) = 1, Draft, clock > 0, NEW q \in Slots, StartUndo(q)
    PROVE  Draft' /\ clock' > 0
  <1> DEFINE found == {op \in ActiveOps(Current) :
                          \A other \in ActiveOps(Current) : op.created >= other.created}
  <1>1. Chooses(q, "undo", found) BY DEF StartUndo
  <1>2. PICK op \in found :
           slot' = [slot EXCEPT ![q] = [does |-> "undo", version |-> Current, op |-> op]]
    <2> HIDE DEF found
    <2> QED BY <1>1 DEF Chooses
  <1> DEFINE new == [does |-> "undo", version |-> Current, op |-> op]
             S == versions[1].ops
  <1>3. /\ Current = 1 /\ S \subseteq StoredOps
        /\ ActiveOps(1) = {o \in S : IsActive(o)}
    BY OneVersion
  <1>4. op \in S /\ IsActive(op) /\ \A o \in S : IsActive(o) => o.created <= op.created
    <2>1. \A o \in S : o.created \in Nat BY <1>3 DEF StoredOps
    <2> QED BY <1>2, <1>3, <2>1
  <1>5. Due(S, new) BY <1>4 DEF Due
  <1>6. UNCHANGED <<regions, versions, clock, nextId>> BY <1>1 DEF Chooses
  <1>7. slot' = [slot EXCEPT ![q] = new] BY <1>2
  <1> HIDE DEF new
  <1> QED BY <1>5, <1>6, <1>7, SlotDrafts

LEMMA StartRedoDrafts ==
    ASSUME EditorInv, OneAtATime, Len(versions) = 1, Draft, clock > 0, NEW q \in Slots, StartRedo(q)
    PROVE  Draft' /\ clock' > 0
  <1> DEFINE found == {op \in UndoneOps(Current) :
                          \A other \in UndoneOps(Current) : op.undone >= other.undone}
  <1>1. Chooses(q, "redo", found) BY DEF StartRedo
  <1>2. PICK op \in found :
           slot' = [slot EXCEPT ![q] = [does |-> "redo", version |-> Current, op |-> op]]
    <2> HIDE DEF found
    <2> QED BY <1>1 DEF Chooses
  <1> DEFINE new == [does |-> "redo", version |-> Current, op |-> op]
             S == versions[1].ops
  <1>3. /\ Current = 1 /\ S \subseteq StoredOps
        /\ UndoneOps(1) = {o \in S : ~IsActive(o)}
    BY OneVersion
  <1>4. op \in S /\ ~IsActive(op) /\ \A o \in S : ~IsActive(o) => op.created <= o.created
    <2>1. \A o \in S : o.created \in Nat /\ o.undone \in Nat BY <1>3 DEF StoredOps
    <2>2. op \in S /\ ~IsActive(op) /\ \A o \in S : ~IsActive(o) => op.undone >= o.undone
      BY <1>2, <1>3
    <2>3. Ordered(S, clock) BY DEF Draft, Story
    <2>4. \A o \in S : ~IsActive(o) /\ o.created < op.created => op.undone < o.undone
      BY <2>2, <2>3 DEF Ordered
    <2> HIDE DEF S
    <2> QED BY <2>1, <2>2, <2>4
  <1>5. Due(S, new) BY <1>4 DEF Due
  <1>6. UNCHANGED <<regions, versions, clock, nextId>> BY <1>1 DEF Chooses
  <1>7. slot' = [slot EXCEPT ![q] = new] BY <1>2
  <1> HIDE DEF new
  <1> QED BY <1>5, <1>6, <1>7, SlotDrafts

\* The transaction of an undo or a redo, when its operation is there.
LEMMA CommitDrafts ==
    ASSUME EditorInv, OneAtATime, Len(versions) = 1, Draft, clock > 0,
           NEW q \in Slots, slot' = [slot EXCEPT ![q] = IdleSlot],
           NEW rs, Arranged(rs), SetRegions(rs), clock' = clock + 1,
           NEW T, versions' = [versions EXCEPT ![1].ops = T],
           \A later \in Nat : nextId <= later =>
              Story(T, rs, later, clock + 1) /\ \A x \in DOMAIN rs : Audible(rs[x])
    PROVE  Draft' /\ clock' > 0
  <1>1. clock \in Nat /\ RegionsInv BY DEF EditorInv, CountsInv
  <1>2. RegionsInv' /\ nextId <= nextId' BY <1>1, RegionsSet
  <1> DEFINE later == nextId'
  <1>3. later \in Nat /\ nextId <= later BY <1>2 DEF RegionsInv
  <1> HIDE DEF later
  <1>4. Story(T, rs, later, clock + 1) /\ \A x \in DOMAIN rs : Audible(rs[x]) BY <1>3
  <1>5. versions'[1].ops = T BY OneVersion DEF VersionRows
  <1>6. regions' = rs BY DEF SetRegions
  <1>7. Due(T, slot'[q])
    <2>1. slot'[q] = IdleSlot BY DEF EditorInv, SlotsInv
    <2> QED BY <2>1, IdleDue
  <1>8. Story(versions'[1].ops, regions', nextId', clock') BY Zenon, <1>4, <1>5, <1>6 DEF later
  <1>9. Due(versions'[1].ops, slot'[q]) BY Zenon, <1>5, <1>7
  <1>10. \A x \in DOMAIN regions' : Audible(regions'[x]) BY <1>4, <1>6
  <1> QED BY <1>1, <1>8, <1>9, <1>10, DraftSet

\* The version of a request on a draft that was not rendered.
LEMMA RequestVersion ==
    ASSUME EditorInv, Len(versions) = 1, NEW q \in Slots
    PROVE  slot[q].version = 1 /\ slot[q].op \in StoredOps
  BY DEF EditorInv, SlotsInv, Requests

\* A region as long as the shortest one can be heard.
LEMMA MinRangeAudible ==
    ASSUME NEW g \in Region, g.start + MinRange <= g.end PROVE g.start < g.end
  BY ArrangementAssumption DEF Region, Times

\* A song starts with parts that can be heard.
LEMMA DefaultAudible == \A x \in DOMAIN DefaultRegions(Length) : Audible(DefaultRegions(Length)[x])
  BY DefaultArranged, MinRangeAudible DEF Audible, Arranged, IsArrangement

LEMMA StoredReplaces ==
    ASSUME NEW S, NEW time, Ordered(S, time), NEW op \in S, NEW stored, SameOp(op, stored)
    PROVE  Replaces(S, (S \ {o \in S : o.id = op.id}) \cup {stored}, op, stored)
  BY DEF Replaces, Ordered

LEMMA UndoDrafts ==
    ASSUME EditorInv, OneAtATime, Len(versions) = 1, Draft, clock > 0, NEW q \in Slots, Undo(q)
    PROVE  Draft' /\ clock' > 0
  <1> DEFINE op == slot[q].op
             v == slot[q].version
             S == versions[1].ops
             at == {o \in versions[v].ops : o.id = op.id}
             stored == [op EXCEPT !.undone = clock]
  <1>1. /\ slot[q].does = "undo" /\ slot' = [slot EXCEPT ![q] = IdleSlot]
        /\ \/ UNCHANGED <<regions, versions, clock, nextId>>
           \/ /\ \E rs \in Reversals(op, regions) : SetRegions(rs)
              /\ versions' = [versions EXCEPT ![v].ops = (@ \ at) \cup {stored}]
              /\ clock' = clock + 1
    BY DEF Undo, Commits
  <1>2. v = 1 /\ op \in StoredOps BY RequestVersion
  <1>3. op \in S /\ IsActive(op) /\ \A o \in S : IsActive(o) => o.created <= op.created
    BY <1>1 DEF Draft, Due
  <1>4. CASE UNCHANGED <<regions, versions, clock, nextId>>
    <2>1. Due(versions[1].ops, IdleSlot) BY IdleDue
    <2> QED BY <1>1, <1>4, <2>1, SlotDrafts
  <1>5. CASE /\ \E rs \in Reversals(op, regions) : SetRegions(rs)
             /\ versions' = [versions EXCEPT ![v].ops = (@ \ at) \cup {stored}]
             /\ clock' = clock + 1
    <2>1. PICK rs \in Reversals(op, regions) : SetRegions(rs) BY <1>5
    <2> DEFINE T == (S \ {o \in S : o.id = op.id}) \cup {stored}
    <2>2. /\ Arranged(regions) /\ nextId \in Nat /\ clock \in Nat \ {0}
          /\ S \subseteq StoredOps
          /\ Story(S, regions, nextId, clock) /\ \A x \in DOMAIN regions : Audible(regions[x])
      BY OneVersion DEF EditorInv, RegionsInv, CountsInv, Draft
    <2>3. SameOp(op, stored) /\ stored.undone = clock BY <1>2 DEF StoredOps, SameOp
    <2>4. versions' = [versions EXCEPT ![1].ops = T] BY <1>2, <1>5
    <2>5. Arranged(rs)
      <3> HIDE DEF op
      <3> QED BY <1>2, <2>1, <2>2, StoredIsOperation, Reversed
    <2>6. Replaces(S, T, op, stored)
      <3>1. Ordered(S, clock) BY <2>2 DEF Story
      <3> HIDE DEF S, op, stored
      <3> QED BY <1>3, <2>3, <3>1, StoredReplaces
    <2> HIDE DEF S, T, op, stored
    <2>7. ASSUME NEW later \in Nat, nextId <= later
          PROVE  Story(T, rs, later, clock + 1) /\ \A x \in DOMAIN rs : Audible(rs[x])
      BY <1>3, <2>1, <2>2, <2>3, <2>6, <2>7, StoryUndone
    <2> QED BY <1>1, <1>5, <2>1, <2>4, <2>5, <2>7, CommitDrafts
  <1> HIDE DEF at, stored, v
  <1> QED BY <1>1, <1>4, <1>5

LEMMA RedoDrafts ==
    ASSUME EditorInv, OneAtATime, Len(versions) = 1, Draft, clock > 0, NEW q \in Slots, Redo(q)
    PROVE  Draft' /\ clock' > 0
  <1> DEFINE op == slot[q].op
             v == slot[q].version
             S == versions[1].ops
             at == {o \in versions[v].ops : o.id = op.id}
             stored == [op EXCEPT !.undone = 0,
                                  !.meta.made = IF op.does = "duplicate" THEN nextId ELSE @]
  <1>1. /\ slot[q].does = "redo" /\ slot' = [slot EXCEPT ![q] = IdleSlot]
        /\ \/ UNCHANGED <<regions, versions, clock, nextId>>
           \/ /\ \E rs \in Applications(op, regions, nextId) : SetRegions(rs)
              /\ versions' = [versions EXCEPT ![v].ops = (@ \ at) \cup {stored}]
              /\ clock' = clock + 1
    BY DEF Redo, Commits
  <1>2. v = 1 /\ op \in StoredOps BY RequestVersion
  <1>3. op \in S /\ ~IsActive(op) /\ \A o \in S : ~IsActive(o) => op.created <= o.created
    BY <1>1 DEF Draft, Due
  <1>4. CASE UNCHANGED <<regions, versions, clock, nextId>>
    <2>1. Due(versions[1].ops, IdleSlot) BY IdleDue
    <2> QED BY <1>1, <1>4, <2>1, SlotDrafts
  <1>5. CASE /\ \E rs \in Applications(op, regions, nextId) : SetRegions(rs)
             /\ versions' = [versions EXCEPT ![v].ops = (@ \ at) \cup {stored}]
             /\ clock' = clock + 1
    <2>1. PICK rs \in Applications(op, regions, nextId) : SetRegions(rs) BY <1>5
    <2> DEFINE T == (S \ {o \in S : o.id = op.id}) \cup {stored}
    <2>2. /\ Arranged(regions) /\ nextId \in Nat /\ clock \in Nat \ {0}
          /\ \A r \in DOMAIN regions : r < nextId
          /\ S \subseteq StoredOps
          /\ Story(S, regions, nextId, clock) /\ \A x \in DOMAIN regions : Audible(regions[x])
      BY OneVersion DEF EditorInv, RegionsInv, CountsInv, Draft
    <2>3. SameOp(op, stored) /\ stored.undone = 0
      <3> DEFINE made == IF op.does = "duplicate" THEN nextId ELSE op.meta.made
                 meta == [op.meta EXCEPT !.made = made]
      <3>1. op.meta \in Metas BY <1>2, StoredIsOperation
      <3>2. meta.was = op.meta.was /\ meta.known = op.meta.known BY <3>1 DEF Metas
      <3>3. stored = [op EXCEPT !.undone = 0, !.meta = meta] BY <1>2 DEF StoredOps
      <3> HIDE DEF meta, op, stored
      <3> QED BY <1>2, <3>2, <3>3 DEF StoredOps, SameOp
    <2>4. versions' = [versions EXCEPT ![1].ops = T] BY <1>2, <1>5
    <2>5. Arranged(rs)
      <3> HIDE DEF op
      <3> QED BY <1>2, <2>1, <2>2, StoredIsOperation, AppliedAndUndone
    <2>6. Replaces(S, T, op, stored)
      <3>1. Ordered(S, clock) BY <2>2 DEF Story
      <3> HIDE DEF S, op, stored
      <3> QED BY <1>3, <2>3, <3>1, StoredReplaces
    <2> HIDE DEF S, T, op, stored
    <2>7. ASSUME NEW later \in Nat, nextId <= later
          PROVE  Story(T, rs, later, clock + 1) /\ \A x \in DOMAIN rs : Audible(rs[x])
      BY <1>3, <2>1, <2>2, <2>3, <2>6, <2>7, StoryRedone
    <2> QED BY <1>1, <1>5, <2>1, <2>4, <2>5, <2>7, CommitDrafts
  <1> HIDE DEF at, stored, v
  <1> QED BY <1>1, <1>4, <1>5

\* A song that was never rendered stays a draft that can be undone, and a
\* rendered one stays rendered.
LEMMA DraftStarts == EditorInit => DraftInv
  <1> SUFFICES ASSUME EditorInit PROVE DraftInv OBVIOUS
  <1>1. clock > 0 BY DEF EditorInit
  <1>2. regions = DefaultRegions(Length) /\ versions[1].ops = {} /\ slot = [q \in Slots |-> IdleSlot]
    BY DEF EditorInit
  <1>3. \A q \in Slots : Due(versions[1].ops, slot[q]) BY <1>2, IdleDue
  <1>4. Story(versions[1].ops, regions, nextId, clock)
    BY <1>2 DEF Story, Ordered, Chained, Present
  <1>5. \A x \in DOMAIN regions : Audible(regions[x]) BY <1>2, DefaultAudible
  <1> QED BY <1>1, <1>3, <1>4, <1>5 DEF DraftInv, Draft

LEMMA DraftStep == EditorInv /\ EditorInv' /\ DraftInv /\ [EditorNext]_editorVars => DraftInv'
  <1> SUFFICES ASSUME EditorInv, EditorInv', DraftInv, [EditorNext]_editorVars PROVE DraftInv'
    OBVIOUS
  <1>0. clock \in Nat /\ clock > 0 /\ Len(versions) \in Nat /\ Len(versions) > 0
        /\ RegionsInv' /\ OneAtATime' = OneAtATime
    BY DEF EditorInv, DraftInv, CountsInv, VersionsInv, OneAtATime
  <1>1. CASE UNCHANGED editorVars
    BY <1>1 DEF editorVars, DraftInv, Draft, OneAtATime
  <1>2. CASE EditorNext
    <2>1. PICK q \in Slots :
             \/ Apply(q) \/ StartUndo(q) \/ Undo(q) \/ StartRedo(q) \/ Redo(q)
             \/ Render(q) \/ RenderEnds(q) \/ RenderDies(q)
      BY <1>2 DEF EditorNext
    <2>2. clock' > 0
      <3>1. clock' = clock \/ clock' = clock + 1
        BY <2>1 DEF Apply, StartUndo, Undo, StartRedo, Redo, Commits, Chooses, Render,
            RenderEnds, RenderDies
      <3> QED BY <1>0, <3>1
    <2>3. ASSUME OneAtATime, Len(versions') = 1 PROVE Draft'
      <3>1. CASE Render(q)
        <4>1. PICK new : versions' = Append(versions, new) BY Zenon, <3>1 DEF Render
        <4>2. versions \in Seq(VersionRows) BY DEF EditorInv, VersionsInv
        <4> QED BY <1>0, <2>3, <4>1, <4>2
      <3>2. CASE ~Render(q)
        <4>1. Len(versions) = 1
          <5>1. versions' = versions \/ \E v, new : versions' = [versions EXCEPT ![v] = new]
            BY <2>1, <3>2 DEF Apply, StartUndo, Undo, StartRedo, Redo, Commits, Chooses,
                RenderEnds, RenderDies
          <5>2. versions \in Seq(VersionRows) /\ versions' \in Seq(VersionRows)
            BY DEF EditorInv, VersionsInv
          <5> QED BY <1>0, <2>3, <5>1, <5>2
        <4>2. Draft BY <2>3, <4>1 DEF DraftInv
        <4>3. slot[q].does # "render" BY <4>2 DEF Draft, Due
        <4>4. CASE Apply(q) BY <1>0, <2>3, <4>1, <4>2, <4>4, ApplyDrafts
        <4>5. CASE StartUndo(q) BY <1>0, <2>3, <4>1, <4>2, <4>5, StartUndoDrafts
        <4>6. CASE Undo(q) BY <1>0, <2>3, <4>1, <4>2, <4>6, UndoDrafts
        <4>7. CASE StartRedo(q) BY <1>0, <2>3, <4>1, <4>2, <4>7, StartRedoDrafts
        <4>8. CASE Redo(q) BY <1>0, <2>3, <4>1, <4>2, <4>8, RedoDrafts
        <4>9. ~RenderEnds(q) /\ ~RenderDies(q) BY <4>3 DEF RenderEnds, RenderDies
        <4> QED BY <2>1, <3>2, <4>4, <4>5, <4>6, <4>7, <4>8, <4>9
      <3> QED BY <3>1, <3>2
    <2> QED BY <1>0, <2>2, <2>3 DEF DraftInv
  <1> QED BY <1>1, <1>2

\* What one request at a time does keeps the invariant of a draft.
THEOREM DraftInvariant == EditorSpec => []DraftInv
  <1>1. EditorInit => EditorInv /\ DraftInv BY EditorStarts, DraftStarts
  <1>2. EditorInv /\ DraftInv /\ [EditorNext]_editorVars => EditorInv' /\ DraftInv'
    BY EditorStep, DraftStep
  <1> QED BY <1>1, <1>2, PTL DEF EditorSpec

LEMMA DraftHeard == ASSUME EditorInv, DraftInv PROVE RegionsProper
  <1> SUFFICES ASSUME OneAtATime, Len(versions) = 1, NEW r \in DOMAIN regions
               PROVE  /\ 0 <= regions[r].start /\ regions[r].start < regions[r].end
                      /\ regions[r].end <= Length
    BY DEF RegionsProper, RegionsHaveLength
  <1>1. regions[r].start < regions[r].end BY DEF DraftInv, Draft, Audible
  <1>2. regions[r].start \in Times /\ regions[r].end \in Times
    BY DEF EditorInv, RegionsInv, Arranged, IsArrangement, Region
  <1> QED BY <1>1, <1>2, LengthType DEF Times

\* Whatever is cut, trimmed, undone and redone, one request at a time, every
\* region of a song that was not rendered can be heard.
THEOREM RegionsHeard == EditorSpec => []RegionsProper
  BY EditorInvariant, DraftInvariant, DraftHeard, PTL

-----------------------------------------------------------------------------
(* The page of the editor *)

\* What the page may ask for.
PageOps ==
    [does : {"nothing", "split", "delete", "delete_range", "fade", "duplicate", "move",
             "resize", "track_resize", "track_move"},
     track : Lanes \cup {"both"}, region : Nat, from : Nat, to : Nat]

\* What the server has remembered: a trim of one track was checked.
EditsOK(edits) ==
    /\ edits \in Seq(PageOps)
    /\ \A i \in DOMAIN edits : edits[i].does = "track_resize" =>
          edits[i].from + MinRange <= edits[i].to /\ edits[i].to <= Length

\* A copy of the song, as it is or as it was.
Copies == [regions : UNION {[ids -> Region] : ids \in SUBSET Nat}, mix : Seq(PageOps)]
CopyOK(copy) ==
    /\ copy \in Copies
    /\ Arranged(copy.regions) /\ EditsOK(copy.mix)
    /\ \A r \in DOMAIN copy.regions : Audible(copy.regions[r])

\* Every region is as long as the shortest one.
LongEnough(rs) == \A r \in DOMAIN rs : rs[r].start + MinRange <= rs[r].end

\* A split leaves more than the padding on both sides.
SplitsInside(op, rs) ==
    op.does = "split" =>
        /\ op.region \in DOMAIN rs
        /\ rs[op.region].start + Edge < op.from /\ op.from < rs[op.region].end - Edge

\* Clips of the regions that the page knows.
Clips(rs) == [region : DOMAIN rs, from : Nat, to : Nat]

ServerInv == RegionsInv /\ CopyOK(Copy) /\ (alone => LongEnough(regions))

Dragged == {"nothing", "resize", "track_resize", "move", "track_move"}

\* What the timer may ask for.
DragOK(op) ==
    /\ op \in PageOps /\ op.does \in Dragged
    /\ op.does = "nothing" => op = NoOp

TimelineInv ==
    /\ CopyOK(page) /\ shown \in [Lanes -> Seq(Clips(page.regions))]
    /\ DragOK(pending)

RequestsInv ==
    /\ inflight \in [Slots -> [state : {"idle", "asked", "answered", "refused"}, op : PageOps, answer : Copies]]
    /\ \A q \in Slots : /\ inflight[q].state = "asked" => inflight[q].op.does # "nothing"
                        /\ inflight[q].state = "answered" => CopyOK(inflight[q].answer)

\* While the page asks for one thing at a time, it knows the song as it is, or
\* is about to.
AloneInv ==
    alone =>
        /\ \A p, q \in Slots :
              inflight[p].state # "idle" /\ inflight[q].state # "idle" => p = q
        /\ (\A q \in Slots : inflight[q].state # "answered") => page = Copy
        /\ \A q \in Slots :
              /\ inflight[q].state = "answered" => inflight[q].answer = Copy
              /\ inflight[q].state = "asked" => SplitsInside(inflight[q].op, regions)

PageInv == ServerInv /\ TimelineInv /\ RequestsInv /\ AloneInv

-----------------------------------------------------------------------------
(* The timeline *)

\* The parts and the concatenation of sequences.
LEMMA PartOf ==
    ASSUME NEW S, NEW s \in Seq(S), NEW a \in Nat \ {0}, NEW b \in Nat, a <= b + 1, b <= Len(s)
    PROVE  /\ SubSeq(s, a, b) \in Seq(S) /\ Len(SubSeq(s, a, b)) = b - a + 1
           /\ \A k \in 1 .. b - a + 1 : SubSeq(s, a, b)[k] = s[k + a - 1]
  <1>1. \A k \in a .. b : k \in 1 .. Len(s) /\ s[k] \in S OBVIOUS
  <1>2. SubSeq(s, a, b) \in Seq(S) /\ Len(SubSeq(s, a, b)) = b - a + 1
    BY <1>1
  <1>3. \A k \in 1 .. b - a + 1 : SubSeq(s, a, b)[k] = s[k + a - 1] OBVIOUS
  <1> QED BY <1>2, <1>3

\* What two sequences in a row are.
LEMMA Concatenated ==
    ASSUME NEW S, NEW s \in Seq(S), NEW t \in Seq(S)
    PROVE  /\ s \o t \in Seq(S) /\ Len(s \o t) = Len(s) + Len(t)
           /\ \A k \in 1 .. Len(s) + Len(t) :
                 (s \o t)[k] = IF k <= Len(s) THEN s[k] ELSE t[k - Len(s)]
  OBVIOUS

\* Where the element at a place comes from when the one at i goes to j.
CarriedFrom(i, j, k) ==
    IF k = j THEN i
    ELSE IF i <= k /\ k < j THEN k + 1
    ELSE IF j < k /\ k <= i THEN k - 1
    ELSE k

\* InsertAt after RemoveAt: each element comes from one place.
LEMMA CarriedIs ==
    ASSUME NEW S, NEW s \in Seq(S), NEW i \in 1 .. Len(s), NEW j \in 1 .. Len(s)
    PROVE  /\ Carried(s, i, j) \in Seq(S) /\ Len(Carried(s, i, j)) = Len(s)
           /\ \A k \in 1 .. Len(s) :
                 /\ CarriedFrom(i, j, k) \in 1 .. Len(s)
                 /\ Carried(s, i, j)[k] = s[CarriedFrom(i, j, k)]
  <1> DEFINE n == Len(s)
             a == SubSeq(s, 1, i - 1)
             b == SubSeq(s, i + 1, n)
             w == a \o b
             c == SubSeq(w, 1, j - 1)
             e == <<s[i]>>
             d == SubSeq(w, j, Len(w))
  <1>1. n \in Nat /\ i \in 1 .. n /\ j \in 1 .. n OBVIOUS
  <1>2. /\ a \in Seq(S) /\ Len(a) = i - 1 /\ \A k \in 1 .. i - 1 : a[k] = s[k]
        /\ b \in Seq(S) /\ Len(b) = n - i /\ \A k \in 1 .. n - i : b[k] = s[k + i]
    <2>1. i - 1 \in Nat /\ i - 1 <= n /\ 1 \in Nat \ {0} /\ 1 <= i - 1 + 1 /\ i - 1 - 1 + 1 = i - 1
      BY <1>1
    <2>2. /\ a \in Seq(S) /\ Len(a) = i - 1 - 1 + 1
          /\ \A k \in 1 .. i - 1 - 1 + 1 : a[k] = s[k + 1 - 1]
      BY <2>1, PartOf
    <2>3. i + 1 \in Nat \ {0} /\ i + 1 <= n + 1 /\ n <= Len(s) BY <1>1
    <2>4. /\ b \in Seq(S) /\ Len(b) = n - (i + 1) + 1
          /\ \A k \in 1 .. n - (i + 1) + 1 : b[k] = s[k + (i + 1) - 1]
      BY <1>1, <2>3, PartOf
    <2> HIDE DEF a, b
    <2>5. \A k \in Int : k + 1 - 1 = k /\ k + (i + 1) - 1 = k + i BY <1>1
    <2>6. n - (i + 1) + 1 = n - i BY <1>1
    <2> QED BY <2>1, <2>2, <2>4, <2>5, <2>6
  <1> HIDE DEF a, b
  <1>3. /\ w \in Seq(S) /\ Len(w) = n - 1
        /\ \A k \in 1 .. n - 1 : w[k] = IF k <= i - 1 THEN a[k] ELSE b[k - (i - 1)]
    <2>1. /\ w \in Seq(S) /\ Len(w) = Len(a) + Len(b)
          /\ \A k \in 1 .. Len(a) + Len(b) : w[k] = IF k <= Len(a) THEN a[k] ELSE b[k - Len(a)]
      BY <1>2, Concatenated
    <2>2. Len(a) + Len(b) = n - 1 BY <1>1, <1>2
    <2> HIDE DEF w
    <2> QED BY <1>2, <2>1, <2>2
  <1>4. \A k \in 1 .. n - 1 : w[k] = IF k < i THEN s[k] ELSE s[k + 1]
    <2> TAKE k \in 1 .. n - 1
    <2>1. CASE k < i
      <3>1. k \in 1 .. i - 1 /\ k <= i - 1 BY <1>1, <2>1
      <3> QED BY <1>2, <1>3, <2>1, <3>1
    <2>2. CASE ~(k < i)
      <3>1. k - (i - 1) \in 1 .. n - i /\ ~(k <= i - 1) /\ (k - (i - 1)) + i = k + 1 BY <1>1, <2>2
      <3>2. b[k - (i - 1)] = s[(k - (i - 1)) + i] BY <1>2, <3>1
      <3> QED BY <1>3, <2>2, <3>1, <3>2
    <2> QED BY <2>1, <2>2
  <1> HIDE DEF w
  <1>5. /\ c \in Seq(S) /\ Len(c) = j - 1 /\ \A k \in 1 .. j - 1 : c[k] = w[k]
        /\ d \in Seq(S) /\ Len(d) = n - j /\ \A k \in 1 .. n - j : d[k] = w[k + j - 1]
    <2>1. /\ j - 1 \in Nat /\ j - 1 <= Len(w) /\ 1 \in Nat \ {0} /\ 1 <= j - 1 + 1
          /\ j - 1 - 1 + 1 = j - 1
      BY <1>1, <1>3
    <2>2. /\ c \in Seq(S) /\ Len(c) = j - 1 - 1 + 1
          /\ \A k \in 1 .. j - 1 - 1 + 1 : c[k] = w[k + 1 - 1]
      BY <1>3, <2>1, PartOf
    <2>3. j \in Nat \ {0} /\ n - 1 \in Nat /\ j <= n - 1 + 1 /\ n - 1 <= Len(w) BY <1>1, <1>3
    <2>4. d = SubSeq(w, j, n - 1) BY <1>3
    <2>5. /\ d \in Seq(S) /\ Len(d) = n - 1 - j + 1
          /\ \A k \in 1 .. n - 1 - j + 1 : d[k] = w[k + j - 1]
      <3> HIDE DEF d
      <3> QED BY <1>3, <2>3, <2>4, PartOf
    <2> HIDE DEF c, d
    <2>6. \A k \in Int : k + 1 - 1 = k OBVIOUS
    <2>7. n - 1 - j + 1 = n - j BY <1>1
    <2> QED BY <2>1, <2>2, <2>5, <2>6, <2>7
  <1>6. e \in Seq(S) /\ Len(e) = 1 /\ e[1] = s[i] OBVIOUS
  <1> HIDE DEF c, d, e
  <1>7. Carried(s, i, j) = c \o e \o d BY Zenon DEF Carried, InsertAt, RemoveAt, c, d, e, w, a, b
  <1> DEFINE f == c \o e
  <1>8. /\ f \in Seq(S) /\ Len(f) = j
        /\ \A k \in 1 .. j : f[k] = IF k <= j - 1 THEN c[k] ELSE e[k - (j - 1)]
    <2>1. /\ f \in Seq(S) /\ Len(f) = Len(c) + Len(e)
          /\ \A k \in 1 .. Len(c) + Len(e) : f[k] = IF k <= Len(c) THEN c[k] ELSE e[k - Len(c)]
      BY <1>5, <1>6, Concatenated
    <2>2. Len(c) + Len(e) = j BY <1>1, <1>5, <1>6
    <2> HIDE DEF f
    <2> QED BY <1>5, <2>1, <2>2
  <1> HIDE DEF f
  <1>9. /\ f \o d \in Seq(S) /\ Len(f \o d) = n
        /\ \A k \in 1 .. n : (f \o d)[k] = IF k <= j THEN f[k] ELSE d[k - j]
    <2> DEFINE h == f \o d
    <2>0. f \in Seq(S) /\ d \in Seq(S) BY <1>5, <1>8
    <2>1. /\ h \in Seq(S) /\ Len(h) = Len(f) + Len(d)
          /\ \A k \in 1 .. Len(f) + Len(d) : h[k] = IF k <= Len(f) THEN f[k] ELSE d[k - Len(f)]
      BY <2>0, Concatenated
    <2>2. Len(f) + Len(d) = n BY <1>1, <1>5, <1>8
    <2> HIDE DEF h
    <2>3. /\ h \in Seq(S) /\ Len(h) = n
          /\ \A k \in 1 .. n : h[k] = IF k <= j THEN f[k] ELSE d[k - j]
      BY <1>8, <2>1, <2>2
    <2> QED BY <2>3 DEF h
  <1> DEFINE g == f \o d
  <1>10. Carried(s, i, j) = g BY <1>7 DEF f
  <1> HIDE DEF g
  <1>11. ASSUME NEW k \in 1 .. n PROVE CarriedFrom(i, j, k) \in 1 .. n
    BY <1>1 DEF CarriedFrom
  <1>12. ASSUME NEW k \in 1 .. n PROVE g[k] = s[CarriedFrom(i, j, k)]
    <2>1. CASE k = j
      <3>1. g[k] = f[k] BY <1>9, <2>1 DEF g
      <3>2. f[k] = e[k - (j - 1)] /\ k - (j - 1) = 1 BY <1>1, <1>8, <2>1
      <3> QED BY <1>6, <2>1, <3>1, <3>2 DEF CarriedFrom
    <2>2. CASE k < j
      <3>1. k \in 1 .. j - 1 /\ k \in 1 .. j /\ k \in 1 .. n - 1 BY <1>1, <2>2
      <3>2. g[k] = f[k] /\ f[k] = c[k] /\ c[k] = w[k]
        BY <1>5, <1>8, <1>9, <2>2, <3>1 DEF g
      <3>3. w[k] = IF k < i THEN s[k] ELSE s[k + 1] BY <1>4, <3>1
      <3>4. CarriedFrom(i, j, k) = IF k < i THEN k ELSE k + 1
        BY <1>1, <2>2, <3>1 DEF CarriedFrom
      <3> QED BY <3>2, <3>3, <3>4
    <2>3. CASE k > j
      <3>1. k - j \in 1 .. n - j /\ k - 1 \in 1 .. n - 1 /\ (k - j) + j - 1 = k - 1
        BY <1>1, <2>3
      <3>2. g[k] = d[k - j] BY <1>1, <1>9, <2>3 DEF g
      <3>3. d[k - j] = w[(k - j) + j - 1] BY <1>5, <3>1
      <3>4. w[k - 1] = IF k - 1 < i THEN s[k - 1] ELSE s[k - 1 + 1] BY <1>4, <3>1
      <3>5. CarriedFrom(i, j, k) = IF k - 1 < i THEN k - 1 ELSE k
        BY <1>1, <2>3, <3>1 DEF CarriedFrom
      <3>6. k - 1 + 1 = k OBVIOUS
      <3>7. w[k - 1] = IF k - 1 < i THEN s[k - 1] ELSE s[k] BY <3>4, <3>6
      <3> HIDE DEF n
      <3>8. g[k] = w[k - 1] BY <3>1, <3>2, <3>3
      <3> QED BY <3>5, <3>7, <3>8
    <2> QED BY <1>1, <2>1, <2>2, <2>3
  <1> QED BY <1>9, <1>10, <1>11, <1>12 DEF g

\* The order of an arrangement gives each region its place.
LEMMA OrderPlaces ==
    ASSUME NEW rs, Arranged(rs)
    PROVE  LET n == Cardinality(DOMAIN rs)
           IN  /\ n \in Nat /\ Order(rs) \in [1 .. n -> DOMAIN rs]
               /\ \A i \in 1 .. n : rs[Order(rs)[i]].index = i - 1
               /\ \A r \in DOMAIN rs : /\ rs[r].index \in Nat /\ rs[r].index + 1 \in 1 .. n
                                       /\ Order(rs)[rs[r].index + 1] = r
  <1> DEFINE D == DOMAIN rs
             n == Cardinality(D)
             Before(r) == Cardinality({q \in D : rs[q].index < rs[r].index})
             order == [i \in 1 .. n |-> CHOOSE r \in D : Before(r) = i - 1]
  <1>1. IsArrangement(rs) /\ Compact(rs) BY DEF Arranged
  <1>2. n \in Nat BY <1>1, FS_CardinalityType DEF IsArrangement
  <1>3. /\ {rs[r].index : r \in D} = 0 .. n - 1
        /\ \A r \in D : Before(r) = rs[r].index
    <2> HIDE DEF n
    <2> QED BY <1>1, CompactCounts DEF n
  <1>4. \A r \in D : rs[r].index \in 0 .. n - 1 BY <1>3
  <1>5. \A q, r \in D : rs[q].index = rs[r].index => q = r BY <1>1 DEF Compact
  <1>6. Order(rs) = order BY Zenon DEF Order
  <1> HIDE DEF n, Before
  <1>7. ASSUME NEW i \in 1 .. n
        PROVE  order[i] \in D /\ rs[order[i]].index = i - 1
    <2>1. i - 1 \in 0 .. n - 1 BY <1>2
    <2>2. PICK r \in D : rs[r].index = i - 1 BY <1>3, <2>1
    <2>3. Before(r) = i - 1 BY <1>3, <2>2
    <2>4. order[i] = CHOOSE x \in D : Before(x) = i - 1 OBVIOUS
    <2>5. order[i] \in D /\ Before(order[i]) = i - 1 BY Zenon, <2>3, <2>4
    <2> QED BY <1>3, <2>5
  <1>8. order \in [1 .. n -> D] BY Zenon, <1>7
  <1> HIDE DEF order
  <1>9. ASSUME NEW r \in D
        PROVE  rs[r].index \in Nat /\ rs[r].index + 1 \in 1 .. n /\ order[rs[r].index + 1] = r
    <2>1. rs[r].index \in Nat /\ rs[r].index + 1 \in 1 .. n BY <1>2, <1>4
    <2>2. order[rs[r].index + 1] \in D /\ rs[order[rs[r].index + 1]].index = rs[r].index + 1 - 1
      BY <1>7, <2>1
    <2>3. rs[order[rs[r].index + 1]].index = rs[r].index BY <2>1, <2>2
    <2> QED BY <1>5, <2>1, <2>2, <2>3
  <1> QED BY <1>2, <1>6, <1>7, <1>8, <1>9 DEF n

\* An arrangement has a region at every place, and each region one place.
LEMMA OrderOnto ==
    ASSUME NEW rs, Arranged(rs)
    PROVE  /\ Order(rs) \in Seq(DOMAIN rs) /\ Len(Order(rs)) = Cardinality(DOMAIN rs)
           /\ \A i, j \in 1 .. Len(Order(rs)) : Order(rs)[i] = Order(rs)[j] => i = j
           /\ \A r \in DOMAIN rs : \E i \in 1 .. Len(Order(rs)) : Order(rs)[i] = r
  <1> DEFINE n == Cardinality(DOMAIN rs)
             order == Order(rs)
  <1>1. /\ n \in Nat /\ order \in [1 .. n -> DOMAIN rs]
        /\ \A i \in 1 .. n : rs[order[i]].index = i - 1
        /\ \A r \in DOMAIN rs : rs[r].index + 1 \in 1 .. n /\ order[rs[r].index + 1] = r
    BY OrderPlaces
  <1> HIDE DEF n, order
  <1>2. order \in Seq(DOMAIN rs) /\ Len(order) = n BY <1>1
  <1>3. ASSUME NEW i \in 1 .. n, NEW j \in 1 .. n, order[i] = order[j] PROVE i = j
    <2>1. i - 1 = j - 1 BY <1>1, <1>3
    <2> QED BY <2>1
  <1> QED BY <1>1, <1>2, <1>3 DEF n, order

\* What holds at 0, and at each number once it holds at the one before, holds.
LEMMA UpTo ==
    ASSUME NEW n \in Nat, NEW Good, 0 \in Good, \A k \in 1 .. n : k - 1 \in Good => k \in Good
    PROVE  \A k \in 0 .. n : k \in Good
  <1> DEFINE Bad == {k \in 0 .. n : k \notin Good}
  <1> SUFFICES ASSUME Bad # {} PROVE FALSE OBVIOUS
  <1>1. Bad \in SUBSET (0 .. n) /\ IsFiniteSet(0 .. n) /\ Bad \in SUBSET Int BY FS_Interval
  <1>2. Min(Bad) \in Bad /\ \A x \in Bad : Min(Bad) <= x
    <2> HIDE DEF Bad
    <2>1. IsFiniteSet(Bad) BY <1>1, FS_Subset
    <2> QED BY <1>1, <2>1, MinExists
  <1> DEFINE m == Min(Bad)
  <1>3. m \in 0 .. n /\ m \notin Good /\ \A x \in Bad : m <= x BY <1>2
  <1> HIDE DEF m
  <1>4. m # 0 BY <1>3
  <1>5. m \in 1 .. n /\ m - 1 \in 0 .. n /\ ~(m <= m - 1) BY <1>3, <1>4
  <1>6. m - 1 \in Good BY <1>3, <1>5
  <1> QED BY <1>3, <1>5, <1>6

\* The first of some places, if there are any.
LEMMA FirstPlace ==
    ASSUME NEW n \in Nat, NEW I \in SUBSET (1 .. n), I # {}
    PROVE  Min(I) \in I /\ \A x \in I : Min(I) <= x
  <1>1. IsFiniteSet(1 .. n) /\ I \in SUBSET Int BY FS_Interval
  <1>2. IsFiniteSet(I) BY <1>1, FS_Subset
  <1> QED BY <1>1, <1>2, MinExists

\* What an edit makes of the clips of some tracks.
Edited(tracks, clips, op) == IF op.track \in tracks THEN TrackEdit(clips, op) ELSE clips

\* g holds the clips of some tracks after each edit.
IsEditTable(g, base, tracks, edits) ==
    g = [n \in 0 .. Len(edits) |-> IF n = 0 THEN base ELSE Edited(tracks, g[n - 1], edits[n])]

\* TrackRegions is the end of such a table.
LEMMA TrackRegionsTable ==
    ASSUME NEW tracks, NEW copy
    PROVE  TrackRegions(tracks, copy)
             = (CHOOSE g : IsEditTable(g, Base(copy.regions), tracks, copy.mix))[Len(copy.mix)]
  <1>1. ASSUME NEW g
        PROVE  [n \in 0 .. Len(copy.mix) |->
                    IF n = 0 THEN Base(copy.regions)
                    ELSE IF copy.mix[n].track \in tracks THEN TrackEdit(g[n - 1], copy.mix[n])
                    ELSE g[n - 1]]
               = [n \in 0 .. Len(copy.mix) |->
                    IF n = 0 THEN Base(copy.regions) ELSE Edited(tracks, g[n - 1], copy.mix[n])]
    BY Zenon DEF Edited
  <1> QED BY Zenon, <1>1 DEF TrackRegions, IsEditTable

\* The clips after an edit follow from those before it.
LEMMA TableStep ==
    ASSUME NEW edits, NEW g, NEW base, NEW tracks, IsEditTable(g, base, tracks, edits),
           NEW n \in 0 .. Len(edits)
    PROVE  g[n] = IF n = 0 THEN base ELSE Edited(tracks, g[n - 1], edits[n])
  BY Zenon DEF IsEditTable

\* There is a table for each number of edits.
LEMMA TableOfEdits ==
    ASSUME NEW edits, Len(edits) \in Nat, NEW base, NEW tracks
    PROVE  \E g : IsEditTable(g, base, tracks, edits)
  <1> DEFINE N == Len(edits)
             Holds(g, k) == g = [n \in 0 .. k |-> IF n = 0 THEN base ELSE Edited(tracks, g[n - 1], edits[n])]
             Good == {k \in 0 .. N : \E g : Holds(g, k)}
  <1>1. 0 \in Good
    <2> DEFINE g == [n \in 0 .. 0 |-> base]
    <2>1. \A n \in 0 .. 0 : n = 0 OBVIOUS
    <2>2. g = [n \in 0 .. 0 |-> IF n = 0 THEN base ELSE Edited(tracks, g[n - 1], edits[n])]
      BY Zenon, <2>1
    <2>3. Holds(g, 0) BY Zenon, <2>2
    <2> HIDE DEF Holds
    <2> QED BY <2>3
  <1>2. ASSUME NEW k \in 1 .. N, k - 1 \in Good PROVE k \in Good
    <2>1. PICK g : Holds(g, k - 1) BY <1>2
    <2> DEFINE Last1(n) == IF n = k THEN Edited(tracks, g[n - 1], edits[n]) ELSE g[n]
               h == [n \in 0 .. k |-> Last1(n)]
    <2>2. ASSUME NEW n \in 0 .. k
          PROVE  Last1(n) = IF n = 0 THEN base ELSE Edited(tracks, h[n - 1], edits[n])
      <3>1. CASE n = 0
        <4>1. n \in 0 .. k - 1 /\ n # k BY <3>1
        <4>2. g[n] = IF n = 0 THEN base ELSE Edited(tracks, g[n - 1], edits[n])
          BY Zenon, <2>1, <4>1
        <4> QED BY Zenon, <3>1, <4>1, <4>2
      <3>2. CASE n # 0
        <4>1. n - 1 \in 0 .. k /\ n - 1 # k /\ (n # k => n \in 0 .. k - 1) BY <3>2
        <4>2. h[n - 1] = g[n - 1] BY Zenon, <4>1
        <4>3. n # k => g[n] = IF n = 0 THEN base ELSE Edited(tracks, g[n - 1], edits[n])
          BY Zenon, <2>1, <4>1
        <4> QED BY Zenon, <3>2, <4>2, <4>3
      <3> QED BY <3>1, <3>2
    <2>3. Holds(h, k) BY Zenon, <2>2
    <2> HIDE DEF Holds
    <2> QED BY <2>3
  <1> HIDE DEF Good
  <1>3. \A k \in 0 .. N : k \in Good BY <1>1, <1>2, UpTo
  <1>4. N \in Good BY <1>3
  <1> QED BY Zenon, <1>4 DEF Good, IsEditTable

\* The clips that some edits give, from those that all but the last one give.
EditedBy(base, tracks, edits) ==
    (CHOOSE g : IsEditTable(g, base, tracks, edits))[Len(edits)]

\* Tables of the same edits agree, however many more one of them has.
LEMMA TableAgrees ==
    ASSUME NEW edits, Len(edits) \in Nat, NEW base, NEW tracks, NEW op,
           NEW g, IsEditTable(g, base, tracks, edits),
           NEW h, IsEditTable(h, base, tracks, Append(edits, op)),
           Len(Append(edits, op)) = Len(edits) + 1,
           \A n \in 1 .. Len(edits) : Append(edits, op)[n] = edits[n]
    PROVE  g[Len(edits)] = h[Len(edits)]
  <1> DEFINE N == Len(edits)
             more == Append(edits, op)
             Good == {k \in 0 .. N : g[k] = h[k]}
  <1>1. ASSUME NEW k \in 0 .. N
        PROVE  /\ g[k] = IF k = 0 THEN base ELSE Edited(tracks, g[k - 1], edits[k])
               /\ h[k] = IF k = 0 THEN base ELSE Edited(tracks, h[k - 1], more[k])
    <2>1. k \in 0 .. Len(more) /\ k \in 0 .. Len(edits) OBVIOUS
    <2>2. g[k] = IF k = 0 THEN base ELSE Edited(tracks, g[k - 1], edits[k])
      BY <2>1, TableStep
    <2>3. IsEditTable(h, base, tracks, more) OBVIOUS
    <2> HIDE DEF more
    <2>4. h[k] = IF k = 0 THEN base ELSE Edited(tracks, h[k - 1], more[k])
      BY <2>1, <2>3, TableStep
    <2> QED BY <2>2, <2>4
  <1> HIDE DEF more
  <1>2. 0 \in Good
    <2>1. 0 \in 0 .. N OBVIOUS
    <2> QED BY Zenon, <1>1, <2>1
  <1>3. ASSUME NEW k \in 1 .. N, k - 1 \in Good PROVE k \in Good
    <2>1. k \in 0 .. N /\ k # 0 OBVIOUS
    <2>2. more[k] = edits[k] BY DEF more
    <2>3. g[k - 1] = h[k - 1] BY <1>3
    <2>4. g[k] = h[k] BY Zenon, <1>1, <2>1, <2>2, <2>3
    <2> QED BY <2>1, <2>4
  <1> HIDE DEF Good
  <1>4. \A k \in 0 .. N : k \in Good BY <1>2, <1>3, UpTo
  <1>5. N \in Good BY <1>4
  <1> QED BY <1>5 DEF Good

\* One more edit is made of what the others give.
LEMMA EditedMore ==
    ASSUME NEW edits \in Seq(PageOps), NEW op \in PageOps, NEW base, NEW tracks
    PROVE  EditedBy(base, tracks, Append(edits, op)) = Edited(tracks, EditedBy(base, tracks, edits), op)
  <1> DEFINE more == Append(edits, op)
             N == Len(edits)
  <1>1. /\ more \in Seq(PageOps) /\ Len(more) = N + 1 /\ N \in Nat /\ more[N + 1] = op
        /\ \A n \in 1 .. N : more[n] = edits[n]
    OBVIOUS
  <1> DEFINE g == CHOOSE x : IsEditTable(x, base, tracks, edits)
             h == CHOOSE x : IsEditTable(x, base, tracks, more)
  <1>2. IsEditTable(g, base, tracks, edits)
    <2>1. \E x : IsEditTable(x, base, tracks, edits) BY <1>1, TableOfEdits
    <2> QED BY Zenon, <2>1
  <1>3. IsEditTable(h, base, tracks, more)
    <2>1. Len(more) \in Nat BY <1>1
    <2> HIDE DEF more
    <2>2. \E x : IsEditTable(x, base, tracks, more) BY <2>1, TableOfEdits
    <2> QED BY Zenon, <2>2
  <1> HIDE DEF g, h
  <1>4. g[N] = h[N] BY <1>1, <1>2, <1>3, TableAgrees
  <1> HIDE DEF more
  <1>5. N + 1 \in 0 .. Len(more) /\ N + 1 # 0 /\ N + 1 - 1 = N BY <1>1
  <1>6. h[N + 1] = Edited(tracks, h[N + 1 - 1], more[N + 1])
    <2>1. h[N + 1] = IF N + 1 = 0 THEN base ELSE Edited(tracks, h[N + 1 - 1], more[N + 1])
      BY <1>3, <1>5, TableStep
    <2> QED BY Zenon, <1>5, <2>1
  <1>7. h[Len(more)] = Edited(tracks, g[N], op) BY Zenon, <1>1, <1>4, <1>5, <1>6
  <1> QED BY Zenon, <1>7 DEF EditedBy, g, h, more

\* No edit leaves the regions in their order.
LEMMA EditedNone ==
    ASSUME NEW base, NEW tracks PROVE EditedBy(base, tracks, <<>>) = base
  <1> DEFINE none == <<>>
  <1>1. Len(none) = 0 /\ 0 \in Nat /\ 0 \in 0 .. 0 OBVIOUS
  <1> HIDE DEF none
  <1>2. \E x : IsEditTable(x, base, tracks, none) BY <1>1, TableOfEdits
  <1> DEFINE g == CHOOSE x : IsEditTable(x, base, tracks, none)
  <1>3. IsEditTable(g, base, tracks, none) BY Zenon, <1>2
  <1> HIDE DEF g
  <1>4. g[0] = IF 0 = 0 THEN base ELSE Edited(tracks, g[0 - 1], none[0])
    BY <1>1, <1>3, TableStep
  <1>5. g[Len(none)] = base BY Zenon, <1>1, <1>4
  <1> QED BY Zenon, <1>5 DEF EditedBy, g, none

\* TrackRegions in these terms.
LEMMA TrackRegionsEdited ==
    ASSUME NEW tracks, NEW copy
    PROVE  TrackRegions(tracks, copy) = EditedBy(Base(copy.regions), tracks, copy.mix)
  BY Zenon, TrackRegionsTable DEF EditedBy

\* The clips of a track: each region has one.
Lineups(rs) ==
    {s \in Seq(Clips(rs)) :
        /\ Len(s) = Cardinality(DOMAIN rs)
        /\ \A i, j \in 1 .. Len(s) : s[i].region = s[j].region => i = j}

\* Clips that are drawn at their length, and end before the song does.
Drawable(s) ==
    \A i \in 1 .. Len(s) : s[i].from + MinRange <= s[i].to /\ s[i].to <= Length

\* A clip that is trimmed, and it among others.
LEMMA TrimOfClip ==
    ASSUME NEW C, NEW c \in [region : C, from : Nat, to : Nat], NEW a \in Nat, NEW b \in Nat
    PROVE  [[c EXCEPT !.from = a] EXCEPT !.to = b] = [region |-> c.region, from |-> a, to |-> b]
  <1> DEFINE d == [c EXCEPT !.from = a]
  <1>1. d = [region |-> c.region, from |-> a, to |-> c.to] OBVIOUS
  <1> HIDE DEF d
  <1>2. [d EXCEPT !.to = b] = [region |-> c.region, from |-> a, to |-> b] BY <1>1
  <1> QED BY <1>2 DEF d

Trimmed(s, i, from, to) == [s EXCEPT ![i].from = from, ![i].to = to]

\* A trimmed clip has the bounds it was given; the other clips are as they were.
LEMMA ClipTrimmed ==
    ASSUME NEW rs, NEW s \in Seq(Clips(rs)), NEW i \in 1 .. Len(s), NEW a \in Nat, NEW b \in Nat
    PROVE  LET out == Trimmed(s, i, a, b)
           IN  /\ out \in Seq(Clips(rs)) /\ Len(out) = Len(s)
               /\ out[i].region = s[i].region /\ out[i].from = a /\ out[i].to = b
               /\ \A j \in 1 .. Len(s) : j # i => out[j] = s[j]
  <1> DEFINE K == Clips(rs)
             n == Len(s)
             c == [region |-> s[i].region, from |-> a, to |-> b]
             out == [s EXCEPT ![i].from = a, ![i].to = b]
  <1>1. n \in Nat /\ s \in [1 .. n -> K] /\ i \in 1 .. n /\ s[i] \in K
    <2> HIDE DEF K
    <2>1. s \in Seq(K) BY DEF K
    <2> QED BY <2>1
  <1>2. c \in K BY <1>1 DEF Clips
  <1>3. \A j \in 1 .. n : j # i => out[j] = s[j]
    <2> HIDE DEF K, n
    <2> QED BY <1>1
  <1>4. DOMAIN out = 1 .. n
    <2>1. DOMAIN s = 1 .. n OBVIOUS
    <2> HIDE DEF n
    <2> QED BY <2>1
  <1>5. out[i] = [[s[i] EXCEPT !.from = a] EXCEPT !.to = b]
    <2> HIDE DEF K, n
    <2> QED BY <1>1
  <1>6. [[s[i] EXCEPT !.from = a] EXCEPT !.to = b] = c
    <2> DEFINE d == s[i]
    <2>1. d \in [region : DOMAIN rs, from : Nat, to : Nat] BY <1>1 DEF Clips
    <2> HIDE DEF d
    <2>2. [[d EXCEPT !.from = a] EXCEPT !.to = b] = [region |-> d.region, from |-> a, to |-> b]
      BY <2>1, TrimOfClip
    <2> QED BY Zenon, <2>2 DEF d
  <1>7. out = [j \in 1 .. n |-> IF j = i THEN c ELSE s[j]]
    <2>1. \A j \in 1 .. n : out[j] = IF j = i THEN c ELSE s[j] BY <1>3, <1>5, <1>6
    <2>2. out = [j \in 1 .. n |-> out[j]] BY <1>4
    <2> HIDE DEF out, n
    <2> QED BY <2>1, <2>2
  <1>8. c.region = s[i].region /\ c.from = a /\ c.to = b OBVIOUS
  <1> HIDE DEF out, n, c, K
  <1>9. out \in [1 .. n -> K] BY <1>1, <1>2, <1>7
  <1>10. out \in Seq(K) /\ Len(out) = n BY <1>1, <1>9
  <1>11. out[i] = c BY <1>5, <1>6
  <1>12. Trimmed(s, i, a, b) = out BY Zenon DEF Trimmed, out
  <1> QED BY <1>3, <1>8, <1>10, <1>11, <1>12 DEF n, K

\* The regions in their order are the clips of a track.
LEMMA BaseLineup ==
    ASSUME NEW rs, Arranged(rs)
    PROVE  /\ Base(rs) \in Lineups(rs) /\ Len(Base(rs)) = Len(Order(rs))
           /\ LongEnough(rs) => Drawable(Base(rs))
           /\ \A i \in 1 .. Len(Order(rs)) :
                 Base(rs)[i] = [region |-> Order(rs)[i], from |-> rs[Order(rs)[i]].start,
                                to |-> rs[Order(rs)[i]].end]
  <1> DEFINE order == Order(rs)
             n == Len(order)
             Clip(r) == [region |-> r, from |-> rs[r].start, to |-> rs[r].end]
             base == [i \in 1 .. n |-> Clip(order[i])]
  <1>1. /\ order \in Seq(DOMAIN rs) /\ n = Cardinality(DOMAIN rs)
        /\ \A i, j \in 1 .. n : order[i] = order[j] => i = j
    BY OrderOnto
  <1> HIDE DEF order
  <1>2. n \in Nat /\ DOMAIN order = 1 .. n /\ \A i \in 1 .. n : order[i] \in DOMAIN rs BY <1>1
  <1>3. Base(rs) = base
    <2>1. Base(rs) = [i \in DOMAIN order |-> Clip(order[i])] BY Zenon DEF Base, order
    <2> QED BY Zenon, <1>2, <2>1
  <1>4. \A r \in DOMAIN rs : /\ rs[r].start \in Nat /\ rs[r].end \in Nat /\ rs[r].end <= Length
                             /\ Clip(r) \in Clips(rs) /\ Clip(r).region = r
                             /\ Clip(r).from = rs[r].start /\ Clip(r).to = rs[r].end
    BY LengthType DEF Arranged, IsArrangement, Region, Times, Clips
  <1> HIDE DEF n, Clip
  <1>5. base \in [1 .. n -> Clips(rs)] /\ \A i \in 1 .. n : base[i] = Clip(order[i]) BY <1>2, <1>4
  <1> HIDE DEF base
  <1>6. base \in Seq(Clips(rs)) /\ Len(base) = n BY <1>2, <1>5
  <1>7. \A i, j \in 1 .. n : base[i].region = base[j].region => i = j BY <1>1, <1>2, <1>4, <1>5 DEF n
  <1>8. base \in Lineups(rs) BY <1>1, <1>6, <1>7 DEF Lineups, n
  <1>9. LongEnough(rs) => Drawable(base) BY <1>2, <1>4, <1>5, <1>6 DEF LongEnough, Drawable
  <1> QED BY <1>3, <1>5, <1>6, <1>8, <1>9 DEF n, Clip, order

\* Each place of the clips that are carried is another's before.
LEMMA CarriedFromOnce ==
    ASSUME NEW n \in Nat, NEW i \in 1 .. n, NEW j \in 1 .. n,
           NEW k \in 1 .. n, NEW m \in 1 .. n, CarriedFrom(i, j, k) = CarriedFrom(i, j, m)
    PROVE  k = m
  BY DEF CarriedFrom

\* The clips of a track are the same clips when one of them is carried.
LEMMA CarriedLineup ==
    ASSUME NEW rs, NEW s \in Lineups(rs), NEW i \in 1 .. Len(s), NEW j \in 1 .. Len(s)
    PROVE  Carried(s, i, j) \in Lineups(rs) /\ (Drawable(s) => Drawable(Carried(s, i, j)))
  <1> DEFINE out == Carried(s, i, j)
             n == Len(s)
  <1>1. /\ s \in Seq(Clips(rs)) /\ n = Cardinality(DOMAIN rs) /\ n \in Nat
        /\ \A k, m \in 1 .. n : s[k].region = s[m].region => k = m
    BY DEF Lineups
  <1>2. /\ out \in Seq(Clips(rs)) /\ Len(out) = n
        /\ \A k \in 1 .. n : CarriedFrom(i, j, k) \in 1 .. n /\ out[k] = s[CarriedFrom(i, j, k)]
    BY <1>1, CarriedIs
  <1> HIDE DEF out
  <1>3. \A k, m \in 1 .. n : out[k].region = out[m].region => k = m
    <2> SUFFICES ASSUME NEW k \in 1 .. n, NEW m \in 1 .. n, out[k].region = out[m].region PROVE k = m
      OBVIOUS
    <2>1. CarriedFrom(i, j, k) = CarriedFrom(i, j, m) BY <1>1, <1>2
    <2> QED BY <1>1, <2>1, CarriedFromOnce
  <1>4. out \in Lineups(rs) BY <1>1, <1>2, <1>3 DEF Lineups
  <1>5. Drawable(s) => Drawable(out) BY <1>2 DEF Drawable
  <1> QED BY <1>4, <1>5 DEF out

\* An edit of a track leaves it a clip of each region.
LEMMA EditLineup ==
    ASSUME NEW rs, NEW s \in Lineups(rs), NEW op \in PageOps
    PROVE  /\ TrackEdit(s, op) \in Lineups(rs)
           /\ Drawable(s) /\ (op.does = "track_resize" => op.from + MinRange <= op.to /\ op.to <= Length)
                => Drawable(TrackEdit(s, op))
  <1> DEFINE I == {k \in 1 .. Len(s) : s[k].region = op.region}
             i == SelectInSeq(s, LAMBDA c : c.region = op.region)
             n == Len(s)
  <1>1. /\ s \in Seq(Clips(rs)) /\ n = Cardinality(DOMAIN rs) /\ n \in Nat
        /\ \A k, m \in 1 .. n : s[k].region = s[m].region => k = m
    BY DEF Lineups
  <1>2. i = IF I # {} THEN Min(I) ELSE 0 BY Zenon DEF SelectInSeq
  <1>3. I # {} => Min(I) \in I
    <2>1. I \in SUBSET (1 .. n) OBVIOUS
    <2> HIDE DEF I, n
    <2> QED BY <1>1, <2>1, FirstPlace
  <1>4. i = 0 \/ i \in 1 .. n BY <1>2, <1>3
  <1>5. op.from \in Nat /\ op.to \in Nat BY DEF PageOps
  <1> DEFINE trimmed == Trimmed(s, i, op.from, op.to)
             to == Min({op.to, Len(s) - 1}) + 1
  <1>6. TrackEdit(s, op) = IF i = 0 THEN s
                           ELSE CASE op.does = "track_resize" -> trimmed
                                  [] op.does = "track_move" -> Carried(s, i, to)
                                  [] OTHER -> s
    BY Zenon DEF TrackEdit, Trimmed
  <1> HIDE DEF i, I
  <1>7. i \in 1 .. n =>
           /\ trimmed \in Lineups(rs)
           /\ Drawable(s) /\ op.from + MinRange <= op.to /\ op.to <= Length => Drawable(trimmed)
    <2> SUFFICES ASSUME i \in 1 .. n
                 PROVE /\ trimmed \in Lineups(rs)
                       /\ Drawable(s) /\ op.from + MinRange <= op.to /\ op.to <= Length => Drawable(trimmed)
      OBVIOUS
    <2>1. /\ trimmed \in Seq(Clips(rs)) /\ Len(trimmed) = n
          /\ trimmed[i].region = s[i].region /\ trimmed[i].from = op.from /\ trimmed[i].to = op.to
          /\ \A j \in 1 .. n : j # i => trimmed[j] = s[j]
      <3>1. s \in Seq(Clips(rs)) /\ i \in 1 .. Len(s) /\ op.from \in Nat /\ op.to \in Nat BY <1>1, <1>5
      <3> QED BY <3>1, ClipTrimmed
    <2> HIDE DEF trimmed
    <2>3. \A j \in 1 .. n : trimmed[j].region = s[j].region BY <2>1
    <2>4. trimmed \in Lineups(rs) BY <1>1, <2>1, <2>3 DEF Lineups
    <2>5. ASSUME Drawable(s), op.from + MinRange <= op.to, op.to <= Length PROVE Drawable(trimmed)
      <3>1. ASSUME NEW j \in 1 .. n
            PROVE  trimmed[j].from + MinRange <= trimmed[j].to /\ trimmed[j].to <= Length
        BY <2>1, <2>5, <3>1 DEF Drawable
      <3> QED BY <2>1, <3>1 DEF Drawable
    <2> QED BY <2>4, <2>5
  <1>8. i \in 1 .. n => to \in 1 .. n
    <2>1. i \in 1 .. n => Min({op.to, n - 1}) = IF op.to <= n - 1 THEN op.to ELSE n - 1
      BY <1>1, <1>5, MinOfTwo
    <2> HIDE DEF n
    <2>2. i \in 1 .. n => (IF op.to <= n - 1 THEN op.to ELSE n - 1) + 1 \in 1 .. n BY <1>1, <1>5
    <2> QED BY <2>1, <2>2 DEF n
  <1>9. i \in 1 .. n => /\ Carried(s, i, to) \in Lineups(rs)
                        /\ Drawable(s) => Drawable(Carried(s, i, to))
    <2> HIDE DEF to
    <2> QED BY <1>8, CarriedLineup
  <1> HIDE DEF trimmed, to
  <1>10. CASE i = 0 BY <1>6, <1>10
  <1>11. CASE i \in 1 .. n BY <1>6, <1>7, <1>9, <1>11
  <1> QED BY <1>4, <1>10, <1>11

\* After any edits a track has a clip of each region.
LEMMA TrackRegionsLineup ==
    ASSUME NEW copy \in Copies, Arranged(copy.regions), EditsOK(copy.mix), NEW tracks
    PROVE  /\ TrackRegions(tracks, copy) \in Lineups(copy.regions)
           /\ LongEnough(copy.regions) => Drawable(TrackRegions(tracks, copy))
  <1> DEFINE rs == copy.regions
             edits == copy.mix
             base == Base(rs)
             N == Len(edits)
             g == CHOOSE g : IsEditTable(g, base, tracks, edits)
             Fits(s) == s \in Lineups(rs) /\ (LongEnough(rs) => Drawable(s))
             Good == {k \in 0 .. N : Fits(g[k])}
  <1>1. edits \in Seq(PageOps) /\ N \in Nat BY DEF EditsOK
  <1>2. IsEditTable(g, base, tracks, edits)
    <2>1. \E x : IsEditTable(x, base, tracks, edits) BY <1>1, TableOfEdits
    <2> QED BY Zenon, <2>1
  <1> HIDE DEF g
  <1>3. 0 \in Good
    <2>1. 0 \in 0 .. N BY <1>1
    <2>2. g[0] = IF 0 = 0 THEN base ELSE Edited(tracks, g[0 - 1], edits[0])
      BY <1>2, <2>1, TableStep
    <2>3. g[0] = base BY Zenon, <2>2
    <2>4. Fits(base) BY BaseLineup
    <2> HIDE DEF Fits
    <2> QED BY <2>1, <2>3, <2>4
  <1>4. ASSUME NEW k \in 1 .. N, k - 1 \in Good PROVE k \in Good
    <2>1. k \in 0 .. N /\ k # 0 OBVIOUS
    <2>2. g[k] = IF k = 0 THEN base ELSE Edited(tracks, g[k - 1], edits[k])
      BY <1>2, <2>1, TableStep
    <2>3. g[k] = Edited(tracks, g[k - 1], edits[k]) BY Zenon, <2>1, <2>2
    <2>4. /\ edits[k] \in PageOps
          /\ edits[k].does = "track_resize" =>
                edits[k].from + MinRange <= edits[k].to /\ edits[k].to <= Length
      BY <1>1 DEF EditsOK
    <2> DEFINE was == g[k - 1]
               op == edits[k]
    <2>5. Fits(was) BY <1>4
    <2>6. Fits(TrackEdit(was, op))
      <3> HIDE DEF was, op, rs
      <3> QED BY <2>4, <2>5, EditLineup DEF op
    <2>7. Fits(Edited(tracks, was, op))
      <3> HIDE DEF Fits, was, op
      <3> QED BY Zenon, <2>5, <2>6 DEF Edited
    <2> HIDE DEF Fits
    <2> QED BY <2>1, <2>3, <2>7
  <1> HIDE DEF Good
  <1>5. \A k \in 0 .. N : k \in Good BY <1>1, <1>3, <1>4, UpTo
  <1>6. N \in Good BY <1>1, <1>5
  <1>7. TrackRegions(tracks, copy) = g[N] BY Zenon, TrackRegionsTable DEF g
  <1> QED BY <1>6, <1>7 DEF Good

-----------------------------------------------------------------------------
(* What the server makes of the song for the page *)

\* One region changes its length and another may come, both long enough.
LEMMA LongAgain ==
    ASSUME NEW rs, LongEnough(rs), NEW out, NEW r, NEW new,
           \A x \in DOMAIN out : x \in DOMAIN rs \/ x = new,
           \A x \in DOMAIN out : x \in {r, new} => out[x].start + MinRange <= out[x].end,
           \A x \in DOMAIN rs : x # r => SameSpan(rs[x], out[x])
    PROVE  LongEnough(out)
  BY DEF LongEnough, SameSpan

\* A duplicate is as long as its region.
LEMMA LongDuplicate ==
    ASSUME NEW rs, Arranged(rs), LongEnough(rs),
           NEW op, op.does = "duplicate", NEW id \in Nat, id \notin DOMAIN rs,
           NEW out \in Applications(op, rs, id)
    PROVE  LongEnough(out)
  <1> DEFINE r == op.region
             new == [rs[r] EXCEPT !.index = @ + 1]
             f == Put(rs, id, new)
  <1>1. r \in DOMAIN rs /\ out \in Reindexings(f) BY DEF Applications
  <1>2. IsArrangement(rs) /\ rs[r] \in Region BY <1>1 DEF Arranged, IsArrangement
  <1>3. new \in Region /\ SameSpan(rs[r], new) BY <1>2 DEF Region, SameSpan
  <1> HIDE DEF new, r
  <1>4. /\ IsArrangement(f) /\ DOMAIN f = DOMAIN rs \cup {id}
        /\ f[id] = new /\ \A x \in DOMAIN rs : x # id => f[x] = rs[x]
    BY <1>2, <1>3, PutRegion
  <1> HIDE DEF f
  <1>5. SameBounds(f, out) BY <1>1, <1>4, Reindexed
  <1>6. DOMAIN out = DOMAIN rs \cup {id} /\ SameSpan(rs[r], out[id])
        /\ \A x \in DOMAIN rs : SameSpan(rs[x], out[x])
    BY <1>3, <1>4, <1>5 DEF SameBounds, SameSpan
  <1> QED BY <1>1, <1>6 DEF LongEnough, SameSpan

\* A split inside a region leaves two parts that are long enough.
LEMMA LongSplit ==
    ASSUME NEW rs, Arranged(rs), LongEnough(rs),
           NEW op, IsOperation(op), op.does = "split", SplitsInside(op, rs),
           NEW id \in Nat, id \notin DOMAIN rs, NEW out \in Applications(op, rs, id)
    PROVE  LongEnough(out)
  <1> DEFINE r == op.region
             at == op.from
  <1>1. out \in Splits(rs, r, at, id) /\ at \in Times /\ IsArrangement(rs)
        /\ r \in DOMAIN rs /\ rs[r].start + Edge < at /\ at < rs[r].end - Edge
    BY DEF Applications, IsOperation, Arranged, SplitsInside
  <1> HIDE DEF r, at
  <1>2. rs[r].start \in Nat /\ rs[r].end \in Nat /\ at \in Nat
        /\ Edge \in Nat /\ MinRange \in Nat /\ MinRange <= Edge + 1
    BY <1>1, ArrangementAssumption DEF IsArrangement, Region, Times
  <1>3. /\ Extends(rs, out, id, r)
        /\ out[r].end = at /\ out[id].start = at /\ out[id].end = rs[r].end
    BY <1>1, SplitRegion
  <1>4. /\ DOMAIN out = DOMAIN rs \cup {id}
        /\ \A x \in DOMAIN rs : out[x].start = rs[x].start /\ (x # r => out[x].end = rs[x].end)
    BY <1>3 DEF Extends
  <1>5. out[r].start = rs[r].start BY <1>1, <1>4
  <1>6. out[r].start + MinRange <= out[r].end /\ out[id].start + MinRange <= out[id].end
    BY <1>1, <1>2, <1>3, <1>5
  <1>7. \A x \in DOMAIN rs : x # r => SameSpan(rs[x], out[x]) BY <1>4 DEF SameSpan
  <1>8. \A x \in DOMAIN out : x \in {r, id} => out[x].start + MinRange <= out[x].end
    BY <1>6
  <1>9. \A x \in DOMAIN out : x \in DOMAIN rs \/ x = id BY <1>4
  <1> QED BY <1>7, <1>8, <1>9, LongAgain

\* A range deletion drops what it leaves when that is too short.
LEMMA LongRange ==
    ASSUME NEW rs, Arranged(rs), LongEnough(rs), NEW op, IsOperation(op), op.does = "delete_range",
           NEW id \in Nat, \A x \in DOMAIN rs : x < id,
           NEW out \in Applications(op, rs, id)
    PROVE  LongEnough(out)
  <1> DEFINE r == op.region
             from == op.from
             to == op.to
  <1>1. r \in DOMAIN rs /\ out \in RangeDeletions(rs, r, from, to, id)
    BY DEF Applications
  <1>2. IsArrangement(rs) /\ from \in Times /\ to \in Nat BY DEF Arranged, IsOperation
  <1> HIDE DEF r, from, to
  <1>3. rs[r].start \in Times /\ rs[r].end \in Times BY <1>1, <1>2 DEF IsArrangement, Region
  <1>4. to \in Times
    <2>1. ~(to > rs[r].end) BY <1>1 DEF RangeDeletions
    <2> QED BY <1>2, <1>3, <2>1, LengthType DEF Times
  <1>5. /\ Edge \in Nat /\ MinRange \in Nat /\ MinRange <= Edge + 1
        /\ \A t \in Times : t \in Nat
    BY ArrangementAssumption DEF Times
  <1>6. ~(TakesStart(rs[r], from) /\ TakesEnd(rs[r], to))
    BY <1>1 DEF RangeDeletions
  <1>7. ~TakesStart(rs[r], from) => rs[r].start + MinRange <= from
    BY <1>2, <1>3, <1>5 DEF TakesStart
  <1>8. ~TakesEnd(rs[r], to) => to + MinRange <= rs[r].end
    BY <1>3, <1>4, <1>5 DEF TakesEnd
  <1>9. CASE TakesStart(rs[r], from)
    <2> DEFINE end == rs[r].end
    <2>1. out = [rs EXCEPT ![r].start = to] BY <1>1, <1>9 DEF RangeDeletions
    <2>2. out = Resized(rs, r, to, rs[r].end) BY <1>1, <1>2, <2>1, StartWritten
    <2>3. /\ DOMAIN out = DOMAIN rs /\ out[r].start = to /\ out[r].end = end
          /\ \A x \in DOMAIN rs : x # r => out[x] = rs[x]
      <3>1. end \in Times /\ out = Resized(rs, r, to, end) BY <1>3, <2>2
      <3> HIDE DEF end
      <3> QED BY <1>1, <1>2, <1>4, <3>1, ResizedRegion
    <2> QED BY <1>6, <1>8, <1>9, <2>3 DEF LongEnough
  <1>10. CASE ~TakesStart(rs[r], from) /\ TakesEnd(rs[r], to)
    <2> DEFINE start == rs[r].start
    <2>1. out = [rs EXCEPT ![r].end = from] BY <1>1, <1>10 DEF RangeDeletions
    <2>2. out = Resized(rs, r, rs[r].start, from)
      <3>1. [rs EXCEPT ![r].end = from] = Resized(rs, r, rs[r].start, from)
        BY <1>1, <1>2, EndWritten
      <3> QED BY <2>1, <3>1
    <2>3. /\ DOMAIN out = DOMAIN rs /\ out[r].start = start /\ out[r].end = from
          /\ \A x \in DOMAIN rs : x # r => out[x] = rs[x]
      <3>1. start \in Times /\ out = Resized(rs, r, start, from) BY <1>3, <2>2
      <3> HIDE DEF start
      <3> QED BY <1>1, <1>2, <3>1, ResizedRegion
    <2> QED BY <1>7, <1>10, <2>3 DEF LongEnough
  <1>11. CASE ~TakesStart(rs[r], from) /\ ~TakesEnd(rs[r], to)
    <2> DEFINE Left(two) == UNION {Reindexings(Drop(three, id)) :
                                      three \in Splits(two, id, to, id + 1)}
               next == id + 1
    <2>1. out \in UNION {Left(two) : two \in Splits(rs, r, from, id)}
      BY <1>1, <1>11 DEF RangeDeletions
    <2>2. PICK two \in Splits(rs, r, from, id) : out \in Left(two)
      <3> HIDE DEF Left
      <3> QED BY <2>1
    <2>3. PICK three \in Splits(two, id, to, id + 1) : out \in Reindexings(Drop(three, id))
      BY <2>2
    <2>4. /\ Extends(rs, out, next, r)
          /\ out[r].end = from /\ out[next].start = to /\ out[next].end = rs[r].end
      <3>0. Arranged(rs) /\ r \in DOMAIN rs /\ from \in Times /\ to \in Times
        BY <1>1, <1>2, <1>4
      <3> HIDE DEF Left, next
      <3>1. /\ Extends(rs, out, id + 1, r)
            /\ out[r].end = from /\ out[id + 1].start = to /\ out[id + 1].end = rs[r].end
        BY <3>0, <2>3, RangeInside
      <3> QED BY <3>1 DEF next
    <2> HIDE DEF next
    <2>5. /\ DOMAIN out = DOMAIN rs \cup {next}
          /\ \A x \in DOMAIN rs : out[x].start = rs[x].start /\ (x # r => out[x].end = rs[x].end)
      BY <2>4 DEF Extends
    <2>6. out[r].start = rs[r].start BY <1>1, <2>5
    <2>7. \A x \in DOMAIN out : x \in {r, next} => out[x].start + MinRange <= out[x].end
      BY <1>7, <1>8, <1>11, <2>4, <2>6
    <2>8. \A x \in DOMAIN rs : x # r => SameSpan(rs[x], out[x]) BY <2>5 DEF SameSpan
    <2>9. \A x \in DOMAIN out : x \in DOMAIN rs \/ x = next BY <2>5
    <2> QED BY <2>7, <2>8, <2>9, LongAgain
  <1> QED BY <1>9, <1>10, <1>11

\* Of regions that are long enough the operations of the page make such regions.
LEMMA AppliedLong ==
    ASSUME NEW rs, Arranged(rs), \A x \in DOMAIN rs : Audible(rs[x]), LongEnough(rs),
           NEW op, IsOperation(op), SplitsInside(op, rs),
           op.does = "resize" => op.from + MinRange <= op.to,
           NEW id \in Nat, \A x \in DOMAIN rs : x < id,
           NEW out \in Applications(op, rs, id)
    PROVE  LongEnough(out)
  <1>1. id \notin DOMAIN rs BY DEF Arranged, IsArrangement
  <1>2. CASE op.does = "mix" BY <1>2 DEF Applications
  <1>3. CASE op.does = "delete"
    <2>1. out \in Reindexings(Drop(rs, op.region)) /\ IsArrangement(rs)
      BY <1>3 DEF Applications, Arranged
    <2>2. /\ DOMAIN out = DOMAIN rs \ {op.region}
          /\ \A x \in DOMAIN rs \ {op.region} : out[x].start = rs[x].start /\ out[x].end = rs[x].end
      BY <2>1, DropReindexed
    <2> QED BY <2>2 DEF LongEnough
  <1>4. CASE op.does = "duplicate" BY <1>1, <1>4, LongDuplicate
  <1>5. CASE op.does = "split" BY <1>1, <1>5, LongSplit
  <1>6. CASE op.does = "move"
    <2>1. Applied(op, rs, id, out) BY <1>6, MoveApplied
    <2>2. op.region \in DOMAIN rs /\ out = Moved(rs, op.region, op.to) BY <1>6 DEF Applications
    <2>3. DOMAIN out = DOMAIN rs BY <2>2 DEF Moved
    <2> QED BY <1>6, <2>1, <2>3 DEF LongEnough, Applied, SameSpan, Shapes
  <1>7. CASE op.does = "delete_range" BY <1>7, LongRange
  <1>8. CASE op.does = "resize"
    <2>1. op.from \in Nat /\ MinRange \in Nat \ {0} /\ op.to \in Nat
      BY ArrangementAssumption DEF IsOperation, Times
    <2>2. op.from < op.to BY <1>8, <2>1
    <2>3. Applied(op, rs, id, out) BY <1>8, <2>2, ResizeApplied
    <2>4. DOMAIN out = DOMAIN rs
      <3>1. out = Resized(rs, op.region, op.from, op.to) BY <1>8, <2>1, LengthType DEF Applications
      <3> QED BY <3>1 DEF Resized
    <2> QED BY <1>8, <2>3, <2>4 DEF LongEnough, Applied, SameSpan, Leaves, Shapes
  <1> QED BY <1>2, <1>3, <1>4, <1>5, <1>6, <1>7, <1>8 DEF IsOperation

\* A copy put together from regions and edits.
LEMMA CopyMade ==
    ASSUME NEW rs, Arranged(rs), \A r \in DOMAIN rs : Audible(rs[r]), NEW edits, EditsOK(edits)
    PROVE  CopyOK([regions |-> rs, mix |-> edits])
  <1> DEFINE All == UNION {[ids -> Region] : ids \in SUBSET Nat}
             D == DOMAIN rs
  <1>1. D \in SUBSET Nat /\ rs \in [D -> Region] BY DEF Arranged, IsArrangement
  <1> HIDE DEF D
  <1>2. rs \in All BY Zenon, <1>1
  <1>3. edits \in Seq(PageOps) BY DEF EditsOK
  <1> DEFINE E == Seq(PageOps)
             c == [regions |-> rs, mix |-> edits]
  <1>4. c \in [regions : All, mix : E]
    <2> HIDE DEF All, E
    <2> QED BY <1>2, <1>3 DEF E
  <1>5. c \in Copies BY Zenon, <1>4 DEF Copies
  <1>6. c.regions = rs /\ c.mix = edits OBVIOUS
  <1> HIDE DEF c
  <1> QED BY <1>5, <1>6 DEF CopyOK, c

\* An operation of the page as one of the editor's: what it does not need is 0.
Plain(op) ==
    [does |-> op.does, region |-> op.region,
     from |-> IF op.does \in {"delete", "duplicate", "move"} THEN 0 ELSE op.from, to |-> op.to]

\* The fields that Plain drops are not read.
LEMMA PlainApplies ==
    ASSUME NEW op \in PageOps, NEW rs, NEW id
    PROVE  Applications(Plain(op), rs, id) = Applications(op, rs, id)
  <1>1. /\ Plain(op).does = op.does /\ Plain(op).region = op.region /\ Plain(op).to = op.to
        /\ op.does \in {"mix", "split", "delete_range", "resize"} => Plain(op).from = op.from
    BY DEF Plain
  <1> DEFINE r == op.region
             q == Plain(op)
  <1> HIDE DEF q
  <1>2. q.does = op.does /\ q.region = r /\ q.to = op.to BY <1>1 DEF q
  <1>3. op.does = "mix" => Applications(q, rs, id) = Applications(op, rs, id)
    BY <1>2 DEF Applications
  <1>4. r \notin DOMAIN rs => Applications(q, rs, id) = Applications(op, rs, id)
    BY <1>2 DEF Applications
  <1>5. ASSUME op.does # "mix", r \in DOMAIN rs
        PROVE  Applications(q, rs, id) = Applications(op, rs, id)
    <2>1. CASE op.does = "delete" BY <1>2, <1>5, <2>1 DEF Applications
    <2>2. CASE op.does = "delete_range"
      <3>1. q.from = op.from BY <1>1, <2>2 DEF q
      <3> QED BY <1>2, <1>5, <2>2, <3>1 DEF Applications
    <2>3. CASE op.does = "split"
      <3>1. q.from = op.from BY <1>1, <2>3 DEF q
      <3> QED BY <1>2, <1>5, <2>3, <3>1 DEF Applications
    <2>4. CASE op.does = "move" BY <1>2, <1>5, <2>4 DEF Applications
    <2>5. CASE op.does = "duplicate" BY <1>2, <1>5, <2>5 DEF Applications
    <2>6. CASE op.does = "resize"
      <3>1. q.from = op.from BY <1>1, <2>6 DEF q
      <3> QED BY <1>2, <1>5, <2>6, <3>1 DEF Applications
    <2>7. CASE op.does \notin {"delete", "delete_range", "split", "move", "duplicate", "resize"}
      BY <1>2, <1>5, <2>7 DEF Applications
    <2> QED BY <2>1, <2>2, <2>3, <2>4, <2>5, <2>6, <2>7
  <1> QED BY <1>3, <1>4, <1>5 DEF q

\* What an operation of the page is accepted for is in the song.
LEMMA PlainTyped ==
    ASSUME NEW rs, Arranged(rs), NEW op \in PageOps,
           op.does \in {"delete", "duplicate", "split", "move", "delete_range", "resize"},
           NEW id, Applications(op, rs, id) # {}
    PROVE  /\ IsOperation(Plain(op)) /\ Plain(op).does = op.does /\ Plain(op).region = op.region
           /\ op.does = "split" => Plain(op).from = op.from
           /\ op.does = "resize" => Plain(op).from + MinRange <= Plain(op).to
  <1> DEFINE r == op.region
             q == Plain(op)
  <1>1. op.from \in Nat /\ op.to \in Nat /\ Length \in Nat /\ MinRange \in Nat \ {0}
    BY ArrangementAssumption DEF PageOps
  <1>2. /\ q.does = op.does /\ q.region = op.region /\ q.to = op.to
        /\ q.from = IF op.does \in {"delete", "duplicate", "move"} THEN 0 ELSE op.from
    BY DEF Plain
  <1>3. r \in DOMAIN rs BY DEF Applications
  <1>4. rs[r].start \in Times /\ rs[r].end \in Times BY <1>3 DEF Arranged, IsArrangement, Region
  <1>5. CASE op.does \in {"delete", "duplicate", "move"}
    BY <1>1, <1>2, <1>5 DEF IsOperation, Times
  <1>6. CASE op.does = "split"
    <2>1. Splits(rs, r, op.from, id) # {} BY <1>3, <1>6 DEF Applications
    <2>2. op.from < rs[r].end BY <2>1 DEF Splits
    <2> QED BY <1>1, <1>2, <1>4, <1>6, <2>2 DEF IsOperation, Times
  <1>7. CASE op.does = "delete_range"
    <2>1. RangeDeletions(rs, r, op.from, op.to, id) # {} BY <1>3, <1>7 DEF Applications
    <2>2. op.to - op.from >= MinRange /\ op.to <= rs[r].end
      BY <1>1, <1>4, <2>1 DEF RangeDeletions, Times
    <2> QED BY <1>1, <1>2, <1>4, <1>7, <2>2 DEF IsOperation, Times
  <1>8. CASE op.does = "resize"
    <2>1. op.to - op.from >= MinRange /\ op.to <= Length BY <1>1, <1>3, <1>8 DEF Applications
    <2> QED BY <1>1, <1>2, <1>8, <2>1 DEF IsOperation, Times
  <1> QED BY <1>5, <1>6, <1>7, <1>8

\* What the server makes of the song for the page.
LEMMA ServedRegions ==
    ASSUME ServerInv, NEW op \in PageOps,
           op.does \in {"delete", "duplicate", "split", "move", "delete_range", "resize"},
           alone => SplitsInside(op, regions), NEW rs \in Applications(op, regions, nextId)
    PROVE  /\ Arranged(rs) /\ \A r \in DOMAIN rs : Audible(rs[r])
           /\ alone => LongEnough(rs)
  <1> DEFINE q == Plain(op)
  <1>1. /\ Arranged(regions) /\ nextId \in Nat /\ \A r \in DOMAIN regions : r < nextId
        /\ \A r \in DOMAIN regions : Audible(regions[r])
        /\ alone => LongEnough(regions)
    BY DEF ServerInv, RegionsInv, CopyOK, Copy
  <1>2. rs \in Applications(q, regions, nextId) BY PlainApplies
  <1>3. /\ IsOperation(q) /\ q.does = op.does /\ q.region = op.region
        /\ op.does = "split" => q.from = op.from
        /\ op.does = "resize" => q.from + MinRange <= q.to
    <2>1. Applications(op, regions, nextId) # {} OBVIOUS
    <2> QED BY <1>1, <2>1, PlainTyped
  <1>4. q.does = "resize" => q.from < q.to
    <2>1. q.from \in Nat /\ q.to \in Nat /\ MinRange \in Nat \ {0}
      BY <1>3, ArrangementAssumption DEF IsOperation, Times
    <2> QED BY <1>3, <2>1
  <1>5. SplitsInside(op, regions) => SplitsInside(q, regions) BY <1>3 DEF SplitsInside
  <1> HIDE DEF q
  <1>6. Arranged(rs) BY <1>1, <1>2, <1>3, AppliedAndUndone
  <1>7. Applied(q, regions, nextId, rs) BY <1>1, <1>2, <1>3, <1>4, AppliedSpans
  <1>8. \A r \in DOMAIN rs : Audible(rs[r]) BY <1>7 DEF Applied
  <1>9. ASSUME alone PROVE LongEnough(rs)
    <2>1. LongEnough(regions) /\ SplitsInside(q, regions) /\ (q.does = "resize" => q.from + MinRange <= q.to)
      BY <1>1, <1>3, <1>5, <1>9
    <2> QED BY <1>1, <1>2, <1>3, <2>1, AppliedLong
  <1> QED BY <1>6, <1>8, <1>9

\* An operation that the server applies leaves the song well formed.
LEMMA Served ==
    ASSUME ServerInv, NEW op \in PageOps, op.does # "nothing",
           alone => SplitsInside(op, regions), NEW rs \in Results(op)
    PROVE  /\ Arranged(rs) /\ \A r \in DOMAIN rs : Audible(rs[r])
           /\ alone => LongEnough(rs)
           /\ EditsOK(Remembered(op))
  <1>1. /\ Arranged(regions) /\ \A r \in DOMAIN regions : Audible(regions[r])
        /\ alone => LongEnough(regions)
        /\ EditsOK(mix)
    BY DEF ServerInv, RegionsInv, CopyOK, Copy
  <1>2. /\ Arranged(rs) /\ \A r \in DOMAIN rs : Audible(rs[r])
        /\ alone => LongEnough(rs)
    <2>1. CASE op.does \in {"fade", "track_move", "track_resize"}
      <3>1. rs = regions BY <2>1 DEF Results
      <3> QED BY <1>1, <3>1
    <2>2. CASE op.does \in {"delete", "duplicate", "split", "move", "delete_range", "resize"}
      <3>1. rs \in Applications(op, regions, nextId) BY <2>2 DEF Results
      <3> QED BY <2>2, <3>1, ServedRegions
    <2> QED BY <2>1, <2>2 DEF PageOps
  <1>3. EditsOK(Remembered(op))
    <2>1. CASE op.track = "both" BY <1>1, <2>1 DEF Remembered
    <2>2. CASE op.track # "both"
      <3> DEFINE more == Append(mix, op)
      <3>1. mix \in Seq(PageOps) BY <1>1 DEF EditsOK
      <3>2. /\ more \in Seq(PageOps) /\ DOMAIN more = 1 .. Len(mix) + 1 /\ more[Len(mix) + 1] = op
            /\ \A i \in 1 .. Len(mix) : more[i] = mix[i] /\ i \in DOMAIN mix
        BY <3>1
      <3>3. op.does = "track_resize" => op.from + MinRange <= op.to /\ op.to <= Length
        <4>1. op.from \in Nat /\ op.to \in Nat /\ Length \in Nat /\ MinRange \in Nat
          BY ArrangementAssumption DEF PageOps
        <4> QED BY <4>1 DEF Results
      <3> HIDE DEF more
      <3>4. ASSUME NEW i \in DOMAIN more, more[i].does = "track_resize"
            PROVE  more[i].from + MinRange <= more[i].to /\ more[i].to <= Length
        <4>1. CASE i = Len(mix) + 1 BY <3>2, <3>3, <3>4, <4>1
        <4>2. CASE i # Len(mix) + 1
          <5>1. i \in 1 .. Len(mix) BY <3>1, <3>2, <4>2
          <5>2. more[i] = mix[i] /\ i \in DOMAIN mix BY <3>2, <5>1
          <5> QED BY <1>1, <3>4, <5>2 DEF EditsOK
        <4> QED BY <4>1, <4>2
      <3>5. EditsOK(more) BY <3>2, <3>4 DEF EditsOK
      <3> QED BY <2>2, <3>5 DEF Remembered, more
    <2> QED BY <2>1, <2>2
  <1> QED BY <1>2, <1>3

-----------------------------------------------------------------------------
(* What the page asks for *)

\* A quotient lies between two numbers when the dividend does.
LEMMA QuotientBetween ==
    ASSUME NEW n \in Nat, NEW d \in Nat \ {0}, NEW a \in Nat, NEW b \in Nat,
           d * a <= n, n < d * (b + 1)
    PROVE  n \div d \in a .. b
  <1> DEFINE q == n \div d
  <1>1. q \in Nat /\ d * q <= n /\ n < d * (q + 1) OBVIOUS
  <1> HIDE DEF q
  <1>2. a <= q
    <2> SUFFICES ASSUME q + 1 <= a PROVE FALSE BY <1>1
    <2>1. d * (q + 1) <= d * a BY <1>1
    <2>2. d * (q + 1) \in Nat /\ d * a \in Nat BY <1>1
    <2> QED BY <1>1, <2>1, <2>2
  <1>3. q <= b
    <2> SUFFICES ASSUME b + 1 <= q PROVE FALSE BY <1>1
    <2>1. d * (b + 1) <= d * q BY <1>1
    <2>2. d * (b + 1) \in Nat /\ d * q \in Nat BY <1>1
    <2> QED BY <1>1, <2>1, <2>2
  <1> QED BY <1>1, <1>2, <1>3 DEF q

\* A place in a clip of a region is one of the region.
LEMMA SourceInRegion ==
    ASSUME NEW g, NEW s \in Nat, NEW e \in Nat, g.start = s, g.end = e, s <= e,
           NEW length \in Nat \ {0}, NEW x \in 0 .. length
    PROVE  ToSource(g, length, x) \in s .. e
  <1> DEFINE w == e - s
             n == 2 * (s * length + x * w) + length
             d == 2 * length
  <1>1. w \in Nat /\ s + w = e OBVIOUS
  <1> HIDE DEF w
  <1>2. s * length \in Nat /\ x * w \in Nat /\ length * w \in Nat BY <1>1
  <1>3. x * w <= length * w BY <1>1
  <1>4. n \in Nat /\ d \in Nat \ {0} BY <1>2
  <1>5. d * s = 2 * (s * length) OBVIOUS
  <1>6. d * s <= n BY <1>2, <1>5
  <1>7. d * (e + 1) = 2 * (s * length) + 2 * (length * w) + 2 * length BY <1>1
  <1>8. n < d * (e + 1) BY <1>2, <1>3, <1>7
  <1>9. ToSource(g, length, x) = n \div d BY DEF ToSource, w
  <1> HIDE DEF n, d
  <1>10. n \div d \in s .. e BY <1>4, <1>6, <1>8, QuotientBetween
  <1> QED BY <1>9, <1>10

\* A clip is drawn as long as the shortest one, or longer.
LEMMA ClipIsDrawn ==
    ASSUME NEW c, c.from \in Nat, c.to \in Nat
    PROVE  /\ ClipLength(c) \in Nat \ {0} /\ ClipLength(c) >= MinRange
           /\ c.from + MinRange <= c.to => ClipLength(c) = c.to - c.from
  <1> DEFINE a == c.to - c.from
             b == MinRange
  <1>1. a \in Int /\ b \in Nat \ {0} BY ArrangementAssumption
  <1>2. ClipLength(c) = Max({a, b}) BY DEF ClipLength
  <1> HIDE DEF a, b
  <1>3. IsFiniteSet({a, b}) /\ {a, b} \in SUBSET Int /\ {a, b} # {}
    <2>1. IsFiniteSet({a}) BY FS_Singleton
    <2>2. IsFiniteSet({a} \cup {b}) BY <2>1, FS_AddElement
    <2>3. {a} \cup {b} = {a, b} OBVIOUS
    <2> QED BY <1>1, <2>2, <2>3
  <1>4. Max({a, b}) \in {a, b} /\ \A x \in {a, b} : Max({a, b}) >= x
    <2> DEFINE S == {a, b}
    <2>1. IsFiniteSet(S) /\ S \in SUBSET Int /\ S # {} BY <1>3
    <2> HIDE DEF S
    <2>2. Max(S) \in S /\ \A x \in S : Max(S) >= x BY <2>1, MaxExists
    <2> QED BY <2>2 DEF S
  <1>5. /\ Max({a, b}) \in Nat \ {0} /\ Max({a, b}) >= b
        /\ b <= a => Max({a, b}) = a
    BY <1>1, <1>4
  <1>6. c.from + MinRange <= c.to => b <= a BY <1>1 DEF a, b
  <1> QED BY <1>2, <1>5, <1>6 DEF a, b

\* The regions of a copy.
LEMMA CopyRegion ==
    ASSUME NEW copy, CopyOK(copy), NEW r \in DOMAIN copy.regions
    PROVE  /\ r \in Nat /\ copy.regions[r] \in Region
           /\ copy.regions[r].start \in Nat /\ copy.regions[r].end \in Nat
           /\ copy.regions[r].start < copy.regions[r].end /\ copy.regions[r].end <= Length
           /\ copy.regions[r].index \in Nat
  BY LengthType DEF CopyOK, Arranged, IsArrangement, Region, Times, Audible

\* A part that the server can cut out of a region.
PartOK(g, from, to) ==
    /\ to - from >= MinRange /\ g.start <= from /\ to <= g.end
    /\ ~(TakesStart(g, from) /\ TakesEnd(g, to))

\* A selected part of a clip is a part of its region, or all of it
\* (resolveSourceRange).
LEMMA RangeOfSource ==
    ASSUME NEW g, g.start \in Nat, g.end \in Nat, g.start <= g.end, NEW length \in Nat \ {0},
           NEW a \in 0 .. length, NEW b \in 0 .. length,
           NEW range \in SourceRange(g, length, a, b)
    PROVE  /\ range.from \in Nat /\ range.to \in Nat
           /\ range # Whole => PartOK(g, range.from, range.to)
  <1> DEFINE from == ToSource(g, length, a)
             to == ToSource(g, length, b)
             s == g.start
             e == g.end
  <1>1. from \in s .. e /\ to \in s .. e
    <2>1. s \in Nat /\ e \in Nat /\ g.start = s /\ g.end = e /\ s <= e OBVIOUS
    <2> HIDE DEF s, e
    <2> QED BY <2>1, SourceInRegion
  <1> HIDE DEF from, to
  <1>2. from \in Nat /\ to \in Nat /\ s <= from /\ to <= e /\ MinRange \in Nat
    BY <1>1, ArrangementAssumption
  <1>3. CASE TakesStart(g, from) /\ TakesEnd(g, to)
    <2>1. range = Whole BY <1>3 DEF SourceRange, from, to
    <2> QED BY <2>1 DEF Whole
  <1>4. CASE ~(TakesStart(g, from) /\ TakesEnd(g, to))
    <2>1. range = [from |-> from, to |-> to] /\ ~(to - from < MinRange)
      BY <1>4 DEF SourceRange, from, to
    <2>2. range.from = from /\ range.to = to BY <2>1
    <2> QED BY <1>2, <1>4, <2>1, <2>2 DEF PartOK
  <1> QED BY <1>3, <1>4

\* What is selected on the timeline is a part of a region of the copy.
LEMMA Selection ==
    ASSUME TimelineInv, NEW points, NEW s \in Selections(points)
    PROVE  /\ s.track \in Lanes /\ s.region \in DOMAIN page.regions
           /\ s.range.from \in Nat /\ s.range.to \in Nat
           /\ s.range # Whole => PartOK(page.regions[s.region], s.range.from, s.range.to)
  <1> DEFINE Ranges(c) == UNION {SourceRange(page.regions[c.region], ClipLength(c), a, b) :
                                    a, b \in points \cap 0 .. ClipLength(c)}
             Parts(t, c) == {[track |-> t, region |-> c.region, range |-> range] : range \in Ranges(c)}
  <1>1. \E t \in Lanes : \E i \in DOMAIN shown[t] : s \in Parts(t, shown[t][i])
    <2>1. Selections(points) = UNION {UNION {Parts(t, shown[t][i]) : i \in DOMAIN shown[t]} : t \in Lanes}
      BY DEF Selections
    <2> HIDE DEF Parts
    <2>2. s \in UNION {UNION {Parts(t, shown[t][i]) : i \in DOMAIN shown[t]} : t \in Lanes}
      BY <2>1
    <2>3. PICK t \in Lanes : s \in UNION {Parts(t, shown[t][i]) : i \in DOMAIN shown[t]} BY <2>2
    <2>4. PICK i \in DOMAIN shown[t] : s \in Parts(t, shown[t][i]) BY <2>3
    <2> QED BY <2>4
  <1> HIDE DEF Parts
  <1>0. PICK t \in Lanes : \E i \in DOMAIN shown[t] : s \in Parts(t, shown[t][i]) BY Zenon, <1>1
  <1>2. PICK i \in DOMAIN shown[t] : s \in Parts(t, shown[t][i]) BY Zenon, <1>0
  <1> DEFINE c == shown[t][i]
  <1>3. c \in Clips(page.regions)
    <2>1. shown[t] \in Seq(Clips(page.regions)) BY DEF TimelineInv
    <2> QED BY <1>2, <2>1
  <1>4. s \in Parts(t, c) BY <1>2
  <1> HIDE DEF c
  <1>5. PICK range \in Ranges(c) : s = [track |-> t, region |-> c.region, range |-> range]
    <2> HIDE DEF Ranges
    <2> QED BY <1>4 DEF Parts
  <1>6. PICK a \in 0 .. ClipLength(c), b \in 0 .. ClipLength(c) :
           range \in SourceRange(page.regions[c.region], ClipLength(c), a, b)
    BY <1>5
  <1> DEFINE g == page.regions[c.region]
             length == ClipLength(c)
  <1>7. c.region \in DOMAIN page.regions /\ c.from \in Nat /\ c.to \in Nat BY <1>3 DEF Clips
  <1>8. length \in Nat \ {0} BY <1>7, ClipIsDrawn
  <1>9. g.start \in Nat /\ g.end \in Nat /\ g.start <= g.end
    BY <1>7, CopyRegion DEF TimelineInv
  <1>10. range \in SourceRange(g, length, a, b) /\ a \in 0 .. length /\ b \in 0 .. length BY <1>6
  <1> HIDE DEF g, length
  <1>11. /\ range.from \in Nat /\ range.to \in Nat
         /\ range # Whole => PartOK(g, range.from, range.to)
    BY <1>8, <1>9, <1>10, RangeOfSource
  <1>12. s.track = t /\ s.region = c.region /\ s.range = range BY <1>5
  <1> QED BY <1>7, <1>11, <1>12 DEF g

\* What the toolbar asks for.
AskOK(op) ==
    /\ op \in PageOps /\ op.region \in DOMAIN page.regions
    /\ op.does \in {"split", "delete", "delete_range", "fade", "duplicate", "move"}
    /\ SplitsInside(op, page.regions)
    /\ op.does = "delete_range" => PartOK(page.regions[op.region], op.from, op.to)

\* The fields of an operation.
LEMMA OpFields ==
    ASSUME NEW does, NEW track, NEW r, NEW from, NEW to
    PROVE  /\ Op(does, track, r, from, to).does = does /\ Op(does, track, r, from, to).track = track
           /\ Op(does, track, r, from, to).region = r
           /\ Op(does, track, r, from, to).from = from /\ Op(does, track, r, from, to).to = to
  BY DEF Op

\* The split button asks for a cut inside a region.
LEMMA SplitAsked ==
    ASSUME TimelineInv, NEW points, NEW op \in SplitOps(points)
    PROVE  AskOK(op) /\ op.does = "split"
  <1> DEFINE Here(r, x) == {Op("split", "both", r, at, 0) : at \in SplitAt(page, r, x)}
  <1>1. PICK r \in DOMAIN page.regions, x \in points : op \in Here(r, x)
    <2>1. SplitOps(points) = UNION {Here(r, x) : r \in DOMAIN page.regions, x \in points}
      BY DEF SplitOps
    <2> HIDE DEF Here
    <2> QED BY <2>1
  <1>2. PICK at \in SplitAt(page, r, x) : op = Op("split", "both", r, at, 0) BY Zenon, <1>1
  <1>3. at \in (page.regions[r].start + Edge + 1) .. (page.regions[r].end - Edge - 1)
    BY Zenon, <1>2 DEF SplitAt
  <1>4. /\ r \in Nat /\ page.regions[r].start \in Nat /\ page.regions[r].end \in Nat /\ Edge \in Nat
    BY CopyRegion, ArrangementAssumption DEF TimelineInv
  <1>5. /\ at \in Nat /\ page.regions[r].start + Edge < at /\ at < page.regions[r].end - Edge
    BY <1>3, <1>4
  <1>6. op \in PageOps BY <1>2, <1>4, <1>5 DEF PageOps, Op
  <1>7. op.does = "split" /\ op.region = r /\ op.from = at BY <1>2, OpFields
  <1> QED BY <1>5, <1>6, <1>7 DEF AskOK, SplitsInside

\* The delete button asks for a region, or for a part that can be cut out.
LEMMA DeleteAsked ==
    ASSUME TimelineInv, NEW points, NEW op \in DeleteOps(Selections(points))
    PROVE  AskOK(op)
  <1>1. CASE op \in {Op("delete", "both", r, 0, 0) : r \in DOMAIN page.regions}
    <2>1. PICK r \in DOMAIN page.regions : op = Op("delete", "both", r, 0, 0) BY <1>1
    <2>2. r \in Nat BY CopyRegion DEF TimelineInv
    <2>3. op \in PageOps BY <2>1, <2>2 DEF PageOps, Op
    <2> QED BY <2>1, <2>3, OpFields DEF AskOK, SplitsInside
  <1>2. CASE op \notin {Op("delete", "both", r, 0, 0) : r \in DOMAIN page.regions}
    <2>1. PICK s \in Selections(points) :
             /\ s.range # Whole
             /\ op = Op("delete_range", "both", s.region, s.range.from, s.range.to)
      BY Zenon, <1>2 DEF DeleteOps
    <2>2. /\ s.region \in DOMAIN page.regions /\ s.range.from \in Nat /\ s.range.to \in Nat
          /\ PartOK(page.regions[s.region], s.range.from, s.range.to)
      BY <2>1, Selection
    <2>3. s.region \in Nat BY <2>2, CopyRegion DEF TimelineInv
    <2>4. op \in PageOps BY <2>1, <2>2, <2>3 DEF PageOps, Op
    <2>5. /\ op.does = "delete_range" /\ op.region = s.region
          /\ op.from = s.range.from /\ op.to = s.range.to
      BY <2>1, OpFields
    <2> QED BY <2>2, <2>4, <2>5 DEF AskOK, SplitsInside
  <1> QED BY <1>1, <1>2

\* The fade button asks for a region or a part of one.
LEMMA FadeAsked ==
    ASSUME TimelineInv, NEW points, NEW op \in FadeOps(Selections(points))
    PROVE  AskOK(op) /\ op.does = "fade"
  <1>1. CASE op \in {Op("fade", t, r, 0, 0) : t \in Lanes, r \in DOMAIN page.regions}
    <2>1. PICK t \in Lanes, r \in DOMAIN page.regions : op = Op("fade", t, r, 0, 0) BY <1>1
    <2>2. r \in Nat BY CopyRegion DEF TimelineInv
    <2>3. op \in PageOps BY <2>1, <2>2 DEF PageOps, Op
    <2> QED BY <2>1, <2>3, OpFields DEF AskOK, SplitsInside
  <1>2. CASE op \notin {Op("fade", t, r, 0, 0) : t \in Lanes, r \in DOMAIN page.regions}
    <2>1. PICK s \in Selections(points) :
             op = Op("fade", s.track, s.region, s.range.from, s.range.to)
      BY <1>2 DEF FadeOps
    <2>2. /\ s.track \in Lanes /\ s.region \in DOMAIN page.regions
          /\ s.range.from \in Nat /\ s.range.to \in Nat
      BY Selection
    <2>3. s.region \in Nat BY <2>2, CopyRegion DEF TimelineInv
    <2>4. op \in PageOps BY <2>1, <2>2, <2>3 DEF PageOps, Op
    <2>5. op.does = "fade" /\ op.region = s.region BY <2>1, OpFields
    <2> QED BY <2>2, <2>4, <2>5 DEF AskOK, SplitsInside
  <1> QED BY <1>1, <1>2

\* The duplicate button asks for a region.
LEMMA DuplicateAsked ==
    ASSUME TimelineInv, NEW op \in DuplicateOps PROVE AskOK(op)
  <1>1. PICK r \in DOMAIN page.regions : op = Op("duplicate", "both", r, 0, 0) BY DEF DuplicateOps
  <1>2. r \in Nat BY CopyRegion DEF TimelineInv
  <1>3. op \in PageOps BY <1>1, <1>2 DEF PageOps, Op
  <1> QED BY <1>1, <1>3, OpFields DEF AskOK, SplitsInside

\* The larger of two numbers.
LEMMA MaxOfTwo ==
    ASSUME NEW a \in Int, NEW b \in Int PROVE Max({a, b}) = IF a >= b THEN a ELSE b
  BY DEF Max

\* The move buttons ask for a region and a place that is not negative.
LEMMA MoveAsked ==
    ASSUME TimelineInv, NEW op \in MoveOps PROVE AskOK(op) /\ op.does = "move"
  <1> DEFINE Left(r) == Max({0, page.regions[r].index - 1})
             Right(r) == page.regions[r].index + 1
             Both(r) == {Op("move", "both", r, 0, Left(r)), Op("move", "both", r, 0, Right(r))}
  <1>0. PICK r \in DOMAIN page.regions : op \in Both(r)
    <2> HIDE DEF Both
    <2>1. op \in UNION {Both(r) : r \in DOMAIN page.regions} BY Zenon DEF MoveOps, Both
    <2> QED BY <2>1
  <1>1. PICK to \in {Left(r), Right(r)} : op = Op("move", "both", r, 0, to) BY Zenon, <1>0
  <1>2. r \in Nat /\ page.regions[r].index \in Nat BY CopyRegion DEF TimelineInv
  <1>3. Max({0, page.regions[r].index - 1}) \in Nat
    <2> DEFINE i == page.regions[r].index - 1
    <2>1. i \in Int BY <1>2
    <2> HIDE DEF i
    <2>2. Max({0, i}) = IF 0 >= i THEN 0 ELSE i BY <2>1, MaxOfTwo
    <2>3. Max({0, i}) \in Nat BY <2>1, <2>2
    <2> QED BY <2>3 DEF i
  <1>4. to \in Nat BY <1>2, <1>3
  <1>5. op \in PageOps BY <1>1, <1>2, <1>4 DEF PageOps, Op
  <1>6. op.does = "move" /\ op.region = r BY <1>1, OpFields
  <1> QED BY <1>5, <1>6 DEF AskOK, SplitsInside

\* A button asks for what the copy can be asked, and only for what the plan
\* of the user has.
LEMMA ToolbarAsks ==
    ASSUME TimelineInv, NEW points, NEW op \in ToolbarOps(points)
    PROVE  AskOK(op) /\ (locked => op.does \notin Advanced)
  <1>1. CASE op \in SplitOps(points)
    <2>1. AskOK(op) /\ op.does = "split" BY <1>1, SplitAsked
    <2> QED BY <2>1 DEF Advanced
  <1>2. CASE op \in FadeOps(Selections(points))
    <2>1. AskOK(op) /\ op.does = "fade" BY <1>2, FadeAsked
    <2> QED BY <2>1 DEF Advanced
  <1>3. CASE op \in MoveOps
    <2>1. AskOK(op) /\ op.does = "move" BY <1>3, MoveAsked
    <2> QED BY <2>1 DEF Advanced
  <1>4. CASE ~locked /\ op \in DeleteOps(Selections(points)) BY <1>4, DeleteAsked
  <1>5. CASE ~locked /\ op \in DuplicateOps BY <1>5, DuplicateAsked
  <1> QED BY <1>1, <1>2, <1>3, <1>4, <1>5 DEF ToolbarOps

\* A split between the ends of a region, and a part that can be cut out of it,
\* give an arrangement.
LEMMA SplitExists ==
    ASSUME NEW rs, NEW r \in DOMAIN rs, NEW at, NEW id, rs[r].start < at, at < rs[r].end
    PROVE  Splits(rs, r, at, id) # {}
  BY ReindexingExists DEF Splits

\* A part that can be cut out can be cut out.
LEMMA RangeExists ==
    ASSUME NEW rs, Arranged(rs), NEW r \in DOMAIN rs, NEW from \in Nat, NEW to \in Nat,
           PartOK(rs[r], from, to), NEW id \in Nat, \A x \in DOMAIN rs : x < id
    PROVE  RangeDeletions(rs, r, from, to, id) # {}
  <1>1. /\ IsArrangement(rs) /\ id \notin DOMAIN rs
        /\ rs[r].start \in Nat /\ rs[r].end \in Nat /\ rs[r].end <= Length /\ Length \in Nat
        /\ Edge \in Nat /\ MinRange \in Nat \ {0}
    BY ArrangementAssumption DEF Arranged, IsArrangement, Region, Times
  <1>2. /\ to - from >= MinRange /\ rs[r].start <= from /\ to <= rs[r].end
        /\ ~(TakesStart(rs[r], from) /\ TakesEnd(rs[r], to))
    BY DEF PartOK
  <1>3. ~(r \notin DOMAIN rs \/ to - from < MinRange \/ from < rs[r].start \/ to > rs[r].end
          \/ (TakesStart(rs[r], from) /\ TakesEnd(rs[r], to)))
    BY <1>1, <1>2
  <1>4. CASE TakesStart(rs[r], from) \/ TakesEnd(rs[r], to)
    BY Zenon, <1>3, <1>4 DEF RangeDeletions
  <1>5. CASE ~TakesStart(rs[r], from) /\ ~TakesEnd(rs[r], to)
    <2> DEFINE Left(two) == UNION {Reindexings(Drop(three, id)) :
                                      three \in Splits(two, id, to, id + 1)}
    <2>1. RangeDeletions(rs, r, from, to, id) = UNION {Left(two) : two \in Splits(rs, r, from, id)}
      BY Zenon, <1>3, <1>5 DEF RangeDeletions
    <2>2. rs[r].start < from /\ from < rs[r].end /\ to < rs[r].end /\ from < to /\ from \in Times
      BY <1>1, <1>2, <1>5 DEF TakesStart, TakesEnd, Times
    <2>3. PICK two \in Splits(rs, r, from, id) : TRUE BY <2>2, SplitExists
    <2>4. /\ Arranged(two) /\ Extends(rs, two, id, r)
          /\ two[id].start = from /\ two[id].end = rs[r].end
      BY <1>1, <2>2, <2>3, SplitRegion
    <2>5. id \in DOMAIN two BY <2>4 DEF Extends
    <2>6. PICK three \in Splits(two, id, to, id + 1) : TRUE
      <3> DEFINE next == id + 1
      <3>1. two[id].start < to /\ to < two[id].end BY <2>2, <2>4
      <3> HIDE DEF next
      <3>2. Splits(two, id, to, next) # {} BY <2>5, <3>1, SplitExists
      <3> QED BY <3>2 DEF next
    <2>7. PICK out \in Reindexings(Drop(three, id)) : TRUE BY ReindexingExists
    <2>8. out \in Left(two) BY <2>6, <2>7
    <2> HIDE DEF Left
    <2> QED BY <2>1, <2>3, <2>8
  <1> QED BY <1>4, <1>5

\* What the toolbar asks for when the page knows the song.
LEMMA AskAccepted ==
    ASSUME ServerInv, page = Copy, NEW op, AskOK(op), locked => op.does \notin Advanced
    PROVE  Results(op) # {}
  <1> DEFINE r == op.region
  <1>1. page.regions = regions BY DEF Copy
  <1>2. /\ op \in PageOps /\ r \in DOMAIN regions /\ SplitsInside(op, regions)
        /\ op.does = "delete_range" => PartOK(regions[r], op.from, op.to)
        /\ op.does \in {"split", "delete", "delete_range", "fade", "duplicate", "move"}
    BY <1>1 DEF AskOK
  <1>3. Results(op) = IF op.does = "fade" THEN {regions} ELSE Applications(op, regions, nextId)
    BY <1>2 DEF Results
  <1>4. Arranged(regions) /\ nextId \in Nat /\ \A x \in DOMAIN regions : x < nextId
    BY DEF ServerInv, RegionsInv
  <1>5. op.from \in Nat /\ op.to \in Nat BY <1>2 DEF PageOps
  <1>6. CASE op.does = "fade" BY <1>3, <1>6
  <1>7. CASE op.does = "split"
    <2>1. /\ regions[r].start + Edge < op.from /\ op.from < regions[r].end - Edge
          /\ regions[r].start \in Nat /\ regions[r].end \in Nat /\ Edge \in Nat
      BY <1>2, <1>4, <1>7, ArrangementAssumption DEF SplitsInside, Arranged, IsArrangement, Region, Times
    <2>2. regions[r].start < op.from /\ op.from < regions[r].end BY <1>5, <2>1
    <2>3. Applications(op, regions, nextId) = Splits(regions, r, op.from, nextId)
      BY <1>2, <1>7 DEF Applications
    <2> QED BY <1>2, <1>3, <1>7, <2>2, <2>3, SplitExists
  <1>8. CASE op.does = "delete" BY <1>2, <1>3, <1>8, ReindexingExists DEF Applications
  <1>9. CASE op.does = "duplicate" BY <1>2, <1>3, <1>9, ReindexingExists DEF Applications
  <1>10. CASE op.does = "move" BY <1>2, <1>3, <1>10 DEF Applications
  <1>11. CASE op.does = "delete_range"
    <2>1. RangeDeletions(regions, r, op.from, op.to, nextId) # {}
      BY <1>2, <1>4, <1>5, <1>11, RangeExists
    <2>2. Applications(op, regions, nextId) = RangeDeletions(regions, r, op.from, op.to, nextId)
      BY <1>2, <1>11 DEF Applications
    <2> QED BY <1>3, <1>11, <2>1, <2>2
  <1> QED BY <1>2, <1>6, <1>7, <1>8, <1>9, <1>10, <1>11

\* Of a copy that is the song, every button asks for what the server accepts.
LEMMA InvAccepts == ASSUME PageInv PROVE AskedIsAccepted
  <1> SUFFICES ASSUME UpToDate, NEW op \in ToolbarOps(0 .. Length) PROVE Results(op) # {}
    BY DEF AskedIsAccepted
  <1>1. ServerInv /\ TimelineInv /\ page = Copy BY DEF PageInv, UpToDate
  <1>2. AskOK(op) /\ (locked => op.does \notin Advanced) BY <1>1, ToolbarAsks
  <1> QED BY <1>1, <1>2, AskAccepted

\* A clip that a timeline plays otherwise is on both.
LEMMA TrimmedFound ==
    ASSUME NEW was, Len(was) \in Nat, NEW clips, FirstTrimmed(was, clips) # 0
    PROVE  /\ FirstTrimmed(was, clips) \in 1 .. Len(was)
           /\ \E i \in DOMAIN clips :
                 /\ clips[i].region = was[FirstTrimmed(was, clips)].region
                 /\ \/ Apart(clips[i].from, was[FirstTrimmed(was, clips)].from)
                    \/ Apart(clips[i].to, was[FirstTrimmed(was, clips)].to)
  <1> DEFINE Other(c) == \E i \in DOMAIN clips :
                 clips[i].region = c.region /\ (Apart(clips[i].from, c.from) \/ Apart(clips[i].to, c.to))
             I == {i \in 1 .. Len(was) : Other(was[i])}
  <1>1. FirstTrimmed(was, clips) = IF I # {} THEN Min(I) ELSE 0
    BY Zenon DEF FirstTrimmed, SelectInSeq
  <1>2. I # {} /\ FirstTrimmed(was, clips) = Min(I) BY <1>1
  <1>3. I \in SUBSET (1 .. Len(was)) OBVIOUS
  <1>4. Min(I) \in I
    <2> DEFINE n == Len(was)
    <2>1. n \in Nat /\ I \in SUBSET (1 .. n) /\ I # {} BY <1>2, <1>3
    <2> HIDE DEF I, n
    <2> QED BY <2>1, FirstPlace
  <1> HIDE DEF Other
  <1>5. Min(I) \in 1 .. Len(was) /\ Other(was[Min(I)]) BY <1>4
  <1> HIDE DEF I
  <1> QED BY Zenon, <1>2, <1>5 DEF Other

\* The first of the tracks that something holds of.
LEMMA FirstTrack ==
    ASSUME NEW I \in SUBSET (1 .. Len(TrackOrder))
    PROVE  /\ (IF I # {} THEN Min(I) ELSE 0) \in 0 .. 2
           /\ (IF I # {} THEN Min(I) ELSE 0) # 0 =>
                 /\ (IF I # {} THEN Min(I) ELSE 0) \in I
                 /\ TrackOrder[IF I # {} THEN Min(I) ELSE 0] \in Lanes
  <1>1. Len(TrackOrder) = 2 /\ TrackOrder[1] \in Lanes /\ TrackOrder[2] \in Lanes BY DEF TrackOrder, Lanes
  <1>2. I \in SUBSET (1 .. 2) BY <1>1
  <1>3. I # {} => Min(I) \in I
    <2>1. 2 \in Nat OBVIOUS
    <2> QED BY <1>2, <2>1, FirstPlace
  <1>4. CASE I = {} BY <1>4
  <1>5. CASE I # {}
    <2> DEFINE k == Min(I)
    <2>1. k \in I BY <1>3, <1>5
    <2> HIDE DEF k
    <2>2. k \in 1 .. 2 BY <1>2, <2>1
    <2>3. k = 1 \/ k = 2 BY <2>2
    <2>4. k \in 0 .. 2 /\ k # 0 /\ TrackOrder[k] \in Lanes BY <1>1, <2>3
    <2>5. (IF I # {} THEN Min(I) ELSE 0) = k BY <1>5 DEF k
    <2> QED BY Zenon, <2>1, <2>4, <2>5
  <1> QED BY <1>4, <1>5

\* What a timeline is taken for.
LEMMA ResolvedTyped ==
    ASSUME NEW copy, CopyOK(copy), NEW clips \in [Lanes -> Seq(Clips(copy.regions))], NEW both
    PROVE  DragOK(Resolved(clips, copy, both))
  <1> DEFINE Whose(t) == IF both THEN "both" ELSE t
             Was(t) == TrackRegions({t}, copy)
             Shifted(t) == MovedRegion(RegionsOf(Was(t)), RegionsOf(clips[t]))
             Trims == {i \in 1 .. Len(TrackOrder) : FirstTrimmed(Was(TrackOrder[i]), clips[TrackOrder[i]]) # 0}
             Shifts == {i \in 1 .. Len(TrackOrder) : Shifted(TrackOrder[i]) # {}}
             trim == IF Trims # {} THEN Min(Trims) ELSE 0
             shift == IF Shifts # {} THEN Min(Shifts) ELSE 0
             first == TrackOrder[trim]
             r == Was(first)[FirstTrimmed(Was(first), clips[first])].region
             place == SelectInSeq(clips[first], LAMBDA d : d.region = r)
             c == clips[first][place]
             second == TrackOrder[shift]
             m == CHOOSE m \in Shifted(second) : TRUE
  <1>1. Resolved(clips, copy, both) =
           IF trim # 0 THEN Op(IF both THEN "resize" ELSE "track_resize", Whose(first), r, c.from, c.to)
           ELSE IF shift # 0
           THEN Op(IF both THEN "move" ELSE "track_move", Whose(second), m.region, 0, m.to)
           ELSE NoOp
    BY DEF Resolved, SelectInSeq
  <1> HIDE DEF m, second, c, place, r, first, shift, trim, Shifted, Was
  <1>2. \A t \in Lanes : Was(t) \in Seq(Clips(copy.regions))
    BY TrackRegionsLineup DEF CopyOK, Was, Lineups
  <1>3. \A x \in DOMAIN copy.regions : x \in Nat BY CopyRegion
  <1>4. CASE trim # 0
    <2>1. first \in Lanes /\ FirstTrimmed(Was(first), clips[first]) # 0
      <3> HIDE DEF Trims
      <3>1. Trims \in SUBSET (1 .. Len(TrackOrder)) BY DEF Trims
      <3>2. trim \in Trims /\ TrackOrder[trim] \in Lanes BY <1>4, <3>1, FirstTrack DEF trim
      <3> QED BY <3>2 DEF Trims, first
    <2> DEFINE was == Was(first)
               now1 == clips[first]
               n == FirstTrimmed(was, now1)
    <2>2. was \in Seq(Clips(copy.regions)) /\ now1 \in Seq(Clips(copy.regions)) BY <1>2, <2>1
    <2>3. n \in 1 .. Len(was) /\ \E i \in DOMAIN now1 : now1[i].region = was[n].region
      <3> HIDE DEF was, now1
      <3>1. Len(was) \in Nat BY <2>2
      <3>2. FirstTrimmed(was, now1) # 0 BY <2>1 DEF was, now1
      <3> QED BY <3>1, <3>2, TrimmedFound
    <2>4. r = was[n].region BY DEF r
    <2> HIDE DEF n
    <2> DEFINE I == {i \in 1 .. Len(now1) : now1[i].region = r}
    <2>5. place = IF I # {} THEN Min(I) ELSE 0 BY Zenon DEF place, SelectInSeq
    <2> HIDE DEF was, now1
    <2>6. Len(now1) \in Nat /\ DOMAIN now1 = 1 .. Len(now1) BY <2>2
    <2>7. I # {} BY <2>3, <2>4, <2>6
    <2>8. I \in SUBSET (1 .. Len(now1)) OBVIOUS
    <2> HIDE DEF I
    <2>9. Min(I) \in I BY <2>6, <2>7, <2>8, FirstPlace
    <2>10. place \in 1 .. Len(now1) BY <2>5, <2>7, <2>8, <2>9
    <2>11. c = now1[place] BY DEF c, now1
    <2>12. c \in Clips(copy.regions) BY <2>2, <2>10, <2>11
    <2>13. was[n] \in Clips(copy.regions) BY <2>2, <2>3
    <2>14. r \in Nat /\ c.from \in Nat /\ c.to \in Nat BY <1>3, <2>4, <2>12, <2>13 DEF Clips
    <2> DEFINE does == IF both THEN "resize" ELSE "track_resize"
    <2>15. /\ Whose(first) \in Lanes \cup {"both"} /\ does \in {"resize", "track_resize"} BY <2>1
    <2>16. Resolved(clips, copy, both) = Op(does, Whose(first), r, c.from, c.to) BY Zenon, <1>1, <1>4
    <2> HIDE DEF Whose, does
    <2>17. Op(does, Whose(first), r, c.from, c.to) \in PageOps BY <2>14, <2>15 DEF Op, PageOps
    <2>18. Op(does, Whose(first), r, c.from, c.to).does = does BY OpFields
    <2> QED BY <2>15, <2>16, <2>17, <2>18 DEF DragOK, Dragged
  <1>5. CASE trim = 0 /\ shift # 0
    <2>1. second \in Lanes /\ Shifted(second) # {}
      <3> HIDE DEF Shifts
      <3>1. Shifts \in SUBSET (1 .. Len(TrackOrder)) BY DEF Shifts
      <3>2. shift \in Shifts /\ TrackOrder[shift] \in Lanes BY <1>5, <3>1, FirstTrack DEF shift
      <3> QED BY <3>2 DEF Shifts, second
    <2>2. m \in Shifted(second) BY Zenon, <2>1 DEF m
    <2> DEFINE old == RegionsOf(Was(second))
               new == RegionsOf(clips[second])
    <2>3. m \in MovedRegion(old, new) BY <2>2 DEF Shifted
    <2>4. PICK p \in (DOMAIN old) \X (DOMAIN new) : m = [region |-> old[p[1]], to |-> p[2] - 1]
      <3> HIDE DEF old, new
      <3> QED BY <2>3 DEF MovedRegion, Moves
    <2>5. /\ Was(second) \in Seq(Clips(copy.regions)) /\ clips[second] \in Seq(Clips(copy.regions))
      BY <1>2, <2>1
    <2>6. p[1] \in 1 .. Len(Was(second)) /\ p[2] \in 1 .. Len(clips[second])
      BY <2>4, <2>5 DEF RegionsOf
    <2>7. old[p[1]] = Was(second)[p[1]].region BY <2>5, <2>6 DEF RegionsOf
    <2>8. old[p[1]] \in DOMAIN copy.regions
      <3>1. Was(second)[p[1]] \in Clips(copy.regions) BY <2>5, <2>6
      <3>2. Was(second)[p[1]].region \in DOMAIN copy.regions BY <3>1 DEF Clips
      <3> HIDE DEF old
      <3> QED BY <2>7, <3>2
    <2>9. m.region = old[p[1]] /\ m.to = p[2] - 1 BY <2>4
    <2>10. m.region \in Nat /\ m.to \in Nat BY <1>3, <2>6, <2>8, <2>9
    <2> DEFINE does == IF both THEN "move" ELSE "track_move"
    <2>11. /\ Whose(second) \in Lanes \cup {"both"} /\ does \in {"move", "track_move"} BY <2>1
    <2>12. Resolved(clips, copy, both) = Op(does, Whose(second), m.region, 0, m.to) BY Zenon, <1>1, <1>5
    <2> HIDE DEF Whose, does
    <2>13. Op(does, Whose(second), m.region, 0, m.to) \in PageOps BY <2>10, <2>11 DEF Op, PageOps
    <2>14. Op(does, Whose(second), m.region, 0, m.to).does = does BY OpFields
    <2> QED BY <2>11, <2>12, <2>13, <2>14 DEF DragOK, Dragged
  <1>6. CASE trim = 0 /\ shift = 0
    <2>1. Resolved(clips, copy, both) = NoOp BY Zenon, <1>1, <1>6
    <2>2. NoOp \in PageOps /\ NoOp.does = "nothing" BY DEF NoOp, Op, PageOps
    <2> QED BY <2>1, <2>2 DEF DragOK, Dragged
  <1> QED BY <1>4, <1>5, <1>6

\* The clips of a track as they are drawn.
LEMMA BuiltTyped ==
    ASSUME NEW copy, CopyOK(copy), NEW t
    PROVE  Built(t, copy) \in Seq(Clips(copy.regions))
  <1> DEFINE clips == TrackRegions({t}, copy)
             from(c) == IF Faded(t, c, copy) THEN 0 ELSE c.from
             Clip(c) == [region |-> c.region, from |-> from(c), to |-> from(c) + ClipLength(c)]
             drawn == [i \in DOMAIN clips |-> Clip(clips[i])]
  <1>1. clips \in Seq(Clips(copy.regions))
    BY TrackRegionsLineup DEF CopyOK, Lineups
  <1>2. Built(t, copy) = drawn BY Zenon DEF Built
  <1> HIDE DEF clips
  <1>3. ASSUME NEW c \in Clips(copy.regions) PROVE Clip(c) \in Clips(copy.regions)
    <2>1. c.region \in DOMAIN copy.regions /\ c.from \in Nat /\ c.to \in Nat BY DEF Clips
    <2>2. from(c) \in Nat /\ ClipLength(c) \in Nat BY <2>1, ClipIsDrawn
    <2> HIDE DEF from
    <2>3. from(c) + ClipLength(c) \in Nat BY <2>2
    <2> QED BY <2>1, <2>2, <2>3 DEF Clips
  <1> HIDE DEF Clip
  <1>4. /\ DOMAIN clips = 1 .. Len(clips) /\ Len(clips) \in Nat
        /\ \A i \in 1 .. Len(clips) : clips[i] \in Clips(copy.regions)
    BY <1>1
  <1>5. drawn \in [1 .. Len(clips) -> Clips(copy.regions)] BY <1>3, <1>4
  <1> HIDE DEF drawn
  <1>6. drawn \in Seq(Clips(copy.regions)) BY <1>4, <1>5
  <1> QED BY <1>2, <1>6

\* What is drawn of a copy are clips of its regions.
LEMMA DrawnTyped ==
    ASSUME NEW copy, CopyOK(copy)
    PROVE  Drawn(copy) \in [Lanes -> Seq(Clips(copy.regions))]
  BY BuiltTyped DEF Drawn

\* What a drag makes of the clips of a track.
LEMMA GestureTyped ==
    ASSUME NEW t, NEW rs, NEW s \in Seq(Clips(rs)), NEW points, NEW clips \in Gestures(t, s, points)
    PROVE  clips \in Seq(Clips(rs))
  <1> DEFINE End(c) == IF Faded(t, c, page) THEN c.to ELSE Length
             Froms(i) == {[s EXCEPT ![i].from = from] : from \in points \cap 0 .. s[i].to - MinRange}
             Tos(i) == {[s EXCEPT ![i].to = to] : to \in points \cap s[i].from + MinRange .. End(s[i])}
  <1>1. /\ DOMAIN s = 1 .. Len(s) /\ Len(s) \in Nat /\ MinRange \in Nat /\ Length \in Nat
        /\ \A i \in 1 .. Len(s) : s[i] \in Clips(rs)
    BY ArrangementAssumption
  <1>2. \A i \in 1 .. Len(s) : s[i].region \in DOMAIN rs /\ s[i].from \in Nat /\ s[i].to \in Nat
    BY <1>1 DEF Clips
  <1>3. \/ \E i, j \in DOMAIN s : clips = Carried(s, i, j)
        \/ \E i \in DOMAIN s : clips \in Froms(i) \/ clips \in Tos(i)
    <2>1. Gestures(t, s, points) = {Carried(s, i, j) : i, j \in DOMAIN s}
                                     \cup UNION {Froms(i) \cup Tos(i) : i \in DOMAIN s}
      BY DEF Gestures
    <2> HIDE DEF Froms, Tos
    <2> QED BY <2>1
  <1>4. CASE \E i, j \in DOMAIN s : clips = Carried(s, i, j)
    BY <1>1, <1>4, CarriedIs
  <1>5. CASE \E i \in DOMAIN s : clips \in Froms(i)
    <2>1. PICK i \in DOMAIN s : clips \in Froms(i) BY <1>5
    <2>2. PICK from \in 0 .. s[i].to - MinRange : clips = [s EXCEPT ![i].from = from] BY <2>1
    <2>3. from \in Nat OBVIOUS
    <2> DEFINE c == [s[i] EXCEPT !.from = from]
    <2>4. c \in Clips(rs) BY <1>1, <2>1, <2>3 DEF Clips
    <2> HIDE DEF c
    <2>5. clips = [s EXCEPT ![i] = c] BY <2>2 DEF c
    <2> QED BY <2>1, <2>4, <2>5
  <1>6. CASE \E i \in DOMAIN s : clips \in Tos(i)
    <2>1. PICK i \in DOMAIN s : clips \in Tos(i) BY <1>6
    <2>2. PICK to \in s[i].from + MinRange .. End(s[i]) : clips = [s EXCEPT ![i].to = to] BY <2>1
    <2>3. s[i].from \in Nat /\ End(s[i]) \in Nat BY <1>1, <1>2, <2>1
    <2> HIDE DEF End
    <2>4. to \in Nat BY <1>1, <2>3
    <2> DEFINE c == [s[i] EXCEPT !.to = to]
    <2>5. c \in Clips(rs) BY <1>1, <2>1, <2>4 DEF Clips
    <2> HIDE DEF c
    <2>6. clips = [s EXCEPT ![i] = c] BY <2>2 DEF c
    <2> QED BY <2>1, <2>5, <2>6
  <1> QED BY <1>3, <1>4, <1>5, <1>6

\* A drag leaves clips on both tracks.
LEMMA AfterGestureTyped ==
    ASSUME NEW S, shown \in [Lanes -> S], NEW t \in Lanes, NEW clips \in S
    PROVE  AfterGesture(t, clips) \in [Lanes -> S]
  <1> DEFINE after == [shown EXCEPT ![t] = clips]
  <1>1. after \in [Lanes -> S] OBVIOUS
  <1>2. TrackOrder[Len(TrackOrder)] \in Lanes BY DEF TrackOrder, Lanes
  <1> HIDE DEF after
  <1>3. Mirrored(after) \in [Lanes -> S] BY <1>1, <1>2 DEF Mirrored, Last
  <1>4. AfterGesture(t, clips) = IF linked THEN Mirrored(after) ELSE after
    BY Zenon DEF AfterGesture, after
  <1> QED BY <1>1, <1>3, <1>4

-----------------------------------------------------------------------------
(* The invariant of the page *)

Asks == [state : {"idle", "asked", "answered", "refused"}, op : PageOps, answer : Copies]

\* A slot without a request is idle.
LEMMA NoRequestTyped == NoRequest \in Asks /\ NoRequest.state = "idle"
  <1>1. NoOp \in PageOps BY DEF NoOp, Op, PageOps
  <1>2. <<>> \in [{} -> Region] /\ {} \in SUBSET Nat OBVIOUS
  <1>3. <<>> \in UNION {[ids -> Region] : ids \in SUBSET Nat} BY <1>2
  <1>4. <<>> \in Seq(PageOps) OBVIOUS
  <1>5. [regions |-> <<>>, mix |-> <<>>] \in Copies BY <1>3, <1>4 DEF Copies
  <1> QED BY <1>1, <1>5 DEF NoRequest, Asks

\* A page starts in the invariant.
LEMMA PageStarts == PageInit => PageInv
  <1> SUFFICES ASSUME PageInit PROVE PageInv OBVIOUS
  <1>1. /\ Arranged(regions) /\ LongEnough(regions) /\ nextId \in Nat
        /\ \A r \in DOMAIN regions : r < nextId /\ Audible(regions[r])
    BY DefaultArranged, DefaultAudible DEF PageInit, LongEnough
  <1>2. EditsOK(mix)
    <2>1. mix = <<>> BY DEF PageInit
    <2> QED BY <2>1 DEF EditsOK
  <1>3. CopyOK(Copy) BY <1>1, <1>2, CopyMade DEF Copy
  <1>4. ServerInv BY <1>1, <1>3 DEF ServerInv, RegionsInv
  <1>5. page = Copy /\ shown = Drawn(page) /\ pending = NoOp BY DEF PageInit
  <1>6. DragOK(NoOp) BY DEF DragOK, NoOp, Op, PageOps, Dragged
  <1>7. TimelineInv BY <1>3, <1>5, <1>6, DrawnTyped DEF TimelineInv
  <1>8. inflight = [q \in Slots |-> NoRequest] BY DEF PageInit
  <1>9. RequestsInv BY <1>8, NoRequestTyped DEF RequestsInv, Asks
  <1>10. AloneInv BY <1>5, <1>8, NoRequestTyped DEF AloneInv
  <1> QED BY <1>4, <1>7, <1>9, <1>10 DEF PageInv

\* The song and the page stay as they are.
LEMMA SongSame ==
    ASSUME PageInv, UNCHANGED <<regions, nextId, mix>>, alone' => alone
    PROVE  ServerInv' /\ Copy' = Copy
  <1>1. Copy' = Copy BY DEF Copy
  <1>2. ServerInv BY DEF PageInv
  <1> QED BY <1>1, <1>2 DEF ServerInv, RegionsInv, LongEnough, CopyOK

\* A step that leaves the copy and the tracks alone leaves the timeline.
LEMMA TimelineSame ==
    ASSUME PageInv, UNCHANGED <<page, shown>>, DragOK(pending')
    PROVE  TimelineInv'
  <1>1. TimelineInv BY DEF PageInv
  <1>2. CopyOK(page') /\ shown' \in [Lanes -> Seq(Clips(page'.regions))]
    BY <1>1 DEF TimelineInv
  <1> QED BY <1>2 DEF TimelineInv

\* A request starts, changes or ends.
LEMMA RequestSet ==
    ASSUME RequestsInv, NEW q \in Slots, NEW ask \in Asks,
           ask.state = "asked" => ask.op.does # "nothing",
           ask.state = "answered" => CopyOK(ask.answer),
           inflight' = [inflight EXCEPT ![q] = ask]
    PROVE  RequestsInv' /\ inflight'[q] = ask /\ \A p \in Slots : p # q => inflight'[p] = inflight[p]
  <1>1. inflight \in [Slots -> Asks] BY DEF RequestsInv, Asks
  <1>2. /\ inflight' \in [Slots -> Asks] /\ inflight'[q] = ask
        /\ \A p \in Slots : p # q => inflight'[p] = inflight[p]
    BY <1>1
  <1>3. ASSUME NEW p \in Slots
        PROVE  /\ inflight'[p].state = "asked" => inflight'[p].op.does # "nothing"
               /\ inflight'[p].state = "answered" => CopyOK(inflight'[p].answer)
    <2>1. CASE p = q BY <1>2, <2>1
    <2>2. CASE p # q
      <3>1. inflight'[p] = inflight[p] BY <1>2, <2>2
      <3> QED BY <3>1 DEF RequestsInv
    <2> QED BY <2>1, <2>2
  <1>4. RequestsInv' BY <1>2, <1>3 DEF RequestsInv, Asks
  <1> QED BY <1>2, <1>4

\* The page asks.
LEMMA SendKeeps ==
    ASSUME PageInv, NEW q \in Slots, NEW op \in PageOps, op.does # "nothing", Send(q, op),
           alone /\ (\A p \in Slots : inflight[p].state = "idle") => SplitsInside(op, regions),
           UNCHANGED <<regions, nextId, mix, page, shown>>, DragOK(pending')
    PROVE  PageInv'
  <1> DEFINE ask == [NoRequest EXCEPT !.state = "asked", !.op = op]
  <1>1. ask \in Asks /\ ask.state = "asked" /\ ask.op = op
    <2> DEFINE none == NoRequest
    <2>1. none \in Asks BY NoRequestTyped
    <2> HIDE DEF none
    <2>2. [none EXCEPT !.state = "asked", !.op = op] \in Asks BY <2>1 DEF Asks
    <2>3. /\ [none EXCEPT !.state = "asked", !.op = op].state = "asked"
          /\ [none EXCEPT !.state = "asked", !.op = op].op = op
      BY <2>1 DEF Asks
    <2> QED BY <2>2, <2>3 DEF none
  <1>2. /\ inflight[q].state = "idle" /\ inflight' = [inflight EXCEPT ![q] = ask]
        /\ alone' = (alone /\ \A p \in Slots : inflight[p].state = "idle")
    BY Zenon DEF Send
  <1> HIDE DEF ask
  <1>3. RequestsInv /\ AloneInv BY DEF PageInv
  <1>4. /\ RequestsInv' /\ inflight'[q] = ask
        /\ \A p \in Slots : p # q => inflight'[p] = inflight[p]
    BY <1>1, <1>2, <1>3, RequestSet
  <1>5. ServerInv' /\ Copy' = Copy BY <1>2, SongSame
  <1>6. TimelineInv' BY TimelineSame
  <1>7. ASSUME alone' PROVE
          /\ \A p, r \in Slots : inflight'[p].state # "idle" /\ inflight'[r].state # "idle" => p = r
          /\ page' = Copy'
          /\ \A p \in Slots : /\ inflight'[p].state # "answered"
                              /\ inflight'[p].state = "asked" => SplitsInside(inflight'[p].op, regions')
    <2>1. alone /\ \A p \in Slots : inflight[p].state = "idle" BY <1>2, <1>7
    <2>2. \A p \in Slots : p # q => inflight'[p].state = "idle" BY <1>4, <2>1
    <2>3. page = Copy BY <1>3, <2>1 DEF AloneInv
    <2>4. SplitsInside(op, regions') BY <2>1
    <2> QED BY <1>1, <1>4, <1>5, <2>2, <2>3, <2>4
  <1>8. AloneInv' BY <1>7 DEF AloneInv
  <1> QED BY <1>4, <1>5, <1>6, <1>8 DEF PageInv

\* A button keeps the invariant of the page.
LEMMA ToolbarKeeps == ASSUME PageInv, NEW q \in Slots, Toolbar(q) PROVE PageInv'
  <1>1. PICK op \in ToolbarOps(Points) : Send(q, op) BY DEF Toolbar
  <1>2. TimelineInv BY DEF PageInv
  <1>3. AskOK(op) BY <1>2, ToolbarAsks
  <1>4. op \in PageOps /\ op.does # "nothing" /\ SplitsInside(op, page.regions) BY <1>3 DEF AskOK
  <1>5. ASSUME alone, \A p \in Slots : inflight[p].state = "idle" PROVE SplitsInside(op, regions)
    <2>1. page = Copy BY <1>5 DEF PageInv, AloneInv
    <2> QED BY <1>4, <2>1 DEF Copy
  <1>6. UNCHANGED <<regions, nextId, mix, page, shown, pending>> BY DEF Toolbar
  <1>7. DragOK(pending') BY <1>2, <1>6 DEF TimelineInv
  <1> QED BY <1>1, <1>4, <1>5, <1>6, <1>7, SendKeeps

\* The timer keeps the invariant of the page.
LEMMA PersistKeeps == ASSUME PageInv, NEW q \in Slots, Persist(q) PROVE PageInv'
  <1>1. Send(q, pending) /\ pending # NoOp /\ pending' = NoOp BY DEF Persist
  <1>2. DragOK(pending) BY DEF PageInv, TimelineInv
  <1>3. pending \in PageOps /\ pending.does # "nothing" /\ pending.does # "split"
    BY <1>1, <1>2 DEF DragOK, Dragged
  <1>4. SplitsInside(pending, regions) BY <1>3 DEF SplitsInside
  <1>6. DragOK(pending') BY <1>1 DEF DragOK, NoOp, Op, PageOps, Dragged
  <1>5. UNCHANGED <<regions, nextId, mix, page, shown>> BY DEF Persist
  <1> QED BY <1>1, <1>3, <1>4, <1>5, <1>6, SendKeeps

\* The server refuses.
LEMMA RefuseKeeps ==
    ASSUME PageInv, NEW q \in Slots, inflight[q].state = "asked",
           inflight' = [inflight EXCEPT ![q].state = "refused"],
           UNCHANGED <<regions, nextId, mix, page, shown, pending, alone>>
    PROVE  PageInv'
  <1> DEFINE ask == [inflight[q] EXCEPT !.state = "refused"]
  <1>1. RequestsInv /\ AloneInv /\ DragOK(pending) BY DEF PageInv, TimelineInv
  <1>2. inflight[q] \in Asks BY <1>1 DEF RequestsInv, Asks
  <1>3. ask \in Asks /\ ask.state = "refused" BY <1>2 DEF Asks
  <1>4. inflight' = [inflight EXCEPT ![q] = ask] OBVIOUS
  <1> HIDE DEF ask
  <1>5. /\ RequestsInv' /\ inflight'[q] = ask
        /\ \A p \in Slots : p # q => inflight'[p] = inflight[p]
    BY <1>1, <1>3, <1>4, RequestSet
  <1>6. ServerInv' /\ Copy' = Copy BY SongSame
  <1>7. TimelineInv' BY <1>1, TimelineSame
  <1>8. \A p \in Slots : /\ inflight'[p].state = "idle" <=> inflight[p].state = "idle"
                         /\ inflight'[p].state = "answered" <=> inflight[p].state = "answered"
                         /\ inflight'[p].state = "answered" => inflight'[p].answer = inflight[p].answer
                         /\ inflight'[p].state = "asked" => inflight[p].state = "asked" /\ inflight'[p].op = inflight[p].op
    BY <1>3, <1>5
  <1>9. AloneInv' BY <1>1, <1>6, <1>8 DEF AloneInv
  <1> QED BY <1>5, <1>6, <1>7, <1>9 DEF PageInv

\* The server does what it is asked, and answers.
LEMMA AcceptKeeps ==
    ASSUME PageInv, NEW q \in Slots, inflight[q].state = "asked",
           NEW rs \in Results(inflight[q].op), SetRegions(rs), mix' = Remembered(inflight[q].op),
           inflight' = [inflight EXCEPT ![q].state = "answered", ![q].answer = Copy'],
           UNCHANGED <<page, shown, pending, alone>>
    PROVE  PageInv'
  <1> DEFINE op == inflight[q].op
             old == inflight[q]
             ask == [[inflight[q] EXCEPT !.state = "answered"] EXCEPT !.answer = Copy']
  <1>1. ServerInv /\ RequestsInv /\ AloneInv /\ DragOK(pending) BY DEF PageInv, TimelineInv
  <1>2. inflight[q] \in Asks /\ op.does # "nothing" BY <1>1 DEF RequestsInv, Asks
  <1>3. op \in PageOps BY <1>2 DEF Asks
  <1>4. alone => SplitsInside(op, regions) BY <1>1 DEF AloneInv
  <1>5. /\ Arranged(rs) /\ \A r \in DOMAIN rs : Audible(rs[r])
        /\ alone => LongEnough(rs)
        /\ EditsOK(Remembered(op))
    <2> HIDE DEF op
    <2> QED BY <1>1, <1>2, <1>3, <1>4, Served DEF op
  <1>6. RegionsInv' /\ regions' = rs
    <2>1. RegionsInv BY <1>1 DEF ServerInv
    <2> QED BY <1>5, <2>1, RegionsSet DEF SetRegions
  <1>7. Copy' = [regions |-> rs, mix |-> Remembered(op)] BY <1>6 DEF Copy
  <1>8. CopyOK(Copy') BY <1>5, <1>7, CopyMade
  <1>9. ServerInv'
    <2>1. alone' => LongEnough(regions') BY <1>5, <1>6
    <2>2. CopyOK(Copy)' BY <1>8 DEF CopyOK, Copies, EditsOK, Arranged, IsArrangement, Compact, Audible
    <2>3. LongEnough(regions)' <=> LongEnough(regions') BY DEF LongEnough
    <2> QED BY <1>6, <2>1, <2>2, <2>3 DEF ServerInv
  <1>10. ask \in Asks /\ ask.state = "answered" /\ ask.answer = Copy'
    <2> DEFINE c == Copy'
               one == [old EXCEPT !.state = "answered"]
    <2>1. c \in Copies BY <1>8 DEF CopyOK
    <2>2. old \in Asks BY <1>2
    <2> HIDE DEF old, c
    <2>3. one \in Asks /\ one.state = "answered" BY <2>2 DEF Asks
    <2> HIDE DEF one
    <2> DEFINE two == [one EXCEPT !.answer = c]
    <2>4. two \in Asks /\ two.state = "answered" /\ two.answer = c BY <2>1, <2>3 DEF Asks
    <2>5. two = ask BY DEF one, c, old
    <2> HIDE DEF two
    <2> QED BY <2>4, <2>5 DEF c
  <1>11. inflight' = [inflight EXCEPT ![q] = ask]
    <2> DEFINE c == Copy'
    <2>1. inflight' = [inflight EXCEPT ![q].state = "answered", ![q].answer = c] OBVIOUS
    <2>2. inflight \in [Slots -> Asks] BY <1>1 DEF RequestsInv, Asks
    <2> HIDE DEF c
    <2>3. inflight' = [inflight EXCEPT ![q] = [[inflight[q] EXCEPT !.state = "answered"] EXCEPT !.answer = c]]
      BY <2>1, <2>2
    <2> QED BY <2>3 DEF c
  <1> HIDE DEF ask, old
  <1>12. /\ RequestsInv' /\ inflight'[q] = ask
         /\ \A p \in Slots : p # q => inflight'[p] = inflight[p]
    <2>1. ask.state = "answered" => CopyOK(ask.answer) BY <1>8, <1>10
    <2>2. ask.state # "asked" BY <1>10
    <2> QED BY <1>1, <1>10, <1>11, <2>1, <2>2, RequestSet
  <1>13. TimelineInv' BY <1>1, TimelineSame
  <1>14. ASSUME alone' PROVE
          /\ \A p, r \in Slots : inflight'[p].state # "idle" /\ inflight'[r].state # "idle" => p = r
          /\ ~(\A p \in Slots : inflight'[p].state # "answered")
          /\ \A p \in Slots : /\ inflight'[p].state = "answered" => inflight'[p].answer = Copy'
                              /\ inflight'[p].state = "asked" => SplitsInside(inflight'[p].op, regions')
    <2>1. \A p \in Slots : p # q => inflight[p].state = "idle" BY <1>1, <1>14 DEF AloneInv
    <2>2. \A p \in Slots : p # q => inflight'[p].state = "idle" BY <1>12, <2>1
    <2> QED BY <1>10, <1>12, <2>2
  <1>15. AloneInv' BY <1>14 DEF AloneInv
  <1> QED BY <1>9, <1>12, <1>13, <1>15 DEF PageInv

\* An operation that is served keeps the invariant of the page.
LEMMA ServeKeeps == ASSUME PageInv, NEW q \in Slots, Serve(q) PROVE PageInv'
  <1>1. inflight[q].state = "asked" /\ UNCHANGED <<page, shown, pending, alone>> BY DEF Serve
  <1>2. CASE Results(inflight[q].op) = {}
    <2>1. inflight' = [inflight EXCEPT ![q].state = "refused"] /\ UNCHANGED <<regions, nextId, mix>>
      BY <1>2 DEF Serve
    <2> QED BY <1>1, <2>1, RefuseKeeps
  <1>3. CASE Results(inflight[q].op) # {}
    <2>1. PICK rs \in Results(inflight[q].op) : SetRegions(rs) /\ mix' = Remembered(inflight[q].op)
      BY <1>3 DEF Serve
    <2>2. inflight' = [inflight EXCEPT ![q].state = "answered", ![q].answer = Copy']
      BY <1>3 DEF Serve
    <2> QED BY <1>1, <2>1, <2>2, AcceptKeeps
  <1> QED BY <1>2, <1>3

\* The answer arrives.
LEMMA AnswerKeeps == ASSUME PageInv, NEW q \in Slots, Answer(q) PROVE PageInv'
  <1>1. ServerInv /\ TimelineInv /\ RequestsInv /\ AloneInv /\ DragOK(pending)
    BY DEF PageInv, TimelineInv
  <1>2. UNCHANGED <<regions, nextId, mix, alone>> /\ inflight' = [inflight EXCEPT ![q] = NoRequest]
    BY DEF Answer
  <1>3. ServerInv' /\ Copy' = Copy BY <1>2, SongSame
  <1>4. /\ RequestsInv' /\ inflight'[q] = NoRequest
        /\ \A p \in Slots : p # q => inflight'[p] = inflight[p]
    BY <1>1, <1>2, NoRequestTyped, RequestSet
  <1>5. inflight'[q].state = "idle" BY <1>4, NoRequestTyped
  <1>6. inflight[q].state \in {"answered", "refused"} BY DEF Answer
  <1>7. ASSUME alone'
        PROVE  /\ \A p \in Slots : inflight'[p].state = "idle"
               /\ inflight[q].state = "answered" => inflight[q].answer = Copy
               /\ inflight[q].state = "refused" => page = Copy
    <2>1. \A p \in Slots : p # q => inflight[p].state = "idle" BY <1>1, <1>2, <1>6, <1>7 DEF AloneInv
    <2>2. \A p \in Slots : inflight'[p].state = "idle" BY <1>4, <1>5, <2>1
    <2>3. inflight[q].state = "answered" => inflight[q].answer = Copy BY <1>1, <1>2, <1>7 DEF AloneInv
    <2>4. inflight[q].state = "refused" => page = Copy BY <1>1, <1>2, <1>7, <2>1 DEF AloneInv
    <2> QED BY <2>2, <2>3, <2>4
  <1>8. CASE inflight[q].state = "answered"
    <2> DEFINE copy == inflight[q].answer
    <2>1. Hydrate(inflight[q].answer) BY <1>8 DEF Answer
    <2>2. page' = copy /\ shown' = Drawn(copy) /\ (pending' = NoOp \/ pending' = pending)
      BY <2>1 DEF Hydrate
    <2>3. CopyOK(copy) BY <1>1, <1>8 DEF RequestsInv
    <2>4. DragOK(pending')
      <3>1. DragOK(NoOp) BY DEF DragOK, NoOp, Op, PageOps, Dragged
      <3> QED BY <1>1, <2>2, <3>1
    <2> HIDE DEF copy
    <2>5. Drawn(copy) \in [Lanes -> Seq(Clips(copy.regions))] BY <2>3, DrawnTyped
    <2>6. CopyOK(page') /\ shown' \in [Lanes -> Seq(Clips(page'.regions))] BY <2>2, <2>3, <2>5
    <2>7. TimelineInv' BY <2>4, <2>6 DEF TimelineInv
    <2>8. alone' => page' = Copy' BY <1>3, <1>7, <1>8, <2>2 DEF copy
    <2>9. AloneInv' BY <1>7, <2>8 DEF AloneInv
    <2> QED BY <1>3, <1>4, <2>7, <2>9 DEF PageInv
  <1>9. CASE inflight[q].state = "refused"
    <2>1. UNCHANGED <<page, shown, pending>> BY <1>9 DEF Answer
    <2>2. TimelineInv' BY <1>1, <2>1, TimelineSame
    <2>3. alone' => page' = Copy' BY <1>3, <1>7, <1>9, <2>1
    <2>4. AloneInv' BY <1>7, <2>3 DEF AloneInv
    <2> QED BY <1>3, <1>4, <2>2, <2>4 DEF PageInv
  <1> QED BY <1>6, <1>8, <1>9

\* It does not.
LEMMA LoseKeeps == ASSUME PageInv, NEW q \in Slots, Lose(q) PROVE PageInv'
  <1>1. RequestsInv /\ DragOK(pending) BY DEF PageInv, TimelineInv
  <1>2. /\ UNCHANGED <<regions, nextId, mix, page, shown, pending>> /\ alone' = FALSE
        /\ inflight' = [inflight EXCEPT ![q] = NoRequest]
    BY DEF Lose
  <1>3. ServerInv' BY <1>2, SongSame
  <1>4. RequestsInv' BY <1>1, <1>2, NoRequestTyped, RequestSet
  <1>5. TimelineInv' BY <1>1, <1>2, TimelineSame
  <1>6. AloneInv' BY <1>2 DEF AloneInv
  <1> QED BY <1>3, <1>4, <1>5, <1>6 DEF PageInv

\* The song, the page's copy and the requests stay.
LEMMA ElsewhereKeeps ==
    ASSUME PageInv, UNCHANGED <<regions, nextId, mix, page, inflight, alone>>,
           shown' \in [Lanes -> Seq(Clips(page.regions))], DragOK(pending')
    PROVE  PageInv'
  <1>1. TimelineInv /\ RequestsInv /\ AloneInv BY DEF PageInv
  <1>2. ServerInv' /\ Copy' = Copy BY SongSame
  <1>3. TimelineInv'
    <2>1. CopyOK(page') /\ shown' \in [Lanes -> Seq(Clips(page'.regions))] BY <1>1 DEF TimelineInv
    <2> QED BY <2>1 DEF TimelineInv
  <1>4. RequestsInv' BY <1>1 DEF RequestsInv
  <1>5. AloneInv' BY <1>1, <1>2 DEF AloneInv
  <1> QED BY <1>2, <1>3, <1>4, <1>5 DEF PageInv

\* A drag keeps the invariant of the page.
LEMMA DragKeeps == ASSUME PageInv, NEW t \in Lanes, Drag(t) PROVE PageInv'
  <1> DEFINE S == Seq(Clips(page.regions))
  <1>1. CopyOK(page) /\ shown \in [Lanes -> S] /\ DragOK(pending) BY DEF PageInv, TimelineInv
  <1>2. PICK clips \in Gestures(t, shown[t], TrimPlaces) :
           /\ \/ shown' = Drawn(page) \/ shown' = AfterGesture(t, clips)
              \/ shown' = [shown EXCEPT ![t] = clips]
           /\ pending' = Resolved(AfterGesture(t, clips), page, linked) \/ pending' = pending
    BY DEF Drag
  <1>3. UNCHANGED <<regions, nextId, mix, page, inflight, alone>> BY DEF Drag
  <1>4. clips \in S
    <2> DEFINE s == shown[t]
    <2>1. s \in Seq(Clips(page.regions)) BY <1>1
    <2>2. clips \in Gestures(t, s, TrimPlaces) BY <1>2
    <2> HIDE DEF s
    <2> QED BY <2>1, <2>2, GestureTyped
  <1> DEFINE after == AfterGesture(t, clips)
  <1>5. after \in [Lanes -> S]
    <2> HIDE DEF S
    <2> QED BY <1>1, <1>4, AfterGestureTyped
  <1>6. Drawn(page) \in [Lanes -> S] BY <1>1, DrawnTyped
  <1>7. DragOK(Resolved(after, page, linked))
    <2> HIDE DEF after
    <2> QED BY <1>1, <1>5, ResolvedTyped
  <1>8. [shown EXCEPT ![t] = clips] \in [Lanes -> S] BY <1>1, <1>4
  <1>9. shown' \in [Lanes -> S] /\ DragOK(pending') BY <1>1, <1>2, <1>5, <1>6, <1>7, <1>8
  <1> QED BY <1>3, <1>9, ElsewhereKeeps

\* Every step keeps the invariant of the page.
LEMMA PageStep == PageInv /\ [PageNext]_pageVars => PageInv'
  <1> SUFFICES ASSUME PageInv, [PageNext]_pageVars PROVE PageInv' OBVIOUS
  <1>1. Free \subseteq Slots BY DEF Free
  <1>2. ASSUME NEW q \in Free, Toolbar(q) \/ Persist(q) PROVE PageInv'
    BY <1>1, <1>2, ToolbarKeeps, PersistKeeps
  <1>3. ASSUME NEW q \in Slots, Serve(q) \/ Answer(q) \/ Lose(q) PROVE PageInv'
    BY <1>3, ServeKeeps, AnswerKeeps, LoseKeeps
  <1>4. ASSUME NEW t \in Lanes, Drag(t) PROVE PageInv' BY <1>4, DragKeeps
  <1>5. DragOK(pending) /\ shown \in [Lanes -> Seq(Clips(page.regions))] BY DEF PageInv, TimelineInv
  <1>6. ASSUME SwitchMode \/ Settle PROVE PageInv'
    BY <1>5, <1>6, ElsewhereKeeps DEF SwitchMode, Settle
  <1>7. ASSUME Select PROVE PageInv'
    <2>1. Drawn(page) \in [Lanes -> Seq(Clips(page.regions))]
      BY DrawnTyped DEF PageInv, TimelineInv
    <2> QED BY <1>5, <1>7, <2>1, ElsewhereKeeps DEF Select
  <1>8. ASSUME UNCHANGED pageVars PROVE PageInv'
    BY <1>5, <1>8, ElsewhereKeeps DEF pageVars
  <1> QED BY <1>2, <1>3, <1>4, <1>6, <1>7, <1>8 DEF PageNext

\* The invariant of the page: the server's arrangement and what it remembers
\* are well formed; the page's copy, its timeline, what waits for the timer and
\* every answer under way fit an arrangement; and while requests do not overlap
\* the page's copy, or the answer on its way, is the song.
THEOREM PageInvariant == PageSpec => []PageInv
  <1> QED BY PageStarts, PageStep, PTL DEF PageSpec

\* The song keeps regions that play in one order and can be heard and edited.
LEMMA InvUsable == ASSUME PageInv PROVE RegionsUsable
  <1>1. RegionsInv /\ (alone => LongEnough(regions)) /\ CopyOK(Copy) BY DEF PageInv, ServerInv
  <1>2. IndexesDense BY <1>1, ArrangedIsDense
  <1>3. ASSUME NEW r \in DOMAIN regions
        PROVE  /\ 0 <= regions[r].start /\ regions[r].end <= Length
               /\ regions[r].start + (IF alone THEN MinRange ELSE 1) <= regions[r].end
    <2>1. Copy.regions = regions BY DEF Copy
    <2>2. /\ regions[r].start \in Nat /\ regions[r].end \in Nat
          /\ regions[r].start < regions[r].end /\ regions[r].end <= Length
      BY <1>1, <2>1, CopyRegion
    <2> QED BY <1>1, <2>2 DEF LongEnough
  <1> QED BY <1>2, <1>3 DEF RegionsUsable

\* The regions of a song are played in one order, lie in the song and can be
\* heard, whatever pages ask for; and while no two requests overlap each is at
\* least as long as the editor allows (SongEditorService.applyOperation).
THEOREM RegionsAreUsable == PageSpec => []RegionsUsable
  <1> QED BY PageInvariant, InvUsable, PTL

\* When the page knows the song as it is, the server accepts what any button of
\* the toolbar asks for (waveform-timeline.tsx, applyOperation): the page cuts
\* and rounds with the limits that the server checks.
THEOREM ToolbarAccepted == PageSpec => []AskedIsAccepted
  <1> QED BY PageInvariant, InvAccepts, PTL

-----------------------------------------------------------------------------
(* What a drag is taken for *)

\* Without fades, clips that are long enough are drawn as they are.
LEMMA BuiltPlain ==
    ASSUME NEW copy, CopyOK(copy), LongEnough(copy.regions),
           \A i \in DOMAIN copy.mix : copy.mix[i].does # "fade", NEW t
    PROVE  /\ Built(t, copy) = TrackRegions({t}, copy)
           /\ \A c : ~Faded(t, c, copy)
  <1> DEFINE clips == TrackRegions({t}, copy)
             from(c) == IF Faded(t, c, copy) THEN 0 ELSE c.from
             Clip(c) == [region |-> c.region, from |-> from(c), to |-> from(c) + ClipLength(c)]
  <1>1. clips \in Seq(Clips(copy.regions)) /\ Drawable(clips)
    BY TrackRegionsLineup DEF CopyOK, Lineups
  <1>2. Built(t, copy) = [i \in DOMAIN clips |-> Clip(clips[i])] BY Zenon DEF Built
  <1>3. \A c : ~Faded(t, c, copy) BY DEF Faded
  <1> HIDE DEF clips
  <1>4. ASSUME NEW i \in DOMAIN clips PROVE Clip(clips[i]) = clips[i]
    <2> DEFINE c == clips[i]
    <2>1. c \in Clips(copy.regions) /\ c.from + MinRange <= c.to
      BY <1>1 DEF Drawable
    <2> HIDE DEF c
    <2>2. c.from \in Nat /\ c.to \in Nat BY <2>1 DEF Clips
    <2>3. ClipLength(c) = c.to - c.from BY <2>1, <2>2, ClipIsDrawn
    <2>4. from(c) = c.from BY <1>3
    <2> HIDE DEF from
    <2>5. from(c) + ClipLength(c) = c.to BY <2>2, <2>3, <2>4
    <2>6. Clip(c) = [region |-> c.region, from |-> c.from, to |-> c.to] BY <2>4, <2>5
    <2>7. c = [region |-> c.region, from |-> c.from, to |-> c.to] BY <2>1 DEF Clips
    <2> HIDE DEF Clip
    <2> QED BY <2>6, <2>7 DEF c
  <1> HIDE DEF Clip
  <1>5. [i \in DOMAIN clips |-> Clip(clips[i])] = [i \in DOMAIN clips |-> clips[i]] BY Zenon, <1>4
  <1>6. [i \in DOMAIN clips |-> clips[i]] = clips BY <1>1
  <1> QED BY <1>2, <1>3, <1>5, <1>6 DEF clips

\* One end of a clip that is trimmed.
LEMMA StartTrimmed ==
    ASSUME NEW rs, NEW s \in Seq(Clips(rs)), NEW i \in 1 .. Len(s), NEW a \in Nat
    PROVE  [s EXCEPT ![i].from = a] = Trimmed(s, i, a, s[i].to)
  <1> DEFINE c == s[i]
             d == [c EXCEPT !.from = a]
  <1>1. c \in [region : DOMAIN rs, from : Nat, to : Nat] /\ i \in DOMAIN s
    <2>1. s[i] \in Clips(rs) OBVIOUS
    <2> QED BY <2>1 DEF Clips
  <1>2. [s EXCEPT ![i].from = a] = [s EXCEPT ![i] = d] BY Zenon
  <1>3. Trimmed(s, i, a, c.to) = [s EXCEPT ![i] = [d EXCEPT !.to = c.to]]
    <2>1. Trimmed(s, i, a, c.to) = [[s EXCEPT ![i] = d] EXCEPT ![i].to = c.to] BY Zenon DEF Trimmed
    <2> HIDE DEF c, d
    <2>2. [s EXCEPT ![i] = d][i] = d BY <1>1
    <2>3. [[s EXCEPT ![i] = d] EXCEPT ![i].to = c.to]
            = [[s EXCEPT ![i] = d] EXCEPT ![i] = [d EXCEPT !.to = c.to]] BY Zenon, <2>2
    <2>4. [[s EXCEPT ![i] = d] EXCEPT ![i] = [d EXCEPT !.to = c.to]]
            = [s EXCEPT ![i] = [d EXCEPT !.to = c.to]] BY <1>1
    <2> QED BY Zenon, <2>1, <2>3, <2>4
  <1>4. [d EXCEPT !.to = c.to] = d
    <2> HIDE DEF c
    <2>1. d = [region |-> c.region, from |-> a, to |-> c.to] BY <1>1
    <2> QED BY <2>1
  <1> HIDE DEF d, c
  <1>5. Trimmed(s, i, a, c.to) = [s EXCEPT ![i] = d] BY Zenon, <1>3, <1>4
  <1> QED BY Zenon, <1>2, <1>5 DEF c

\* A trim at the end of a clip is a trim with the start it had.
LEMMA StopTrimmed ==
    ASSUME NEW rs, NEW s \in Seq(Clips(rs)), NEW i \in 1 .. Len(s), NEW a \in Nat
    PROVE  [s EXCEPT ![i].to = a] = Trimmed(s, i, s[i].from, a)
  <1> DEFINE c == s[i]
             d == [c EXCEPT !.from = c.from]
  <1>1. c \in [region : DOMAIN rs, from : Nat, to : Nat] /\ i \in DOMAIN s
    <2>1. s[i] \in Clips(rs) OBVIOUS
    <2> QED BY <2>1 DEF Clips
  <1>2. [s EXCEPT ![i].to = a] = [s EXCEPT ![i] = [c EXCEPT !.to = a]] BY Zenon
  <1>3. Trimmed(s, i, c.from, a) = [s EXCEPT ![i] = [d EXCEPT !.to = a]]
    <2>1. Trimmed(s, i, c.from, a) = [[s EXCEPT ![i] = d] EXCEPT ![i].to = a] BY Zenon DEF Trimmed
    <2> HIDE DEF c, d
    <2>2. [s EXCEPT ![i] = d][i] = d BY <1>1
    <2>3. [[s EXCEPT ![i] = d] EXCEPT ![i].to = a]
            = [[s EXCEPT ![i] = d] EXCEPT ![i] = [d EXCEPT !.to = a]] BY Zenon, <2>2
    <2>4. [[s EXCEPT ![i] = d] EXCEPT ![i] = [d EXCEPT !.to = a]]
            = [s EXCEPT ![i] = [d EXCEPT !.to = a]] BY <1>1
    <2> QED BY Zenon, <2>1, <2>3, <2>4
  <1>4. d = c
    <2> HIDE DEF c
    <2> QED BY <1>1
  <1> HIDE DEF d, c
  <1>5. Trimmed(s, i, c.from, a) = [s EXCEPT ![i] = [c EXCEPT !.to = a]] BY Zenon, <1>3, <1>4
  <1> QED BY Zenon, <1>2, <1>5 DEF c

\* What a drag can make of clips that are drawn as they are.
LEMMA GestureForms ==
    ASSUME NEW t, NEW rs, NEW s \in Lineups(rs), Drawable(s), \A c : ~Faded(t, c, page),
           NEW clips \in Gestures(t, s, 0 .. Length) \ {s}
    PROVE  \/ \E i, j \in 1 .. Len(s) : clips = Carried(s, i, j)
           \/ \E i \in 1 .. Len(s) : \E a, b \in Nat :
                 /\ clips = Trimmed(s, i, a, b) /\ a + MinRange <= b /\ b <= Length
                 /\ a # s[i].from \/ b # s[i].to
  <1> DEFINE End(c) == IF Faded(t, c, page) THEN c.to ELSE Length
             Froms(i) == {[s EXCEPT ![i].from = from] : from \in 0 .. Length \cap 0 .. s[i].to - MinRange}
             Tos(i) == {[s EXCEPT ![i].to = to] : to \in 0 .. Length \cap s[i].from + MinRange .. End(s[i])}
  <1>1. s \in Seq(Clips(rs)) BY DEF Lineups
  <1>2. /\ DOMAIN s = 1 .. Len(s) /\ Len(s) \in Nat /\ MinRange \in Nat /\ Length \in Nat
        /\ \A i \in 1 .. Len(s) : s[i] \in Clips(rs)
    BY <1>1, ArrangementAssumption
  <1>3. \A i \in 1 .. Len(s) : s[i].from \in Nat /\ s[i].to \in Nat BY <1>2 DEF Clips
  <1>4. \/ \E i, j \in DOMAIN s : clips = Carried(s, i, j)
        \/ \E i \in DOMAIN s : clips \in Froms(i) \/ clips \in Tos(i)
    <2>1. Gestures(t, s, 0 .. Length) = {Carried(s, i, j) : i, j \in DOMAIN s}
                                     \cup UNION {Froms(i) \cup Tos(i) : i \in DOMAIN s}
      BY DEF Gestures
    <2> HIDE DEF Froms, Tos
    <2> QED BY <2>1
  <1>5. CASE \E i, j \in DOMAIN s : clips = Carried(s, i, j) BY <1>2, <1>5
  <1>6. CASE \E i \in DOMAIN s : clips \in Froms(i)
    <2>1. PICK i \in DOMAIN s : clips \in Froms(i) BY <1>6
    <2>2. PICK from \in 0 .. s[i].to - MinRange : clips = [s EXCEPT ![i].from = from] BY <2>1
    <2>3. from \in Nat /\ i \in 1 .. Len(s) BY <1>2, <2>1
    <2>4. clips = Trimmed(s, i, from, s[i].to)
      <3>1. [s EXCEPT ![i].from = from] = Trimmed(s, i, from, s[i].to) BY <1>1, <2>3, StartTrimmed
      <3> QED BY Zenon, <2>2, <3>1
    <2>5. s[i].to \in Nat /\ s[i].to <= Length /\ from + MinRange <= s[i].to
      BY <1>2, <1>3, <2>2, <2>3 DEF Drawable
    <2>6. from # s[i].from
      <3> SUFFICES ASSUME from = s[i].from PROVE FALSE OBVIOUS
      <3>1. clips = [s EXCEPT ![i].from = s[i].from] BY Zenon, <2>2
      <3>2. s[i] \in Clips(rs) BY <1>2, <2>3
      <3>3. [s[i] EXCEPT !.from = s[i].from] = s[i] BY <3>2 DEF Clips
      <3>4. clips = [s EXCEPT ![i] = [s[i] EXCEPT !.from = s[i].from]] BY Zenon, <3>1
      <3>5. clips = [s EXCEPT ![i] = s[i]] BY Zenon, <3>3, <3>4
      <3>6. clips = s BY <1>1, <3>5
      <3> QED BY <3>6
    <2> QED BY <2>3, <2>4, <2>5, <2>6
  <1>7. CASE \E i \in DOMAIN s : clips \in Tos(i)
    <2>1. PICK i \in DOMAIN s : clips \in Tos(i) BY <1>7
    <2>2. PICK to \in s[i].from + MinRange .. End(s[i]) : clips = [s EXCEPT ![i].to = to] BY <2>1
    <2>3. i \in 1 .. Len(s) /\ s[i].from \in Nat /\ End(s[i]) = Length BY <1>2, <1>3, <2>1
    <2> HIDE DEF End
    <2>4. to \in Nat /\ to <= Length /\ s[i].from + MinRange <= to BY <1>2, <2>3
    <2>5. clips = Trimmed(s, i, s[i].from, to)
      <3>1. [s EXCEPT ![i].to = to] = Trimmed(s, i, s[i].from, to) BY <1>1, <2>3, <2>4, StopTrimmed
      <3> QED BY Zenon, <2>2, <3>1
    <2>6. to # s[i].to
      <3> SUFFICES ASSUME to = s[i].to PROVE FALSE OBVIOUS
      <3>1. clips = [s EXCEPT ![i].to = s[i].to] BY Zenon, <2>2
      <3>2. s[i] \in Clips(rs) BY <1>2, <2>3
      <3>3. [s[i] EXCEPT !.to = s[i].to] = s[i] BY <3>2 DEF Clips
      <3>4. clips = [s EXCEPT ![i] = [s[i] EXCEPT !.to = s[i].to]] BY Zenon, <3>1
      <3>5. clips = [s EXCEPT ![i] = s[i]] BY Zenon, <3>3, <3>4
      <3>6. clips = s BY <1>1, <3>5
      <3> QED BY <3>6
    <2> QED BY <2>3, <2>4, <2>5, <2>6
  <1> QED BY <1>4, <1>5, <1>6, <1>7

\* Each of some clips is one of others.
AreClipsOf(a, s, rs) ==
    a \in Seq(Clips(rs)) /\ Len(a) = Len(s) /\ \A k \in 1 .. Len(s) : \E x \in 1 .. Len(s) : a[k] = s[x]

\* Clips of the same regions in the same order are the same.
LEMMA SameRegions ==
    ASSUME NEW rs, NEW s \in Lineups(rs), NEW a, AreClipsOf(a, s, rs), NEW b, AreClipsOf(b, s, rs),
           RegionsOf(a) = RegionsOf(b)
    PROVE  a = b
  <1>0. /\ a \in Seq(Clips(rs)) /\ Len(a) = Len(s) /\ b \in Seq(Clips(rs)) /\ Len(b) = Len(s)
        /\ \A k \in 1 .. Len(a) : \E x \in 1 .. Len(s) : a[k] = s[x]
        /\ \A k \in 1 .. Len(b) : \E x \in 1 .. Len(s) : b[k] = s[x]
    BY DEF AreClipsOf
  <1>1. \A i, j \in 1 .. Len(s) : s[i].region = s[j].region => i = j BY DEF Lineups
  <1>2. DOMAIN a = 1 .. Len(a) /\ DOMAIN b = 1 .. Len(b) /\ Len(a) \in Nat /\ Len(b) \in Nat BY <1>0
  <1>3. DOMAIN RegionsOf(a) = DOMAIN a /\ DOMAIN RegionsOf(b) = DOMAIN b BY DEF RegionsOf
  <1>4. DOMAIN a = DOMAIN b BY <1>3
  <1>5. ASSUME NEW k \in DOMAIN a PROVE a[k] = b[k]
    <2>1. PICK x \in 1 .. Len(s) : a[k] = s[x] BY <1>0, <1>2
    <2>2. PICK y \in 1 .. Len(s) : b[k] = s[y] BY <1>0, <1>2, <1>4
    <2>3. RegionsOf(a)[k] = a[k].region /\ RegionsOf(b)[k] = b[k].region BY <1>4 DEF RegionsOf
    <2>4. s[x].region = s[y].region BY <2>1, <2>2, <2>3
    <2>5. x = y BY <1>1, <2>4
    <2> QED BY <2>1, <2>2, <2>5
  <1>6. a \in [DOMAIN a -> Clips(rs)] /\ b \in [DOMAIN a -> Clips(rs)]
    <2> DEFINE K == Clips(rs)
    <2>1. a \in Seq(K) /\ b \in Seq(K) BY <1>0
    <2> HIDE DEF K
    <2>2. a \in [DOMAIN a -> K] /\ b \in [DOMAIN b -> K] BY <2>1
    <2> QED BY <1>4, <2>2 DEF K
  <1> QED BY <1>5, <1>6

\* The regions of clips that are carried are carried.
LEMMA RegionsCarried ==
    ASSUME NEW rs, NEW s \in Lineups(rs), NEW i \in 1 .. Len(s), NEW j \in 1 .. Len(s)
    PROVE  /\ RegionsOf(s) \in Seq(DOMAIN rs) /\ Len(RegionsOf(s)) = Len(s)
           /\ RegionsOf(Carried(s, i, j)) = Carried(RegionsOf(s), i, j)
  <1> DEFINE n == Len(s)
             out == Carried(s, i, j)
  <1>0. s \in Seq(Clips(rs)) /\ n \in Nat BY DEF Lineups
  <1>4. /\ out \in Seq(Clips(rs)) /\ Len(out) = n
        /\ \A k \in 1 .. n : CarriedFrom(i, j, k) \in 1 .. n /\ out[k] = s[CarriedFrom(i, j, k)]
    <2>1. Carried(s, i, j) \in Seq(Clips(rs)) BY <1>0, CarriedIs
    <2>2. Len(Carried(s, i, j)) = Len(s) BY <1>0, CarriedIs
    <2>3. \A k \in 1 .. Len(s) : CarriedFrom(i, j, k) \in 1 .. Len(s) BY <1>0, CarriedIs
    <2>4. \A k \in 1 .. Len(s) : Carried(s, i, j)[k] = s[CarriedFrom(i, j, k)] BY <1>0, CarriedIs
    <2> QED BY Zenon, <2>1, <2>2, <2>3, <2>4
  <1> HIDE DEF out
  <1> DEFINE old == RegionsOf(s)
             new == Carried(old, i, j)
  <1>1. DOMAIN s = 1 .. n /\ \A k \in 1 .. n : s[k].region \in DOMAIN rs
    <2>1. \A k \in 1 .. n : s[k] \in Clips(rs) BY <1>0
    <2> QED BY <1>0, <2>1 DEF Clips
  <1>2. old = [k \in 1 .. n |-> s[k].region] BY <1>1 DEF RegionsOf
  <1> HIDE DEF old
  <1>3. old \in Seq(DOMAIN rs) /\ Len(old) = n /\ \A k \in 1 .. n : old[k] = s[k].region
    BY <1>0, <1>1, <1>2
  <1>5. /\ new \in Seq(DOMAIN rs) /\ Len(new) = n
        /\ \A k \in 1 .. n : new[k] = old[CarriedFrom(i, j, k)]
    <2>1. i \in 1 .. Len(old) /\ j \in 1 .. Len(old) BY <1>3
    <2>2. /\ new \in Seq(DOMAIN rs) /\ Len(new) = Len(old)
          /\ \A k \in 1 .. Len(old) : new[k] = old[CarriedFrom(i, j, k)]
      <3> DEFINE D == DOMAIN rs
      <3>1. old \in Seq(D) BY <1>3
      <3> HIDE DEF n, D, new
      <3>2. /\ Carried(old, i, j) \in Seq(D) /\ Len(Carried(old, i, j)) = Len(old)
            /\ \A k \in 1 .. Len(old) : Carried(old, i, j)[k] = old[CarriedFrom(i, j, k)]
        BY <2>1, <3>1, CarriedIs
      <3> QED BY Zenon, <3>2 DEF new, D
    <2> HIDE DEF new
    <2> QED BY <1>3, <2>2
  <1> HIDE DEF out, new, n
  <1>6. RegionsOf(out) = [k \in 1 .. n |-> out[k].region]
    <2>1. DOMAIN out = 1 .. n BY <1>4
    <2> QED BY Zenon, <2>1 DEF RegionsOf
  <1>7. \A k \in 1 .. n : out[k].region = new[k] BY <1>0, <1>3, <1>4, <1>5
  <1>8. new = [k \in 1 .. n |-> new[k]] BY <1>5
  <1> QED BY <1>3, <1>6, <1>7, <1>8 DEF out, new, n, old

\* A place is not told apart from itself, and of two either from the other.
LEMMA NotApart == ASSUME NEW a \in Nat PROVE ~Apart(a, a)
  BY TimelineAssumption DEF Apart

LEMMA ApartEither == ASSUME NEW a, NEW b PROVE Apart(a, b) <=> Apart(b, a)
  BY DEF Apart

\* A timeline that plays what it did has no clip that is trimmed.
LEMMA NothingTrimmed ==
    ASSUME NEW was, Len(was) \in Nat, NEW clips,
           \A k \in 1 .. Len(was) : \A i \in DOMAIN clips :
              clips[i].region = was[k].region =>
                 ~Apart(clips[i].from, was[k].from) /\ ~Apart(clips[i].to, was[k].to)
    PROVE  FirstTrimmed(was, clips) = 0
  <1> SUFFICES ASSUME FirstTrimmed(was, clips) # 0 PROVE FALSE OBVIOUS
  <1> DEFINE k == FirstTrimmed(was, clips)
  <1>1. /\ k \in 1 .. Len(was)
        /\ \E i \in DOMAIN clips :
              /\ clips[i].region = was[k].region
              /\ Apart(clips[i].from, was[k].from) \/ Apart(clips[i].to, was[k].to)
    BY TrimmedFound
  <1> QED BY <1>1

\* Nothing was trimmed in clips that are slightly other than they were.
LEMMA SlightTrimmed ==
    ASSUME NEW rs, NEW s \in Lineups(rs), NEW clips, DOMAIN clips = 1 .. Len(s), Slight(s, clips)
    PROVE  FirstTrimmed(s, clips) = 0
  <1>1. Len(s) \in Nat /\ DOMAIN s = 1 .. Len(s) BY DEF Lineups
  <1>2. \A k \in 1 .. Len(s) : clips[k].region = s[k].region
    <2>1. \A k \in 1 .. Len(s) : RegionsOf(clips)[k] = clips[k].region /\ RegionsOf(s)[k] = s[k].region
      BY <1>1 DEF RegionsOf
    <2>2. RegionsOf(clips) = RegionsOf(s) BY DEF Slight
    <2> QED BY <2>1, <2>2
  <1>3. \A k \in 1 .. Len(s) : \A i \in DOMAIN clips :
           clips[i].region = s[k].region =>
              ~Apart(clips[i].from, s[k].from) /\ ~Apart(clips[i].to, s[k].to)
    <2> TAKE k \in 1 .. Len(s)
    <2> TAKE i \in DOMAIN clips
    <2> HAVE clips[i].region = s[k].region
    <2>1. s[i].region = s[k].region BY <1>2
    <2>2. i = k BY <2>1 DEF Lineups
    <2>3. ~Apart(s[k].from, clips[k].from) /\ ~Apart(s[k].to, clips[k].to) BY <1>1 DEF Slight
    <2> QED BY <2>2, <2>3, ApartEither
  <1> QED BY <1>1, <1>3, NothingTrimmed

\* Nor in clips that are as they were.
LEMMA SameTrimmed ==
    ASSUME NEW rs, NEW s \in Lineups(rs)
    PROVE  FirstTrimmed(s, s) = 0
  <1>1. DOMAIN s = 1 .. Len(s) /\ \A k \in 1 .. Len(s) : s[k] \in Clips(rs) BY DEF Lineups
  <1>2. \A k \in DOMAIN s : s[k].from \in Nat /\ s[k].to \in Nat BY <1>1 DEF Clips
  <1>3. Slight(s, s) BY <1>2, NotApart DEF Slight
  <1> QED BY <1>1, <1>3, SlightTrimmed

\* Where the clips come from when one of them is carried.
LEMMA ClipsCarried ==
    ASSUME NEW rs, NEW s \in Lineups(rs), NEW i \in 1 .. Len(s), NEW j \in 1 .. Len(s)
    PROVE  AreClipsOf(Carried(s, i, j), s, rs)
  <1>1. s \in Seq(Clips(rs)) BY DEF Lineups
  <1>2. Carried(s, i, j) \in Seq(Clips(rs)) BY <1>1, CarriedIs
  <1>3. Len(Carried(s, i, j)) = Len(s) BY <1>1, CarriedIs
  <1>4. \A k \in 1 .. Len(s) : CarriedFrom(i, j, k) \in 1 .. Len(s) BY <1>1, CarriedIs
  <1>5. \A k \in 1 .. Len(s) : Carried(s, i, j)[k] = s[CarriedFrom(i, j, k)] BY <1>1, CarriedIs
  <1> QED BY Zenon, <1>2, <1>3, <1>4, <1>5 DEF AreClipsOf

\* Nothing was trimmed when a clip was carried.
LEMMA CarriedTrimmed ==
    ASSUME NEW rs, NEW s \in Lineups(rs), NEW i \in 1 .. Len(s), NEW j \in 1 .. Len(s)
    PROVE  FirstTrimmed(s, Carried(s, i, j)) = 0
  <1> DEFINE out == Carried(s, i, j)
  <1>1. /\ out \in Seq(Clips(rs)) /\ Len(out) = Len(s)
        /\ \A k \in 1 .. Len(s) : \E x \in 1 .. Len(s) : out[k] = s[x]
    <2>1. AreClipsOf(out, s, rs) BY ClipsCarried
    <2> HIDE DEF out
    <2> QED BY Zenon, <2>1 DEF AreClipsOf
  <1> HIDE DEF out
  <1>2. Len(s) \in Nat /\ DOMAIN out = 1 .. Len(s) BY <1>1 DEF Lineups
  <1>3. \A x, k \in 1 .. Len(s) : s[x].region = s[k].region => x = k BY DEF Lineups
  <1>4. \A k \in 1 .. Len(s) : \A m \in DOMAIN out :
           out[m].region = s[k].region =>
              ~Apart(out[m].from, s[k].from) /\ ~Apart(out[m].to, s[k].to)
    <2> TAKE k \in 1 .. Len(s)
    <2> TAKE m \in DOMAIN out
    <2> HAVE out[m].region = s[k].region
    <2>1. PICK x \in 1 .. Len(s) : out[m] = s[x] BY <1>1, <1>2
    <2>2. x = k BY <1>3, <2>1
    <2>3. s[k] \in Clips(rs) BY DEF Lineups
    <2>4. ~Apart(s[k].from, s[k].from) /\ ~Apart(s[k].to, s[k].to) BY <2>3, NotApart DEF Clips
    <2> QED BY <2>1, <2>2, <2>4
  <1>5. FirstTrimmed(s, out) = 0 BY <1>2, <1>4, NothingTrimmed
  <1> QED BY <1>5 DEF out

\* One clip that is trimmed is the first.
LEMMA OneTrimmed ==
    ASSUME NEW rs, NEW s \in Lineups(rs), NEW i \in 1 .. Len(s), NEW a \in Nat, NEW b \in Nat,
           Apart(a, s[i].from) \/ Apart(b, s[i].to)
    PROVE  FirstTrimmed(s, Trimmed(s, i, a, b)) = i
  <1> DEFINE out == Trimmed(s, i, a, b)
             Other(c) == \E k \in DOMAIN out :
                            out[k].region = c.region /\ (Apart(out[k].from, c.from) \/ Apart(out[k].to, c.to))
             I == {k \in 1 .. Len(s) : Other(s[k])}
  <1>1. FirstTrimmed(s, out) = IF I # {} THEN Min(I) ELSE 0
    BY Zenon DEF FirstTrimmed, SelectInSeq
  <1>2. s \in Seq(Clips(rs)) /\ \A x, k \in 1 .. Len(s) : s[x].region = s[k].region => x = k
    BY DEF Lineups
  <1>3. /\ out \in Seq(Clips(rs)) /\ Len(out) = Len(s)
        /\ out[i].region = s[i].region /\ out[i].from = a /\ out[i].to = b
        /\ \A k \in 1 .. Len(s) : k # i => out[k] = s[k]
    <2> HIDE DEF I, Other, out
    <2>1. s \in Seq(Clips(rs)) BY <1>2
    <2>2. /\ Trimmed(s, i, a, b) \in Seq(Clips(rs)) /\ Len(Trimmed(s, i, a, b)) = Len(s)
          /\ Trimmed(s, i, a, b)[i].region = s[i].region
          /\ Trimmed(s, i, a, b)[i].from = a /\ Trimmed(s, i, a, b)[i].to = b
          /\ \A j \in 1 .. Len(s) : j # i => Trimmed(s, i, a, b)[j] = s[j]
      BY <2>1, ClipTrimmed
    <2> QED BY Zenon, <2>2 DEF out
  <1> HIDE DEF out
  <1>4. Len(s) \in Nat /\ DOMAIN out = 1 .. Len(s) BY <1>2, <1>3
  <1>5. Other(s[i]) BY <1>3, <1>4
  <1>6. ASSUME NEW k \in 1 .. Len(s), Other(s[k]) PROVE k = i
    <2> SUFFICES ASSUME k # i PROVE FALSE OBVIOUS
    <2>1. PICK m \in DOMAIN out : /\ out[m].region = s[k].region
                                  /\ Apart(out[m].from, s[k].from) \/ Apart(out[m].to, s[k].to)
      BY <1>6
    <2>2. out[m].region = s[m].region BY <1>3, <1>4, <2>1
    <2>3. m = k BY <1>2, <1>4, <2>1, <2>2
    <2>4. s[k] \in Clips(rs) BY <1>2
    <2>5. ~Apart(s[k].from, s[k].from) /\ ~Apart(s[k].to, s[k].to) BY <2>4, NotApart DEF Clips
    <2> QED BY <1>3, <2>1, <2>3, <2>5
  <1> HIDE DEF Other
  <1>7. I = {i} BY <1>5, <1>6
  <1>8. I # {} /\ I \in SUBSET (1 .. Len(s)) BY <1>7
  <1>9. Min(I) \in I
    <2> HIDE DEF I
    <2> QED BY <1>4, <1>8, FirstPlace
  <1>10. Min(I) = i BY <1>7, <1>9
  <1> QED BY <1>1, <1>8, <1>10 DEF out

\* The parts of what a timeline is taken for.
Turned(clips, copy, t) == MovedRegion(RegionsOf(TrackRegions({t}, copy)), RegionsOf(clips[t]))
Turning(clips, copy, t) == CHOOSE m \in Turned(clips, copy, t) : TRUE
TrimmedTracks(clips, copy) ==
    {i \in 1 .. Len(TrackOrder) :
        FirstTrimmed(TrackRegions({TrackOrder[i]}, copy), clips[TrackOrder[i]]) # 0}
TurnedTracks(clips, copy) == {i \in 1 .. Len(TrackOrder) : Turned(clips, copy, TrackOrder[i]) # {}}
FirstOf(I) == TrackOrder[IF I # {} THEN Min(I) ELSE 0]
PlaceIn(clips, r) == SelectInSeq(clips, LAMBDA c : c.region = r)
Trimmings(clips, copy, t) ==
    LET r == TrackRegions({t}, copy)[FirstTrimmed(TrackRegions({t}, copy), clips[t])].region
    IN  clips[t][PlaceIn(clips[t], r)]

\* The place of a region among clips of different ones.
LEMMA RegionPlace ==
    ASSUME NEW C, NEW s \in Seq(C), \A i, j \in 1 .. Len(s) : s[i].region = s[j].region => i = j,
           NEW i \in 1 .. Len(s), NEW r, r = s[i].region
    PROVE  PlaceIn(s, r) = i
  <1> DEFINE I == {j \in 1 .. Len(s) : s[j].region = r}
  <1>1. PlaceIn(s, r) = IF I # {} THEN Min(I) ELSE 0 BY Zenon DEF PlaceIn, SelectInSeq
  <1>2. i \in I /\ I \in SUBSET (1 .. Len(s)) /\ Len(s) \in Nat OBVIOUS
  <1>3. Min(I) \in I
    <2> HIDE DEF I
    <2> QED BY <1>2, FirstPlace
  <1>4. Min(I) = i BY <1>3
  <1> QED BY <1>1, <1>2, <1>4

\* The parts of what a timeline is taken for.
LEMMA ResolvedParts ==
    ASSUME NEW clips, NEW copy, NEW both
    PROVE  LET J == TrimmedTracks(clips, copy)
               I == TurnedTracks(clips, copy)
               t == FirstOf(J)
               u == FirstOf(I)
               was == TrackRegions({t}, copy)
           IN  Resolved(clips, copy, both)
                 = IF (IF J # {} THEN Min(J) ELSE 0) # 0
                   THEN Op(IF both THEN "resize" ELSE "track_resize", IF both THEN "both" ELSE t,
                           was[FirstTrimmed(was, clips[t])].region,
                           Trimmings(clips, copy, t).from, Trimmings(clips, copy, t).to)
                   ELSE IF (IF I # {} THEN Min(I) ELSE 0) # 0
                   THEN Op(IF both THEN "move" ELSE "track_move", IF both THEN "both" ELSE u,
                           Turning(clips, copy, u).region, 0, Turning(clips, copy, u).to)
                   ELSE NoOp
  BY DEF Turning, Resolved, TrimmedTracks, TurnedTracks, Turned, FirstOf, Trimmings, PlaceIn, SelectInSeq

\* The first of the tracks that have a clip that is trimmed.
LEMMA ResolvedAsTrim ==
    ASSUME NEW clips, NEW copy, NEW both, TrimmedTracks(clips, copy) # {}
    PROVE  LET t == FirstOf(TrimmedTracks(clips, copy))
               was == TrackRegions({t}, copy)
           IN  /\ t \in Lanes /\ FirstTrimmed(was, clips[t]) # 0
               /\ Resolved(clips, copy, both)
                    = Op(IF both THEN "resize" ELSE "track_resize", IF both THEN "both" ELSE t,
                         was[FirstTrimmed(was, clips[t])].region,
                         Trimmings(clips, copy, t).from, Trimmings(clips, copy, t).to)
  <1> DEFINE I == TrimmedTracks(clips, copy)
             k == IF I # {} THEN Min(I) ELSE 0
             t == FirstOf(I)
             was == TrackRegions({t}, copy)
  <1>1. I \in SUBSET (1 .. Len(TrackOrder)) BY DEF TrimmedTracks
  <1>2. k \in 0 .. 2 /\ (k # 0 => k \in I /\ TrackOrder[k] \in Lanes)
    <2> HIDE DEF I
    <2> QED BY <1>1, FirstTrack
  <1>3. k # 0
    <2>1. Len(TrackOrder) = 2 BY DEF TrackOrder
    <2>2. I \in SUBSET (1 .. 2) /\ I # {} /\ 2 \in Nat BY <1>1, <2>1
    <2> HIDE DEF I
    <2>3. Min(I) \in I BY <2>2, FirstPlace
    <2> QED BY <2>2, <2>3
  <1>4. t \in Lanes /\ FirstTrimmed(was, clips[t]) # 0
    <2>1. t = TrackOrder[k] BY Zenon DEF FirstOf
    <2> HIDE DEF k, t
    <2> QED BY <1>2, <1>3, <2>1 DEF TrimmedTracks
  <1> DEFINE trim == Op(IF both THEN "resize" ELSE "track_resize", IF both THEN "both" ELSE t,
                        was[FirstTrimmed(was, clips[t])].region,
                        Trimmings(clips, copy, t).from, Trimmings(clips, copy, t).to)
  <1>5. Resolved(clips, copy, both) = trim
    <2> DEFINE J == TurnedTracks(clips, copy)
               u == FirstOf(J)
               other == IF (IF J # {} THEN Min(J) ELSE 0) # 0
                        THEN Op(IF both THEN "move" ELSE "track_move", IF both THEN "both" ELSE u,
                                Turning(clips, copy, u).region, 0, Turning(clips, copy, u).to)
                        ELSE NoOp
    <2>1. Resolved(clips, copy, both) = IF k # 0 THEN trim ELSE other BY ResolvedParts
    <2> HIDE DEF trim, k, other
    <2> QED BY Zenon, <1>3, <2>1
  <1> QED BY Zenon, <1>3, <1>4, <1>5

\* Or else the first of those whose regions are in another order.
LEMMA ResolvedAsShift ==
    ASSUME NEW clips, NEW copy, NEW both, TrimmedTracks(clips, copy) = {},
           TurnedTracks(clips, copy) # {}, NEW u, u = FirstOf(TurnedTracks(clips, copy))
    PROVE  LET m == Turning(clips, copy, u)
           IN  /\ u \in Lanes /\ m \in Turned(clips, copy, u)
               /\ Resolved(clips, copy, both)
                    = Op(IF both THEN "move" ELSE "track_move", IF both THEN "both" ELSE u,
                         m.region, 0, m.to)
  <1> DEFINE J == TrimmedTracks(clips, copy)
             I == TurnedTracks(clips, copy)
             k == IF I # {} THEN Min(I) ELSE 0
             t == FirstOf(I)
             m == Turning(clips, copy, t)
  <1>1. I \in SUBSET (1 .. Len(TrackOrder)) BY DEF TurnedTracks
  <1>2. k \in 0 .. 2 /\ (k # 0 => k \in I /\ TrackOrder[k] \in Lanes)
    <2> HIDE DEF I
    <2> QED BY <1>1, FirstTrack
  <1>3. k # 0
    <2>1. Len(TrackOrder) = 2 BY DEF TrackOrder
    <2>2. I \in SUBSET (1 .. 2) /\ I # {} /\ 2 \in Nat BY <1>1, <2>1
    <2> HIDE DEF I
    <2>3. Min(I) \in I BY <2>2, FirstPlace
    <2> QED BY <2>2, <2>3
  <1>4. t \in Lanes /\ Turned(clips, copy, t) # {}
    <2>1. t = TrackOrder[k] BY Zenon DEF FirstOf
    <2> HIDE DEF k, t
    <2> QED BY <1>2, <1>3, <2>1 DEF TurnedTracks
  <1> DEFINE shift == Op(IF both THEN "move" ELSE "track_move", IF both THEN "both" ELSE t,
                         m.region, 0, m.to)
             j == IF J # {} THEN Min(J) ELSE 0
  <1>6. j = 0 BY Zenon
  <1>7. m \in Turned(clips, copy, t) BY Zenon, <1>4 DEF Turning
  <1>8. Resolved(clips, copy, both) = shift
    <2> DEFINE v == FirstOf(J)
               was == TrackRegions({v}, copy)
               trim == Op(IF both THEN "resize" ELSE "track_resize", IF both THEN "both" ELSE v,
                          was[FirstTrimmed(was, clips[v])].region,
                          Trimmings(clips, copy, v).from, Trimmings(clips, copy, v).to)
    <2>1. Resolved(clips, copy, both) = IF j # 0 THEN trim ELSE IF k # 0 THEN shift ELSE NoOp
      BY ResolvedParts
    <2> HIDE DEF trim, j, k, shift
    <2> QED BY Zenon, <1>3, <1>6, <2>1
  <1>9. u = t OBVIOUS
  <1> HIDE DEF t
  <1> QED BY Zenon, <1>4, <1>7, <1>8, <1>9

\* The operations that a drag of the clip of a region can be taken for.
TrimOp(both, t, r, a, b) == Op(IF both THEN "resize" ELSE "track_resize", IF both THEN "both" ELSE t, r, a, b)
MoveOp(both, t, r, j) == Op(IF both THEN "move" ELSE "track_move", IF both THEN "both" ELSE t, r, 0, j - 1)

\* The clips of one track, and in linked mode those of a track that has the
\* same, are others than they were.
TracksDragged(out, copy, both, t, s, clips) ==
    /\ TrackRegions({t}, copy) = s /\ out[t] = clips
    /\ \A u \in Lanes :
          \/ out[u] = TrackRegions({u}, copy)
          \/ (both \/ u = t) /\ TrackRegions({u}, copy) = s /\ out[u] = clips
AllLineups(copy, rs) == \A u \in Lanes : TrackRegions({u}, copy) \in Lineups(rs)

\* A drag that trims one clip, and a drag that carries one.
TrimDragged(copy, rs, s, i, a, b, out, both, t) ==
    /\ s \in Lineups(rs) /\ i \in 1 .. Len(s) /\ a \in Nat /\ b \in Nat /\ t \in Lanes
    /\ Apart(a, s[i].from) \/ Apart(b, s[i].to)
    /\ AllLineups(copy, rs) /\ TracksDragged(out, copy, both, t, s, Trimmed(s, i, a, b))
MoveDragged(copy, rs, s, i, j, out, both, t) ==
    /\ s \in Lineups(rs) /\ i \in 1 .. Len(s) /\ j \in 1 .. Len(s) /\ t \in Lanes
    /\ Carried(s, i, j) # s
    /\ AllLineups(copy, rs) /\ TracksDragged(out, copy, both, t, s, Carried(s, i, j))

\* Tracks whose clips are as they were, or have one that was trimmed: the clip
\* is the one found, with its bounds.
LEMMA TrimResolved ==
    ASSUME NEW copy, NEW rs, NEW s, NEW i, NEW a, NEW b, NEW out, NEW both, NEW t,
           TrimDragged(copy, rs, s, i, a, b, out, both, t)
    PROVE  Resolved(out, copy, both) = TrimOp(both, t, s[i].region, a, b)
  <1> SUFFICES ASSUME s \in Lineups(rs), i \in 1 .. Len(s), a \in Nat, b \in Nat, t \in Lanes,
                      Apart(a, s[i].from) \/ Apart(b, s[i].to), AllLineups(copy, rs),
                      TracksDragged(out, copy, both, t, s, Trimmed(s, i, a, b))
               PROVE  Resolved(out, copy, both) = TrimOp(both, t, s[i].region, a, b)
    BY Zenon DEF TrimDragged
  <1> DEFINE Was(u) == TrackRegions({u}, copy)
             clips == Trimmed(s, i, a, b)
  <1>0. /\ Was(t) = s /\ out[t] = clips
        /\ \A u \in Lanes : \/ out[u] = Was(u)
                            \/ (both \/ u = t) /\ Was(u) = s /\ out[u] = clips
    BY Zenon DEF TracksDragged
  <1>1. FirstTrimmed(s, clips) = i BY OneTrimmed
  <1>2. \A u \in Lanes : FirstTrimmed(Was(u), Was(u)) = 0 BY SameTrimmed DEF AllLineups
  <1>3. /\ clips \in Seq(Clips(rs)) /\ Len(clips) = Len(s)
        /\ clips[i].region = s[i].region /\ clips[i].from = a /\ clips[i].to = b
        /\ \A k \in 1 .. Len(s) : k # i => clips[k] = s[k]
    <2>1. s \in Seq(Clips(rs)) BY DEF Lineups
    <2> HIDE DEF clips
    <2>2. /\ Trimmed(s, i, a, b) \in Seq(Clips(rs)) /\ Len(Trimmed(s, i, a, b)) = Len(s)
          /\ Trimmed(s, i, a, b)[i].region = s[i].region
          /\ Trimmed(s, i, a, b)[i].from = a /\ Trimmed(s, i, a, b)[i].to = b
          /\ \A j \in 1 .. Len(s) : j # i => Trimmed(s, i, a, b)[j] = s[j]
      BY <2>1, ClipTrimmed
    <2> QED BY Zenon, <2>2 DEF clips
  <1>4. PlaceIn(clips, s[i].region) = i
    <2> DEFINE K == Clips(rs)
    <2>1. \A x, k \in 1 .. Len(s) : s[x].region = s[k].region => x = k BY DEF Lineups
    <2>2. clips \in Seq(K) /\ i \in 1 .. Len(clips) BY <1>3
    <2> HIDE DEF clips, K
    <2>3. \A k \in 1 .. Len(s) : clips[k].region = s[k].region BY <1>3
    <2>4. \A x, k \in 1 .. Len(clips) : clips[x].region = clips[k].region => x = k
      BY <1>3, <2>1, <2>3
    <2>5. s[i].region = clips[i].region BY <1>3
    <2> QED BY <2>2, <2>4, <2>5, RegionPlace
  <1> DEFINE J == TrimmedTracks(out, copy)
             u == FirstOf(J)
  <1>5. J # {}
    <2>1. FirstTrimmed(Was(t), out[t]) # 0 BY <1>0, <1>1
    <2>2. PICK k \in 1 .. Len(TrackOrder) : TrackOrder[k] = t
      <3>1. Len(TrackOrder) = 2 /\ TrackOrder[1] = "vocal" /\ TrackOrder[2] = "instrumental"
        BY DEF TrackOrder
      <3>2. 1 \in 1 .. 2 /\ 2 \in 1 .. 2 OBVIOUS
      <3> QED BY <3>1, <3>2 DEF Lanes
    <2>3. k \in J BY <2>1, <2>2 DEF TrimmedTracks
    <2> QED BY <2>3
  <1>6. /\ u \in Lanes /\ FirstTrimmed(Was(u), out[u]) # 0
        /\ Resolved(out, copy, both)
             = Op(IF both THEN "resize" ELSE "track_resize", IF both THEN "both" ELSE u,
                  Was(u)[FirstTrimmed(Was(u), out[u])].region,
                  Trimmings(out, copy, u).from, Trimmings(out, copy, u).to)
    BY <1>5, ResolvedAsTrim
  <1> HIDE DEF u, J
  <1>7. (both \/ u = t) /\ Was(u) = s /\ out[u] = clips BY <1>0, <1>2, <1>6
  <1>8. Was(u)[FirstTrimmed(Was(u), out[u])].region = s[i].region BY Zenon, <1>1, <1>7
  <1>9. Trimmings(out, copy, u) = clips[i]
    <2>1. Trimmings(out, copy, u) = out[u][PlaceIn(out[u], Was(u)[FirstTrimmed(Was(u), out[u])].region)]
      BY Zenon DEF Trimmings
    <2>2. Trimmings(out, copy, u) = clips[PlaceIn(clips, s[i].region)] BY Zenon, <1>7, <1>8, <2>1
    <2> QED BY Zenon, <1>4, <2>2
  <1>10. (IF both THEN "both" ELSE u) = IF both THEN "both" ELSE t BY <1>7
  <1> HIDE DEF clips, Was
  <1> QED BY Zenon, <1>3, <1>6, <1>8, <1>9, <1>10 DEF TrimOp

\* The least of the places that others give has one that gives it.
LEMMA MoveFound ==
    ASSUME NEW old, NEW new, NEW n \in Nat, DOMAIN old = 1 .. n, DOMAIN new = 1 .. n,
           old # new, NEW i \in 1 .. n, NEW j \in 1 .. n, new = Carried(old, i, j)
    PROVE  MovedRegion(old, new) # {}
  <1> DEFINE P == Moves(old, new)
             I == {p[1] : p \in P}
             k == Min(I)
  <1>1. P \in SUBSET ((1 .. n) \X (1 .. n)) BY DEF Moves
  <1>2. <<i, j>> \in P BY DEF Moves
  <1> HIDE DEF P
  <1>3. I \in SUBSET (1 .. n) /\ I # {} BY <1>1, <1>2
  <1>4. k \in I /\ \A x \in I : k <= x
    <2> HIDE DEF I
    <2> QED BY <1>3, FirstPlace
  <1> HIDE DEF k
  <1>5. PICK p \in P : p[1] = k BY <1>4
  <1>6. \A q \in P : p[1] <= q[1] BY <1>4, <1>5
  <1>7. [region |-> old[p[1]], to |-> p[2] - 1] \in MovedRegion(old, new)
    BY <1>5, <1>6 DEF MovedRegion, P
  <1> QED BY <1>7

\* Tracks whose clips are as they were, or have one that was carried: the
\* region that is found, going to the place that is found, gives the same clips.
LEMMA MoveResolved ==
    ASSUME NEW copy, NEW rs, NEW s, NEW i, NEW j, NEW out, NEW both, NEW t,
           MoveDragged(copy, rs, s, i, j, out, both, t)
    PROVE  \E p, q \in 1 .. Len(s) :
              /\ Carried(s, i, j) = Carried(s, p, q)
              /\ Resolved(out, copy, both) = MoveOp(both, t, s[p].region, q)
  <1> SUFFICES ASSUME s \in Lineups(rs), i \in 1 .. Len(s), j \in 1 .. Len(s), t \in Lanes,
                      Carried(s, i, j) # s, AllLineups(copy, rs),
                      TracksDragged(out, copy, both, t, s, Carried(s, i, j))
               PROVE  \E p, q \in 1 .. Len(s) :
                         /\ Carried(s, i, j) = Carried(s, p, q)
                         /\ Resolved(out, copy, both) = MoveOp(both, t, s[p].region, q)
    BY Zenon DEF MoveDragged
  <1> DEFINE Was(u) == TrackRegions({u}, copy)
             clips == Carried(s, i, j)
             old == RegionsOf(s)
             new == RegionsOf(clips)
  <1>0. /\ Was(t) = s /\ out[t] = clips
        /\ \A u \in Lanes : \/ out[u] = Was(u)
                            \/ (both \/ u = t) /\ Was(u) = s /\ out[u] = clips
    BY Zenon DEF TracksDragged
  <1>1. FirstTrimmed(s, clips) = 0 BY CarriedTrimmed
  <1>2. \A u \in Lanes : FirstTrimmed(Was(u), Was(u)) = 0 BY SameTrimmed DEF AllLineups
  <1>3. TrimmedTracks(out, copy) = {}
    <2>1. Len(TrackOrder) = 2 /\ TrackOrder[1] \in Lanes /\ TrackOrder[2] \in Lanes
      BY DEF TrackOrder, Lanes
    <2>2. \A k \in 1 .. Len(TrackOrder) : TrackOrder[k] \in Lanes BY <2>1
    <2>3. \A u \in Lanes : FirstTrimmed(Was(u), out[u]) = 0
      <3> HIDE DEF clips
      <3> QED BY Zenon, <1>0, <1>1, <1>2 DEF clips
    <2> QED BY <2>2, <2>3 DEF TrimmedTracks
  <1>4. \A p, q \in 1 .. Len(s) : AreClipsOf(Carried(s, p, q), s, rs) BY ClipsCarried
  <1>5. s \in Seq(Clips(rs)) /\ Len(s) \in Nat BY DEF Lineups
  <1>6. \A p, q \in 1 .. Len(s) : /\ Len(old) = Len(s)
                             /\ RegionsOf(Carried(s, p, q)) = Carried(old, p, q)
    BY RegionsCarried
  <1>7. DOMAIN old = 1 .. Len(s) /\ DOMAIN new = 1 .. Len(s) /\ \A k \in 1 .. Len(s) : old[k] = s[k].region
    <2> HIDE DEF clips
    <2>1. AreClipsOf(clips, s, rs) BY <1>4 DEF clips
    <2>2. DOMAIN s = 1 .. Len(s) /\ DOMAIN clips = 1 .. Len(s) BY <1>5, <2>1 DEF AreClipsOf
    <2> QED BY <2>2 DEF RegionsOf
  <1>8. new = Carried(old, i, j) BY <1>6
  <1>9. ASSUME NEW p \in 1 .. Len(s), NEW q \in 1 .. Len(s), new = Carried(old, p, q)
        PROVE  clips = Carried(s, p, q)
    <2>1. AreClipsOf(clips, s, rs) /\ AreClipsOf(Carried(s, p, q), s, rs) BY <1>4
    <2>2. RegionsOf(clips) = RegionsOf(Carried(s, p, q)) BY <1>6, <1>9
    <2> HIDE DEF clips, old, new
    <2> QED BY <2>1, <2>2, SameRegions
  <1>10. old # new
    <2> SUFFICES ASSUME old = new PROVE FALSE OBVIOUS
    <2>1. AreClipsOf(s, s, rs) BY <1>5 DEF AreClipsOf
    <2>2. AreClipsOf(clips, s, rs) BY <1>4
    <2>3. RegionsOf(s) = RegionsOf(clips) /\ clips # s OBVIOUS
    <2> HIDE DEF clips, old, new
    <2> QED BY <2>1, <2>2, <2>3, SameRegions
  <1>11. MovedRegion(old, new) # {}
    <2> HIDE DEF old, new
    <2> QED BY <1>5, <1>7, <1>8, <1>10, MoveFound
  <1> DEFINE I == TurnedTracks(out, copy)
             u == FirstOf(I)
  <1>12. I # {}
    <2>1. Turned(out, copy, t) = MovedRegion(old, new) BY <1>0 DEF Turned
    <2>2. PICK k \in 1 .. Len(TrackOrder) : TrackOrder[k] = t
      <3>1. Len(TrackOrder) = 2 /\ TrackOrder[1] = "vocal" /\ TrackOrder[2] = "instrumental"
        BY DEF TrackOrder
      <3>2. 1 \in 1 .. 2 /\ 2 \in 1 .. 2 OBVIOUS
      <3> QED BY <3>1, <3>2 DEF Lanes
    <2> HIDE DEF old, new
    <2>3. k \in I BY <1>11, <2>1, <2>2 DEF TurnedTracks
    <2> QED BY <2>3
  <1> DEFINE m == Turning(out, copy, u)
  <1>13. TurnedTracks(out, copy) # {} /\ u = FirstOf(TurnedTracks(out, copy)) BY <1>12
  <1> HIDE DEF I, u
  <1>14. /\ u \in Lanes /\ m \in Turned(out, copy, u)
         /\ Resolved(out, copy, both)
              = Op(IF both THEN "move" ELSE "track_move", IF both THEN "both" ELSE u,
                   m.region, 0, m.to)
    BY <1>3, <1>13, ResolvedAsShift
  <1> HIDE DEF m
  <1>15. (both \/ u = t) /\ Was(u) = s /\ out[u] = clips
    <2> SUFFICES ASSUME out[u] = Was(u) PROVE FALSE BY <1>0, <1>14
    <2>1. Turned(out, copy, u) = MovedRegion(RegionsOf(Was(u)), RegionsOf(Was(u))) BY DEF Turned
    <2>2. MovedRegion(RegionsOf(Was(u)), RegionsOf(Was(u))) = {}
      <3> DEFINE o == RegionsOf(Was(u))
      <3> HIDE DEF o
      <3>1. MovedRegion(o, o) = {} BY DEF MovedRegion, Moves
      <3> QED BY <3>1 DEF o
    <2> QED BY <1>14, <2>1, <2>2
  <1>16. m \in MovedRegion(old, new) BY <1>14, <1>15 DEF Turned
  <1>17. PICK p \in Moves(old, new) : m = [region |-> old[p[1]], to |-> p[2] - 1]
    <2> HIDE DEF old, new
    <2> QED BY <1>16 DEF MovedRegion
  <1>18. p[1] \in 1 .. Len(s) /\ p[2] \in 1 .. Len(s) /\ new = Carried(old, p[1], p[2])
    <2> HIDE DEF old, new
    <2> QED BY <1>7, <1>17 DEF Moves
  <1>19. clips = Carried(s, p[1], p[2]) BY <1>9, <1>18
  <1>20. m.region = s[p[1]].region /\ m.to = p[2] - 1 BY <1>7, <1>17, <1>18
  <1>21. (IF both THEN "both" ELSE u) = IF both THEN "both" ELSE t BY <1>15
  <1>22. Resolved(out, copy, both) = MoveOp(both, t, s[p[1]].region, p[2])
    BY Zenon, <1>14, <1>20, <1>21 DEF MoveOp
  <1> HIDE DEF clips
  <1> QED BY Zenon, <1>18, <1>19, <1>22 DEF clips

-----------------------------------------------------------------------------
(* What the server makes of a drag *)

\* The clip of a region is the one that an edit of its track changes.
LEMMA EditTrims ==
    ASSUME NEW rs, NEW s \in Lineups(rs), NEW i \in 1 .. Len(s), NEW op,
           op.region = s[i].region, op.does = "track_resize"
    PROVE  TrackEdit(s, op) = Trimmed(s, i, op.from, op.to)
  <1> DEFINE k == SelectInSeq(s, LAMBDA c : c.region = op.region)
  <1>1. s \in Seq(Clips(rs)) /\ \A x, y \in 1 .. Len(s) : s[x].region = s[y].region => x = y
    BY DEF Lineups
  <1>2. PlaceIn(s, op.region) = i BY <1>1, RegionPlace
  <1>3. k = i BY Zenon, <1>2 DEF PlaceIn
  <1>4. i # 0 BY <1>1
  <1>5. TrackEdit(s, op) = IF k = 0 THEN s
                           ELSE CASE op.does = "track_resize" -> Trimmed(s, k, op.from, op.to)
                                  [] op.does = "track_move" ->
                                       Carried(s, k, Min({op.to, Len(s) - 1}) + 1)
                                  [] OTHER -> s
    BY Zenon DEF TrackEdit, Trimmed
  <1> HIDE DEF k
  <1> QED BY <1>3, <1>4, <1>5

\* A remembered move carries the clip of its region.
LEMMA EditCarries ==
    ASSUME NEW rs, NEW s \in Lineups(rs), NEW i \in 1 .. Len(s), NEW j \in 1 .. Len(s), NEW op,
           op.region = s[i].region, op.does = "track_move", op.to = j - 1
    PROVE  TrackEdit(s, op) = Carried(s, i, j)
  <1> DEFINE k == SelectInSeq(s, LAMBDA c : c.region = op.region)
             n == Len(s)
             to == Min({op.to, n - 1})
  <1>1. /\ s \in Seq(Clips(rs)) /\ n \in Nat
        /\ \A x, y \in 1 .. n : s[x].region = s[y].region => x = y
    BY DEF Lineups
  <1>2. PlaceIn(s, op.region) = i BY <1>1, RegionPlace
  <1>3. k = i BY Zenon, <1>2 DEF PlaceIn
  <1>4. i # 0 BY <1>1
  <1>5. TrackEdit(s, op) = IF k = 0 THEN s
                           ELSE CASE op.does = "track_resize" -> Trimmed(s, k, op.from, op.to)
                                  [] op.does = "track_move" -> Carried(s, k, to + 1)
                                  [] OTHER -> s
    BY Zenon DEF TrackEdit, Trimmed
  <1>6. to = op.to
    <2>1. op.to \in Int /\ n - 1 \in Int /\ op.to <= n - 1 BY <1>1
    <2> HIDE DEF n
    <2>2. to = IF op.to <= n - 1 THEN op.to ELSE n - 1 BY <2>1, MinOfTwo
    <2> QED BY <2>1, <2>2
  <1> HIDE DEF k, to
  <1>7. to + 1 = j BY <1>6
  <1>8. TrackEdit(s, op) = Carried(s, k, to + 1) BY <1>3, <1>4, <1>5
  <1> QED BY Zenon, <1>3, <1>7, <1>8

\* The bounds of a region do not change the order.
LEMMA OrderSame ==
    ASSUME NEW rs, NEW new, DOMAIN new = DOMAIN rs, \A r \in DOMAIN rs : new[r].index = rs[r].index
    PROVE  Order(new) = Order(rs)
  <1>1. ASSUME NEW r \in DOMAIN rs
        PROVE  {q \in DOMAIN new : new[q].index < new[r].index}
                 = {q \in DOMAIN rs : rs[q].index < rs[r].index}
    <2>1. \A q \in DOMAIN rs : new[q].index < new[r].index <=> rs[q].index < rs[r].index BY Zenon
    <2> QED BY Zenon, <2>1
  <1> DEFINE Before(r) == Cardinality({q \in DOMAIN rs : rs[q].index < rs[r].index})
             After(r) == Cardinality({q \in DOMAIN new : new[q].index < new[r].index})
  <1>2. \A r \in DOMAIN rs : After(r) = Before(r) BY Zenon, <1>1
  <1> HIDE DEF Before, After
  <1>3. \A i : (CHOOSE r \in DOMAIN new : After(r) = i - 1) = CHOOSE r \in DOMAIN rs : Before(r) = i - 1
    <2> TAKE i
    <2>1. \A r : (r \in DOMAIN new /\ After(r) = i - 1) <=> (r \in DOMAIN rs /\ Before(r) = i - 1)
      BY Zenon, <1>2
    <2> QED BY <2>1
  <1>4. Order(new) = [i \in 1 .. Cardinality(DOMAIN new) |-> CHOOSE r \in DOMAIN new : After(r) = i - 1]
    BY Zenon DEF Order, After
  <1>5. Order(rs) = [i \in 1 .. Cardinality(DOMAIN rs) |-> CHOOSE r \in DOMAIN rs : Before(r) = i - 1]
    BY Zenon DEF Order, Before
  <1> QED BY Zenon, <1>3, <1>4, <1>5

\* A region with other bounds is a clip that is trimmed.
LEMMA ResizedBase ==
    ASSUME NEW rs, Arranged(rs), NEW i \in 1 .. Len(Base(rs)), NEW a \in Nat, NEW b \in Nat,
           NEW r, r = Base(rs)[i].region, Arranged(Resized(rs, r, a, b))
    PROVE  Base(Resized(rs, r, a, b)) = Trimmed(Base(rs), i, a, b)
  <1> DEFINE new == Resized(rs, r, a, b)
             order == Order(rs)
             base == Base(rs)
             after == Base(new)
             n == Len(order)
             out == Trimmed(base, i, a, b)
  <1>1. /\ base \in Lineups(rs) /\ Len(base) = n
        /\ \A k \in 1 .. n : base[k] = [region |-> order[k], from |-> rs[order[k]].start,
                                        to |-> rs[order[k]].end]
    BY BaseLineup
  <1>2. /\ order \in Seq(DOMAIN rs) /\ \A k, m \in 1 .. n : order[k] = order[m] => k = m
    BY OrderOnto
  <1>3. n \in Nat /\ i \in 1 .. n /\ r = order[i] /\ r \in DOMAIN rs /\ base[i].region = order[i]
    <2> HIDE DEF order, base
    <2>1. n \in Nat /\ i \in 1 .. n BY <1>1, <1>2 DEF base
    <2>2. base[i].region = order[i]
      <3> HIDE DEF n
      <3>1. base[i] = [region |-> order[i], from |-> rs[order[i]].start, to |-> rs[order[i]].end]
        BY <1>1, <2>1
      <3> QED BY <3>1
    <2> QED BY <1>2, <2>1, <2>2 DEF base
  <1>4. /\ DOMAIN new = DOMAIN rs /\ \A x \in DOMAIN rs : new[x].index = rs[x].index
        /\ new[r].start = a /\ new[r].end = b
        /\ \A x \in DOMAIN rs : x # r => new[x].start = rs[x].start /\ new[x].end = rs[x].end
    <2>0. rs \in [DOMAIN rs -> Region] BY DEF Arranged, IsArrangement
    <2>1. rs[r] \in Region BY <1>3, <2>0
    <2> DEFINE c == rs[r]
               d == [c EXCEPT !.start = a]
               e == [d EXCEPT !.end = b]
    <2>2. new = [rs EXCEPT ![r] = [rs[r] EXCEPT !.start = a, !.end = b]] BY Zenon DEF Resized
    <2>3. [rs[r] EXCEPT !.start = a, !.end = b] = e BY Zenon
    <2>4. d.start = a /\ d.index = c.index /\ d = [start |-> a, end |-> c.end, index |-> c.index]
      <3> HIDE DEF c
      <3> QED BY <2>1 DEF Region, c
    <2> HIDE DEF d
    <2>5. e.start = a /\ e.index = c.index /\ e.end = b BY <2>4
    <2> HIDE DEF e
    <2>6. new = [rs EXCEPT ![r] = e] BY Zenon, <2>2, <2>3
    <2> HIDE DEF new
    <2>7. DOMAIN new = DOMAIN rs /\ new[r] = e /\ \A x \in DOMAIN rs : x # r => new[x] = rs[x]
      BY <1>3, <2>0, <2>6
    <2> QED BY <2>5, <2>7 DEF c
  <1>5. Order(new) = order
    <2> HIDE DEF new, order
    <2> QED BY Zenon, <1>4, OrderSame DEF order
  <1>6. Arranged(new) OBVIOUS
  <1> HIDE DEF new
  <1>7. /\ after \in Lineups(new) /\ Len(after) = n
        /\ \A k \in 1 .. n : after[k] = [region |-> order[k], from |-> new[order[k]].start,
                                         to |-> new[order[k]].end]
    <2>1. /\ after \in Lineups(new) /\ Len(after) = Len(Order(new))
          /\ \A k \in 1 .. Len(Order(new)) :
                after[k] = [region |-> Order(new)[k], from |-> new[Order(new)[k]].start,
                            to |-> new[Order(new)[k]].end]
      BY <1>6, BaseLineup
    <2> HIDE DEF after, order
    <2> QED BY <1>5, <2>1
  <1> HIDE DEF after, base, order
  <1>8. base \in Seq(Clips(rs)) /\ i \in 1 .. Len(base) BY <1>1, <1>3 DEF Lineups
  <1>9. /\ out \in Seq(Clips(rs)) /\ Len(out) = Len(base)
        /\ out[i].region = base[i].region /\ out[i].from = a /\ out[i].to = b
        /\ \A j \in 1 .. Len(base) : j # i => out[j] = base[j]
    BY <1>8, ClipTrimmed
  <1> HIDE DEF out
  <1>10. ASSUME NEW k \in 1 .. n PROVE out[k] = after[k]
    <2>1. order[k] \in DOMAIN rs BY <1>2, <1>3
    <2>2. CASE k = i
      <3>1. out[k] \in Clips(rs) BY <1>1, <1>9
      <3>2. out[k].region = order[k] /\ out[k].from = a /\ out[k].to = b BY <1>3, <1>9, <2>2
      <3>3. out[k] = [region |-> order[k], from |-> a, to |-> b] BY <3>1, <3>2 DEF Clips
      <3> QED BY <1>3, <1>4, <1>7, <2>2, <3>3
    <2>3. CASE k # i
      <3>1. order[k] # r BY <1>2, <1>3, <2>3
      <3>2. out[k] = base[k] BY <1>1, <1>9, <2>3
      <3>3. new[order[k]].start = rs[order[k]].start /\ new[order[k]].end = rs[order[k]].end
        BY <1>4, <2>1, <3>1
      <3> QED BY <1>1, <1>7, <3>2, <3>3
    <2> QED BY <2>2, <2>3
  <1>11. DOMAIN out = 1 .. n /\ DOMAIN after = 1 .. n BY <1>1, <1>7, <1>9 DEF Lineups
  <1>12. out = [k \in 1 .. n |-> out[k]] /\ after = [k \in 1 .. n |-> after[k]]
    BY <1>7, <1>9, <1>11 DEF Lineups
  <1> QED BY <1>10, <1>12 DEF out, after, new, base

\* The regions before a region, without another one of them.
LEMMA OthersCounted ==
    ASSUME NEW rs, Arranged(rs), NEW r \in DOMAIN rs, NEW x \in DOMAIN rs, x # r
    PROVE  OthersBefore(rs, r, x)
             = IF rs[r].index < rs[x].index THEN rs[x].index - 1 ELSE rs[x].index
  <1> DEFINE D == DOMAIN rs
             A == {q \in D : rs[q].index < rs[x].index}
             S == {q \in D \ {r} : rs[q].index < rs[x].index}
  <1>1. IsArrangement(rs) /\ Compact(rs) BY DEF Arranged
  <1>2. OthersBefore(rs, r, x) = Cardinality(S) BY Zenon DEF OthersBefore
  <1>3. Cardinality(A) = rs[x].index BY <1>1, CompactCounts
  <1>4. IsFiniteSet(D) /\ S \in SUBSET D /\ r \notin S BY <1>1 DEF IsArrangement
  <1>5. rs[x].index \in Nat BY <1>1 DEF IsArrangement, Region
  <1>6. CASE rs[r].index < rs[x].index
    <2>1. A = S \cup {r} BY <1>6
    <2> HIDE DEF S, A, D
    <2>2. Cardinality(S \cup {r}) = Cardinality(S) + 1 /\ Cardinality(S) \in Nat
      BY <1>4, FS_Subset, FS_AddElement, FS_CardinalityType
    <2> QED BY <1>2, <1>3, <1>5, <1>6, <2>1, <2>2
  <1>7. CASE ~(rs[r].index < rs[x].index)
    <2>1. A = S BY <1>7
    <2> HIDE DEF S, A
    <2> QED BY <1>2, <1>3, <1>7, <2>1
  <1> QED BY <1>6, <1>7

\* A region that is moved is carried among the others.
LEMMA MovedOrder ==
    ASSUME NEW rs, Arranged(rs), NEW i \in 1 .. Len(Order(rs)), NEW j \in 1 .. Len(Order(rs)),
           NEW r, r = Order(rs)[i]
    PROVE  /\ Order(Moved(rs, r, j - 1)) = Carried(Order(rs), i, j)
           /\ SameBounds(rs, Moved(rs, r, j - 1)) /\ Arranged(Moved(rs, r, j - 1))
  <1> DEFINE D == DOMAIN rs
             n == Cardinality(D)
             order == Order(rs)
             new == Moved(rs, r, j - 1)
             out == Carried(order, i, j)
             B(x) == OthersBefore(rs, r, x)
  <1>1. IsArrangement(rs) /\ Compact(rs) BY DEF Arranged
  <1>2. /\ n \in Nat /\ order \in Seq(D) /\ Len(order) = n /\ DOMAIN order = 1 .. n
        /\ \A k \in 1 .. n : order[k] \in D /\ rs[order[k]].index = k - 1
        /\ \A k, m \in 1 .. n : order[k] = order[m] => k = m
    <2>1. /\ order \in Seq(D) /\ Len(order) = n
          /\ \A k, m \in 1 .. Len(order) : order[k] = order[m] => k = m
      BY OrderOnto
    <2>2. n \in Nat /\ \A k \in 1 .. n : rs[order[k]].index = k - 1 BY OrderPlaces
    <2> HIDE DEF order, n, D
    <2>3. DOMAIN order = 1 .. Len(order) /\ \A k \in 1 .. Len(order) : order[k] \in D BY <2>1
    <2> QED BY Zenon, <2>1, <2>2, <2>3
  <1>3. i \in 1 .. n /\ j \in 1 .. n
    <2> HIDE DEF n
    <2> QED BY <1>2
  <1>4. r \in D /\ j - 1 \in Nat
    <2> HIDE DEF n, order
    <2> QED BY <1>2, <1>3 DEF order
  <1>5. Arranged(new) /\ SameBounds(rs, new)
    <2>1. \A x, y \in D \ {r} : rs[x].index = rs[y].index => x = y BY <1>1 DEF Compact
    <2> HIDE DEF new
    <2>2. IsArrangement(new) /\ Compact(new) /\ SameBounds(rs, new)
      BY <1>1, <1>4, <2>1, MovedCompact DEF new
    <2> QED BY <2>2 DEF Arranged
  <1>6. new[r].index = j - 1 /\ \A x \in D \ {r} : new[x].index = IF B(x) < j - 1 THEN B(x) ELSE B(x) + 1
    <2> DEFINE target == j - 1
               place == IF target < n THEN target ELSE n - 1
    <2>1. /\ new[r].index = place
          /\ \A x \in D \ {r} : new[x].index = IF B(x) < place THEN B(x) ELSE B(x) + 1
      <3>1. target \in Nat BY <1>4
      <3> HIDE DEF target
      <3> QED BY <1>1, <1>4, <3>1, MovedIndexes DEF target
    <2>2. place = j - 1
      <3> HIDE DEF n
      <3> QED BY <1>2, <1>3
    <2> HIDE DEF new, B, place
    <2> QED BY Zenon, <2>1, <2>2
  <1>7. /\ out \in Seq(D) /\ Len(out) = n
        /\ \A k \in 1 .. n : CarriedFrom(i, j, k) \in 1 .. n /\ out[k] = order[CarriedFrom(i, j, k)]
    <2> HIDE DEF order, D, n, out
    <2>0. order \in Seq(D) /\ i \in 1 .. Len(order) /\ j \in 1 .. Len(order) BY <1>2, <1>3
    <2>1. Carried(order, i, j) \in Seq(D) BY <2>0, CarriedIs
    <2>2. Len(Carried(order, i, j)) = Len(order) BY <2>0, CarriedIs
    <2>3. \A k \in 1 .. Len(order) : CarriedFrom(i, j, k) \in 1 .. Len(order) BY <2>0, CarriedIs
    <2>4. \A k \in 1 .. Len(order) : Carried(order, i, j)[k] = order[CarriedFrom(i, j, k)]
      BY <2>0, CarriedIs
    <2> QED BY Zenon, <1>2, <2>1, <2>2, <2>3, <2>4 DEF out
  <1> HIDE DEF out
  <1>8. ASSUME NEW k \in 1 .. n PROVE out[k] \in D /\ new[out[k]].index = k - 1
    <2> DEFINE m == CarriedFrom(i, j, k)
               x == out[k]
    <2>1. m \in 1 .. n /\ x = order[m] BY <1>7
    <2>2. x \in D /\ rs[x].index = m - 1
      <3> HIDE DEF m, x, n, order, D
      <3> QED BY <1>2, <2>1
    <2>3. CASE k = j
      <3>1. m = i BY <2>3 DEF CarriedFrom
      <3> HIDE DEF m, new
      <3>2. x = r BY <2>1, <3>1
      <3> HIDE DEF x, D, n
      <3> QED BY <1>6, <2>2, <2>3, <3>2 DEF x
    <2>4. CASE k # j
      <3> DEFINE before == B(x)
      <3>1. m # i /\ m \in Int
        <4>1. n \in Nat /\ i \in 1 .. n /\ j \in 1 .. n BY <1>2, <1>3
        <4> HIDE DEF n
        <4> QED BY <2>1, <2>4, <4>1 DEF CarriedFrom
      <3>2. x # r
        <4> HIDE DEF m, x, n, order
        <4> QED BY <1>2, <1>3, <2>1, <3>1 DEF order
      <3>3. rs[r].index = i - 1
        <4> HIDE DEF n, order
        <4> QED BY <1>2, <1>3 DEF order
      <3>4. before = IF rs[r].index < rs[x].index THEN rs[x].index - 1 ELSE rs[x].index
        <4> HIDE DEF x, D
        <4> QED BY <1>4, <2>2, <3>2, OthersCounted DEF D
      <3>5. before = IF i - 1 < m - 1 THEN m - 2 ELSE m - 1
        <4> HIDE DEF before, m, x
        <4> QED BY <2>2, <3>1, <3>3, <3>4
      <3>6. before \in Int
        <4> HIDE DEF before, m
        <4> QED BY <3>1, <3>5
      <3>7. (IF before < j - 1 THEN before ELSE before + 1) = k - 1
        <4> DEFINE w == m
        <4>1. n \in Nat /\ i \in 1 .. n /\ j \in 1 .. n /\ k \in 1 .. n BY <1>2, <1>3
        <4>2. w = CarriedFrom(i, j, k) /\ w \in Int /\ before = IF i - 1 < w - 1 THEN w - 2 ELSE w - 1
          BY <3>1, <3>5
        <4> HIDE DEF n, before, w
        <4> QED BY <2>4, <3>6, <4>1, <4>2 DEF CarriedFrom
      <3>8. new[x].index = IF before < j - 1 THEN before ELSE before + 1
        <4> HIDE DEF new, x, D
        <4> QED BY Zenon, <1>6, <2>2, <3>2
      <3> HIDE DEF before, new, x, m
      <3> QED BY <2>2, <3>7, <3>8 DEF x
    <2> QED BY <2>3, <2>4
  <1>9. DOMAIN new = D BY <1>5 DEF SameBounds
  <1>10. /\ Order(new) \in [1 .. n -> D]
         /\ \A q \in D : new[q].index + 1 \in 1 .. n /\ Order(new)[new[q].index + 1] = q
    <2> HIDE DEF new, n, D
    <2>1. /\ Order(new) \in [1 .. Cardinality(DOMAIN new) -> DOMAIN new]
          /\ \A q \in DOMAIN new : /\ new[q].index + 1 \in 1 .. Cardinality(DOMAIN new)
                                   /\ Order(new)[new[q].index + 1] = q
      BY <1>5, OrderPlaces
    <2> QED BY Zenon, <1>9, <2>1 DEF n
  <1>11. ASSUME NEW k \in 1 .. n PROVE Order(new)[k] = out[k]
    <2> HIDE DEF new, n, D
    <2>1. k - 1 + 1 = k OBVIOUS
    <2>2. Order(new)[new[out[k]].index + 1] = out[k] BY <1>8, <1>10
    <2>3. new[out[k]].index = k - 1 BY <1>8
    <2> QED BY Zenon, <2>1, <2>2, <2>3
  <1>12. DOMAIN out = 1 .. n /\ DOMAIN Order(new) = 1 .. n
    <2> HIDE DEF new, n, D
    <2> QED BY <1>7, <1>10
  <1>13. Order(new) = out
    <2> HIDE DEF new, n, D
    <2>1. out = [k \in 1 .. n |-> out[k]] BY <1>7, <1>12
    <2>2. Order(new) = [k \in 1 .. n |-> Order(new)[k]] BY <1>10
    <2> QED BY Zenon, <1>11, <2>1, <2>2
  <1> QED BY <1>5, <1>13 DEF out

\* The clips of a region that is moved are carried as it is.
LEMMA MovedBase ==
    ASSUME NEW rs, Arranged(rs), NEW i \in 1 .. Len(Base(rs)), NEW j \in 1 .. Len(Base(rs)),
           NEW r, r = Base(rs)[i].region
    PROVE  Base(Moved(rs, r, j - 1)) = Carried(Base(rs), i, j)
  <1> DEFINE order == Order(rs)
             base == Base(rs)
             n == Len(order)
             new == Moved(rs, r, j - 1)
             moved == Order(new)
             after == Base(new)
             out == Carried(base, i, j)
  <1>1. /\ base \in Lineups(rs) /\ Len(base) = n
        /\ \A k \in 1 .. n : base[k] = [region |-> order[k], from |-> rs[order[k]].start,
                                        to |-> rs[order[k]].end]
    BY BaseLineup
  <1>2. order \in Seq(DOMAIN rs) /\ n \in Nat
    <2>1. order \in Seq(DOMAIN rs) BY OrderOnto
    <2> HIDE DEF order
    <2> QED BY <2>1
  <1>3. i \in 1 .. n /\ j \in 1 .. n
    <2> HIDE DEF n, base
    <2> QED BY <1>1 DEF base
  <1>4. r = order[i]
    <2>1. base[i] = [region |-> order[i], from |-> rs[order[i]].start, to |-> rs[order[i]].end]
      <3> HIDE DEF n, base, order
      <3> QED BY <1>1, <1>3
    <2> HIDE DEF base, order
    <2>2. base[i].region = order[i] BY <2>1
    <2> QED BY <2>2 DEF base
  <1>5. moved = Carried(order, i, j) /\ SameBounds(rs, new) /\ Arranged(new)
    <2> HIDE DEF new
    <2>1. i \in 1 .. Len(Order(rs)) /\ j \in 1 .. Len(Order(rs)) /\ r = Order(rs)[i] BY <1>3, <1>4
    <2> QED BY <2>1, MovedOrder DEF new
  <1>6. /\ moved \in Seq(DOMAIN rs) /\ Len(moved) = n
        /\ \A k \in 1 .. n : CarriedFrom(i, j, k) \in 1 .. n /\ moved[k] = order[CarriedFrom(i, j, k)]
    <2> DEFINE D == DOMAIN rs
    <2>0. order \in Seq(D) /\ i \in 1 .. Len(order) /\ j \in 1 .. Len(order) BY <1>2, <1>3
    <2> HIDE DEF order, D, moved
    <2>1. Carried(order, i, j) \in Seq(D) BY <2>0, CarriedIs
    <2>2. Len(Carried(order, i, j)) = Len(order) BY <2>0, CarriedIs
    <2>3. \A k \in 1 .. Len(order) : CarriedFrom(i, j, k) \in 1 .. Len(order) BY <2>0, CarriedIs
    <2>4. \A k \in 1 .. Len(order) : Carried(order, i, j)[k] = order[CarriedFrom(i, j, k)]
      BY <2>0, CarriedIs
    <2> QED BY Zenon, <1>5, <2>1, <2>2, <2>3, <2>4 DEF D
  <1>7. /\ out \in Seq(Clips(rs)) /\ Len(out) = n
        /\ \A k \in 1 .. n : out[k] = base[CarriedFrom(i, j, k)]
    <2> DEFINE K == Clips(rs)
    <2>0. base \in Seq(K) /\ i \in 1 .. Len(base) /\ j \in 1 .. Len(base) /\ Len(base) = n
      BY <1>1, <1>3 DEF Lineups
    <2> HIDE DEF base, K, n, out
    <2>1. Carried(base, i, j) \in Seq(K) BY <2>0, CarriedIs
    <2>2. Len(Carried(base, i, j)) = Len(base) BY <2>0, CarriedIs
    <2>4. \A k \in 1 .. Len(base) : Carried(base, i, j)[k] = base[CarriedFrom(i, j, k)]
      BY <2>0, CarriedIs
    <2> QED BY Zenon, <2>0, <2>1, <2>2, <2>4 DEF K, out
  <1>8. /\ after \in Lineups(new) /\ Len(after) = n
        /\ \A k \in 1 .. n : after[k] = [region |-> moved[k], from |-> new[moved[k]].start,
                                         to |-> new[moved[k]].end]
    <2>1. /\ after \in Lineups(new) /\ Len(after) = Len(moved)
          /\ \A k \in 1 .. Len(moved) :
                after[k] = [region |-> moved[k], from |-> new[moved[k]].start, to |-> new[moved[k]].end]
      <3> HIDE DEF new
      <3> QED BY <1>5, BaseLineup
    <2> HIDE DEF after, moved, new, n
    <2> QED BY <1>6, <2>1
  <1> HIDE DEF out, after, moved, new, base, order
  <1>9. ASSUME NEW k \in 1 .. n PROVE out[k] = after[k]
    <2> DEFINE m == CarriedFrom(i, j, k)
    <2>1. m \in 1 .. n /\ moved[k] = order[m] /\ out[k] = base[m] BY <1>6, <1>7
    <2> HIDE DEF m
    <2>2. order[m] \in DOMAIN rs BY <1>2, <2>1
    <2>3. new[order[m]].start = rs[order[m]].start /\ new[order[m]].end = rs[order[m]].end
      BY <1>5, <2>2 DEF SameBounds
    <2>4. base[m] = [region |-> order[m], from |-> rs[order[m]].start, to |-> rs[order[m]].end]
      BY <1>1, <2>1
    <2>5. after[k] = [region |-> order[m], from |-> new[order[m]].start, to |-> new[order[m]].end]
      BY Zenon, <1>8, <2>1
    <2> QED BY Zenon, <2>1, <2>3, <2>4, <2>5
  <1>10. DOMAIN out = 1 .. n /\ DOMAIN after = 1 .. n BY <1>7, <1>8 DEF Lineups
  <1>11. out = [k \in 1 .. n |-> out[k]] /\ after = [k \in 1 .. n |-> after[k]]
    BY <1>7, <1>8, <1>10 DEF Lineups
  <1>12. out = after BY Zenon, <1>9, <1>11
  <1> QED BY <1>12 DEF out, after, new, base

\* The fields of a drag.
LEMMA DragFields ==
    ASSUME NEW does, NEW t, NEW r, NEW from, NEW to
    PROVE  /\ Op(does, t, r, from, to).does = does /\ Op(does, t, r, from, to).track = t
           /\ Op(does, t, r, from, to).region = r /\ Op(does, t, r, from, to).from = from
           /\ Op(does, t, r, from, to).to = to
  BY DEF Op

\* Without fades, a track is drawn as the edits of it leave it.
LEMMA DrawnPlain ==
    ASSUME NEW copy, CopyOK(copy), LongEnough(copy.regions),
           \A i \in DOMAIN copy.mix : copy.mix[i].does # "fade", NEW t \in Lanes
    PROVE  /\ Drawn(copy)[t] = TrackRegions({t}, copy)
           /\ Drawn(copy)[t] = EditedBy(Base(copy.regions), {t}, copy.mix)
           /\ TrackRegions({t}, copy) \in Lineups(copy.regions)
           /\ Drawable(TrackRegions({t}, copy))
  <1>1. Drawn(copy)[t] = Built(t, copy) BY DEF Drawn
  <1>2. Built(t, copy) = TrackRegions({t}, copy) BY BuiltPlain
  <1>3. TrackRegions({t}, copy) = EditedBy(Base(copy.regions), {t}, copy.mix) BY TrackRegionsEdited
  <1>4. TrackRegions({t}, copy) \in Lineups(copy.regions) /\ Drawable(TrackRegions({t}, copy))
    BY TrackRegionsLineup DEF CopyOK
  <1> QED BY Zenon, <1>1, <1>2, <1>3, <1>4

\* What is drawn when the server has done what a drag is taken for.
LEMMA OutcomeDrawn ==
    ASSUME ServerInv, alone, NEW op \in PageOps,
           op.does \in {"resize", "track_resize", "move", "track_move"},
           \A i \in DOMAIN mix : mix[i].does # "fade", NEW rs \in Results(op), NEW t \in Lanes
    PROVE  /\ Arranged(rs)
           /\ Drawn([regions |-> rs, mix |-> Remembered(op)])[t] = EditedBy(Base(rs), {t}, Remembered(op))
  <1> DEFINE copy == [regions |-> rs, mix |-> Remembered(op)]
  <1>1. /\ Arranged(rs) /\ \A r \in DOMAIN rs : Audible(rs[r])
        /\ LongEnough(rs) /\ EditsOK(Remembered(op))
    <2>1. op.does # "nothing" /\ SplitsInside(op, regions) BY DEF SplitsInside
    <2> QED BY <2>1, Served
  <1>2. CopyOK(copy) BY <1>1, CopyMade
  <1>3. \A i \in DOMAIN Remembered(op) : Remembered(op)[i].does # "fade"
    <2>1. CASE op.track = "both" BY <2>1 DEF Remembered
    <2>2. CASE op.track # "both"
      <3> DEFINE more == Append(mix, op)
      <3>1. mix \in Seq(PageOps) BY DEF ServerInv, CopyOK, Copy, EditsOK
      <3>2. /\ DOMAIN more = 1 .. Len(mix) + 1 /\ more[Len(mix) + 1] = op
            /\ \A i \in 1 .. Len(mix) : more[i] = mix[i] /\ i \in DOMAIN mix
        BY <3>1
      <3> HIDE DEF more
      <3>3. ASSUME NEW i \in DOMAIN more PROVE more[i].does # "fade"
        <4>1. CASE i = Len(mix) + 1 BY <3>2, <4>1
        <4>2. CASE i # Len(mix) + 1
          <5>1. i \in 1 .. Len(mix) BY <3>1, <3>2, <4>2
          <5> QED BY <3>2, <5>1
        <4> QED BY <4>1, <4>2
      <3> QED BY <2>2, <3>3 DEF Remembered, more
    <2> QED BY <2>1, <2>2
  <1>4. copy.regions = rs /\ copy.mix = Remembered(op) OBVIOUS
  <1> HIDE DEF copy
  <1>5. Drawn(copy)[t] = EditedBy(Base(copy.regions), {t}, copy.mix)
    <2>1. LongEnough(copy.regions) /\ \A i \in DOMAIN copy.mix : copy.mix[i].does # "fade"
      BY <1>1, <1>3, <1>4
    <2> QED BY <1>2, <2>1, DrawnPlain
  <1> QED BY Zenon, <1>1, <1>4, <1>5 DEF copy

\* The page asks for one thing at a time, and nothing was faded.
Unfaded == ServerInv /\ alone /\ \A i \in DOMAIN mix : mix[i].does # "fade"

\* What is drawn of a track when the server has done an operation.
Outcomes(op, t) ==
    {Drawn([regions |-> rs, mix |-> Remembered(op)])[t] : rs \in Results(op)}

\* What is drawn of a track when a drag can give one arrangement only.
LEMMA OneOutcome ==
    ASSUME Unfaded, NEW op \in PageOps,
           op.does \in {"resize", "track_resize", "move", "track_move"}, NEW t \in Lanes,
           NEW new \in Results(op), \A rs \in Results(op) : rs = new
    PROVE  Outcomes(op, t) = {EditedBy(Base(new), {t}, Remembered(op))}
  <1> DEFINE Show(rs) == Drawn([regions |-> rs, mix |-> Remembered(op)])[t]
  <1>1. Show(new) = EditedBy(Base(new), {t}, Remembered(op)) BY OutcomeDrawn DEF Unfaded
  <1> HIDE DEF Show
  <1>2. {Show(rs) : rs \in Results(op)} = {Show(new)} BY Zenon
  <1> QED BY Zenon, <1>1, <1>2 DEF Show, Outcomes

\* An edit of one track changes the clips of the track.
LEMMA TrackOutcome ==
    ASSUME Unfaded, NEW t \in Lanes, NEW op \in PageOps, op.track = t,
           op.does \in {"track_resize", "track_move"},
           regions \in Results(op), \A rs \in Results(op) : rs = regions
    PROVE  Outcomes(op, t) = {TrackEdit(TrackRegions({t}, Copy), op)}
  <1>1. mix \in Seq(PageOps) BY DEF Unfaded, ServerInv, CopyOK, Copy, EditsOK
  <1>2. Remembered(op) = Append(mix, op)
    <2>1. op.track # "both" BY DEF Lanes
    <2> QED BY Zenon, <2>1 DEF Remembered
  <1>3. EditedBy(Base(regions), {t}, Append(mix, op))
          = Edited({t}, EditedBy(Base(regions), {t}, mix), op)
    BY <1>1, EditedMore
  <1>4. Edited({t}, EditedBy(Base(regions), {t}, mix), op) = TrackEdit(EditedBy(Base(regions), {t}, mix), op)
    <2>1. op.track \in {t} OBVIOUS
    <2> QED BY Zenon, <2>1 DEF Edited
  <1>5. TrackRegions({t}, Copy) = EditedBy(Base(regions), {t}, mix)
    <2>1. Copy.regions = regions /\ Copy.mix = mix BY DEF Copy
    <2>2. TrackRegions({t}, Copy) = EditedBy(Base(Copy.regions), {t}, Copy.mix) BY TrackRegionsEdited
    <2> QED BY Zenon, <2>1, <2>2
  <1>6. EditedBy(Base(regions), {t}, Remembered(op)) = TrackEdit(TrackRegions({t}, Copy), op)
    BY Zenon, <1>2, <1>3, <1>4, <1>5
  <1>7. op.does \in {"resize", "track_resize", "move", "track_move"} OBVIOUS
  <1>8. Outcomes(op, t) = {EditedBy(Base(regions), {t}, Remembered(op))} BY Zenon, <1>7, OneOutcome
  <1> QED BY Zenon, <1>6, <1>8

\* An edit of both is not remembered: the regions have changed.
LEMMA BothOutcome ==
    ASSUME Unfaded, NEW t \in Lanes, NEW op \in PageOps, op.track = "both",
           op.does \in {"resize", "move"}, mix = <<>>,
           NEW new \in Results(op), \A rs \in Results(op) : rs = new
    PROVE  Outcomes(op, t) = {Base(new)}
  <1>1. Remembered(op) = <<>> BY DEF Remembered
  <1>2. EditedBy(Base(new), {t}, Remembered(op)) = Base(new) BY Zenon, <1>1, EditedNone
  <1>3. op.does \in {"resize", "track_resize", "move", "track_move"} OBVIOUS
  <1>4. Outcomes(op, t) = {EditedBy(Base(new), {t}, Remembered(op))} BY Zenon, <1>3, OneOutcome
  <1> QED BY Zenon, <1>2, <1>4

\* The clips before a drag, in linked mode the regions.
Drags(t, s) == /\ t \in Lanes /\ s = TrackRegions({t}, Copy)
               /\ Unfaded /\ (linked => mix = <<>>)
TrimAsked(t, s, i, a, b, op) ==
    /\ Drags(t, s) /\ i \in 1 .. Len(s) /\ a \in Nat /\ b \in Nat /\ a + MinRange <= b /\ b <= Length
    /\ op = TrimOp(linked, t, s[i].region, a, b) /\ ~(locked /\ op.does \in Advanced)
ShiftAsked(t, s, i, j, op) ==
    /\ Drags(t, s) /\ i \in 1 .. Len(s) /\ j \in 1 .. Len(s)
    /\ op = MoveOp(linked, t, s[i].region, j)

\* The trim that is asked for gives the clips that were trimmed.
LEMMA TrimKept ==
    ASSUME NEW t, NEW s, NEW i, NEW a, NEW b, NEW op, TrimAsked(t, s, i, a, b, op)
    PROVE  Outcomes(op, t) = {Trimmed(s, i, a, b)}
  <1> SUFFICES ASSUME Unfaded, linked => mix = <<>>, t \in Lanes, s = TrackRegions({t}, Copy),
                      i \in 1 .. Len(s), a \in Nat, b \in Nat, a + MinRange <= b, b <= Length,
                      op = TrimOp(linked, t, s[i].region, a, b), ~(locked /\ op.does \in Advanced)
               PROVE  Outcomes(op, t) = {Trimmed(s, i, a, b)}
    BY Zenon DEF TrimAsked, Drags
  <1> DEFINE clips == Trimmed(s, i, a, b)
             r == s[i].region
  <1>1. CopyOK(Copy) /\ Copy.regions = regions /\ Copy.mix = mix BY DEF Unfaded, ServerInv, Copy
  <1>2. s \in Lineups(regions) BY <1>1, TrackRegionsLineup DEF CopyOK
  <1>3. Arranged(regions) BY <1>1 DEF CopyOK
  <1>4. r \in DOMAIN regions /\ r \in Nat
    <2>1. s[i] \in Clips(regions) BY <1>2 DEF Lineups
    <2> QED BY <1>3, <2>1 DEF Clips, Arranged, IsArrangement
  <1>5. MinRange \in Nat /\ Length \in Nat BY ArrangementAssumption
  <1>6. ~(b - a < MinRange) /\ ~(b > Length) BY <1>5
  <1> HIDE DEF r
  <1>7. CASE ~linked
    <2>1. /\ op.does = "track_resize" /\ op.track = t /\ op.region = r /\ op.from = a /\ op.to = b
      <3>1. op = Op("track_resize", t, r, a, b) BY <1>7 DEF r, TrimOp, MoveOp
      <3> QED BY <3>1, DragFields
    <2>2. op \in PageOps
      <3>1. op = Op("track_resize", t, r, a, b) BY <1>7 DEF r, TrimOp, MoveOp
      <3> QED BY <1>4, <3>1 DEF Op, PageOps
    <2>3. Results(op) = {regions} BY <1>4, <1>6, <2>1 DEF Results
    <2>4. TrackEdit(s, op) = clips
      <3>1. op.region = s[i].region BY <2>1 DEF r
      <3>2. TrackEdit(s, op) = Trimmed(s, i, op.from, op.to) BY <1>2, <2>1, <3>1, EditTrims
      <3> QED BY Zenon, <2>1, <3>2
    <2> HIDE DEF clips
    <2>5. op.does \in {"track_resize", "track_move"} BY <2>1
    <2>6. regions \in Results(op) /\ \A rs \in Results(op) : rs = regions BY <2>3
    <2>7. Outcomes(op, t) = {TrackEdit(TrackRegions({t}, Copy), op)}
      BY Zenon, <2>1, <2>2, <2>5, <2>6, TrackOutcome
    <2> QED BY Zenon, <2>4, <2>7 DEF clips
  <1>8. CASE linked
    <2>1. /\ op.does = "resize" /\ op.track = "both" /\ op.region = r /\ op.from = a /\ op.to = b
      <3>1. op = Op("resize", "both", r, a, b) BY <1>8 DEF r, TrimOp, MoveOp
      <3> QED BY <3>1, DragFields
    <2>2. op \in PageOps
      <3>1. op = Op("resize", "both", r, a, b) BY <1>8 DEF r, TrimOp, MoveOp
      <3> QED BY <1>4, <3>1 DEF Op, PageOps
    <2> DEFINE new == Resized(regions, r, a, b)
    <2>3. Results(op) = {new}
      <3>1. Results(op) = Applications(op, regions, nextId) BY <1>4, <2>1 DEF Results
      <3>2. Applications(op, regions, nextId) = {Resized(regions, op.region, op.from, op.to)}
        BY <1>4, <1>6, <2>1 DEF Applications
      <3> QED BY Zenon, <2>1, <3>1, <3>2
    <2>4. mix = <<>> BY <1>8
    <2>5. s = Base(regions)
      <3>1. s = EditedBy(Base(regions), {t}, mix)
        <4>1. TrackRegions({t}, Copy) = EditedBy(Base(Copy.regions), {t}, Copy.mix) BY TrackRegionsEdited
        <4> QED BY Zenon, <1>1, <4>1
      <3> QED BY Zenon, <2>4, <3>1, EditedNone
    <2>6. Base(new) = clips
      <3>0. Arranged(new)
        <4>1. op.does \in {"resize", "track_resize", "move", "track_move"} /\ new \in Results(op)
          BY <2>1, <2>3
        <4> HIDE DEF new
        <4> QED BY <2>2, <4>1, OutcomeDrawn DEF Unfaded
      <3>1. i \in 1 .. Len(Base(regions)) /\ r = Base(regions)[i].region BY <2>5 DEF r
      <3>2. Base(Resized(regions, r, a, b)) = Trimmed(Base(regions), i, a, b)
        BY <1>3, <3>0, <3>1, ResizedBase
      <3> QED BY Zenon, <2>5, <3>2
    <2> HIDE DEF clips, new
    <2>7. op.does \in {"resize", "move"} BY <2>1
    <2>8. new \in Results(op) /\ \A rs \in Results(op) : rs = new BY <2>3
    <2>9. Outcomes(op, t) = {Base(new)} BY Zenon, <2>1, <2>2, <2>4, <2>7, <2>8, BothOutcome
    <2> QED BY Zenon, <2>6, <2>9 DEF clips
  <1> QED BY <1>7, <1>8

\* The move that is asked for gives the clips that were carried.
LEMMA MoveKept ==
    ASSUME NEW t, NEW s, NEW i, NEW j, NEW op, ShiftAsked(t, s, i, j, op)
    PROVE  Outcomes(op, t) = {Carried(s, i, j)}
  <1> SUFFICES ASSUME Unfaded, linked => mix = <<>>, t \in Lanes, s = TrackRegions({t}, Copy),
                      i \in 1 .. Len(s), j \in 1 .. Len(s), op = MoveOp(linked, t, s[i].region, j)
               PROVE  Outcomes(op, t) = {Carried(s, i, j)}
    BY Zenon DEF ShiftAsked, Drags
  <1> DEFINE clips == Carried(s, i, j)
             r == s[i].region
  <1>1. CopyOK(Copy) /\ Copy.regions = regions /\ Copy.mix = mix BY DEF Unfaded, ServerInv, Copy
  <1>2. s \in Lineups(regions) BY <1>1, TrackRegionsLineup DEF CopyOK
  <1>3. Arranged(regions) BY <1>1 DEF CopyOK
  <1>4. r \in DOMAIN regions /\ r \in Nat
    <2>1. s[i] \in Clips(regions) BY <1>2 DEF Lineups
    <2> QED BY <1>3, <2>1 DEF Clips, Arranged, IsArrangement
  <1>5. j - 1 \in Nat /\ 0 \in Nat OBVIOUS
  <1> HIDE DEF r
  <1>7. CASE ~linked
    <2>0. op = Op("track_move", t, r, 0, j - 1) BY <1>7 DEF r, TrimOp, MoveOp
    <2>1. /\ op.does = "track_move" /\ op.track = t /\ op.region = r /\ op.to = j - 1
      BY <2>0, DragFields
    <2>2. op \in PageOps BY <1>4, <1>5, <2>0 DEF Op, PageOps
    <2>3. Results(op) = {regions} BY <1>4, <2>1 DEF Results, Advanced
    <2>4. TrackEdit(s, op) = clips
      <3>1. op.region = s[i].region BY <2>1 DEF r
      <3> HIDE DEF clips
      <3> QED BY <1>2, <2>1, <3>1, EditCarries DEF clips
    <2> HIDE DEF clips
    <2>5. op.does \in {"track_resize", "track_move"} BY <2>1
    <2>6. regions \in Results(op) /\ \A rs \in Results(op) : rs = regions BY <2>3
    <2>7. Outcomes(op, t) = {TrackEdit(TrackRegions({t}, Copy), op)}
      BY Zenon, <2>1, <2>2, <2>5, <2>6, TrackOutcome
    <2> QED BY Zenon, <2>4, <2>7 DEF clips
  <1>8. CASE linked
    <2>0. op = Op("move", "both", r, 0, j - 1) BY <1>8 DEF r, TrimOp, MoveOp
    <2>1. op.does = "move" /\ op.track = "both" /\ op.region = r /\ op.to = j - 1
      BY <2>0, DragFields
    <2>2. op \in PageOps BY <1>4, <1>5, <2>0 DEF Op, PageOps
    <2> DEFINE new == Moved(regions, r, j - 1)
    <2>3. Results(op) = {new}
      <3>1. Results(op) = Applications(op, regions, nextId) BY <1>4, <2>1 DEF Results, Advanced
      <3>2. Applications(op, regions, nextId) = {Moved(regions, op.region, op.to)}
        BY <1>4, <2>1 DEF Applications
      <3> QED BY Zenon, <2>1, <3>1, <3>2
    <2>4. mix = <<>> BY <1>8
    <2>5. s = Base(regions)
      <3>1. s = EditedBy(Base(regions), {t}, mix)
        <4>1. TrackRegions({t}, Copy) = EditedBy(Base(Copy.regions), {t}, Copy.mix) BY TrackRegionsEdited
        <4> QED BY Zenon, <1>1, <4>1
      <3> QED BY Zenon, <2>4, <3>1, EditedNone
    <2>6. Base(new) = clips
      <3>1. /\ i \in 1 .. Len(Base(regions)) /\ j \in 1 .. Len(Base(regions))
            /\ r = Base(regions)[i].region
        BY <2>5 DEF r
      <3>2. Base(Moved(regions, r, j - 1)) = Carried(Base(regions), i, j) BY <1>3, <3>1, MovedBase
      <3> QED BY Zenon, <2>5, <3>2
    <2> HIDE DEF clips, new
    <2>7. op.does \in {"resize", "move"} BY <2>1
    <2>8. new \in Results(op) /\ \A rs \in Results(op) : rs = new BY <2>3
    <2>9. Outcomes(op, t) = {Base(new)} BY Zenon, <2>1, <2>2, <2>4, <2>7, <2>8, BothOutcome
    <2> QED BY Zenon, <2>6, <2>9 DEF clips
  <1> QED BY <1>7, <1>8

\* What can be told of the timeline before a drag.
LEMMA ToldDrawn ==
    ASSUME PageInv, NEW t \in Lanes, Told(t)
    PROVE  /\ Unfaded /\ page = Copy /\ (linked => mix = <<>>)
           /\ \A u \in Lanes : /\ shown[u] = TrackRegions({u}, page)
                               /\ TrackRegions({u}, page) \in Lineups(page.regions)
           /\ Drawable(shown[t]) /\ \A c : ~Faded(t, c, page)
           /\ linked => \A u \in Lanes : TrackRegions({u}, page) = TrackRegions({t}, page)
  <1>1. /\ page = Copy /\ shown = Drawn(page) /\ alone /\ \A i \in DOMAIN mix : mix[i].does # "fade"
        /\ linked => mix = <<>>
    BY DEF Told, UpToDate
  <1>2. ServerInv BY DEF PageInv
  <1>3. page.regions = regions /\ page.mix = mix BY <1>1 DEF Copy
  <1>4. Unfaded BY Zenon, <1>1, <1>2 DEF Unfaded
  <1>5. /\ CopyOK(page) /\ LongEnough(page.regions)
        /\ \A i \in DOMAIN page.mix : page.mix[i].does # "fade"
    <2>1. CopyOK(page) BY DEF PageInv, TimelineInv
    <2>2. LongEnough(page.regions)
      <3>1. LongEnough(regions) BY <1>1, <1>2 DEF ServerInv
      <3> QED BY Zenon, <1>3, <3>1
    <2> QED BY <1>1, <1>3, <2>1, <2>2
  <1>6. \A u \in Lanes : /\ Drawn(page)[u] = TrackRegions({u}, page)
                         /\ TrackRegions({u}, page) \in Lineups(page.regions)
                         /\ Drawable(TrackRegions({u}, page))
    BY <1>5, DrawnPlain
  <1>7. \A c : ~Faded(t, c, page) BY <1>5, BuiltPlain
  <1>8. ASSUME linked, NEW u \in Lanes PROVE TrackRegions({u}, page) = Base(page.regions)
    <2>1. page.mix = <<>> BY <1>1, <1>3, <1>8
    <2>2. TrackRegions({u}, page) = EditedBy(Base(page.regions), {u}, page.mix) BY TrackRegionsEdited
    <2> QED BY Zenon, <2>1, <2>2, EditedNone
  <1>9. linked => \A u \in Lanes : TrackRegions({u}, page) = TrackRegions({t}, page)
    BY Zenon, <1>8
  <1>10. Drawable(shown[t]) BY Zenon, <1>1, <1>6
  <1> QED BY Zenon, <1>1, <1>4, <1>6, <1>7, <1>9, <1>10

\* The clips of the tracks after a drag.
LEMMA DraggedTracks ==
    ASSUME PageInv, NEW t \in Lanes, Told(t), NEW clips
    PROVE  /\ AfterGesture(t, clips)[t] = clips
           /\ \A u \in Lanes :
                 \/ AfterGesture(t, clips)[u] = TrackRegions({u}, page)
                 \/ /\ linked \/ u = t
                    /\ TrackRegions({u}, page) = TrackRegions({t}, page)
                    /\ AfterGesture(t, clips)[u] = clips
  <1> DEFINE after == [shown EXCEPT ![t] = clips]
             out == AfterGesture(t, clips)
  <1>1. DOMAIN shown = Lanes BY DEF PageInv, TimelineInv
  <1>2. after[t] = clips /\ \A u \in Lanes : u # t => after[u] = shown[u] BY <1>1
  <1>3. \A u \in Lanes : shown[u] = TrackRegions({u}, page) BY ToldDrawn
  <1>4. linked => \A u \in Lanes : TrackRegions({u}, page) = TrackRegions({t}, page) BY ToldDrawn
  <1>5. out = IF linked THEN Mirrored(after) ELSE after BY Zenon DEF AfterGesture
  <1> HIDE DEF after, out
  <1>6. CASE linked
    <2>1. t = Last(TrackOrder) BY <1>6 DEF Told
    <2>2. \A u \in Lanes : Mirrored(after)[u] = after[Last(TrackOrder)] BY Zenon DEF Mirrored
    <2>3. \A u \in Lanes : out[u] = clips BY Zenon, <1>2, <1>5, <1>6, <2>1, <2>2
    <2> QED BY Zenon, <1>4, <1>6, <2>3 DEF out
  <1>7. CASE ~linked
    <2>1. out = after BY Zenon, <1>5, <1>7
    <2> QED BY Zenon, <1>2, <1>3, <2>1 DEF out
  <1> QED BY <1>6, <1>7

\* Tracks whose clips are as they were, or slightly other, are taken for nothing.
LEMMA SlightResolved ==
    ASSUME NEW copy, NEW rs, NEW s, NEW clips, NEW out, NEW both, NEW t \in Lanes,
           s \in Lineups(rs), DOMAIN clips = 1 .. Len(s), Slight(s, clips),
           AllLineups(copy, rs), TracksDragged(out, copy, both, t, s, clips)
    PROVE  Resolved(out, copy, both) = NoOp
  <1> DEFINE Was(u) == TrackRegions({u}, copy)
             J == TrimmedTracks(out, copy)
             I == TurnedTracks(out, copy)
  <1>1. \A u \in Lanes : out[u] = Was(u) \/ (Was(u) = s /\ out[u] = clips)
    BY Zenon DEF TracksDragged
  <1>2. FirstTrimmed(s, clips) = 0 BY SlightTrimmed
  <1>3. \A u \in Lanes : FirstTrimmed(Was(u), Was(u)) = 0 BY SameTrimmed DEF AllLineups
  <1>4. RegionsOf(s) = RegionsOf(clips) BY DEF Slight
  <1> HIDE DEF Was
  <1>5. \A u \in Lanes : FirstTrimmed(Was(u), out[u]) = 0 /\ RegionsOf(Was(u)) = RegionsOf(out[u])
    <2> TAKE u \in Lanes
    <2>1. CASE out[u] = Was(u) BY Zenon, <1>3, <2>1
    <2>2. CASE Was(u) = s /\ out[u] = clips BY Zenon, <1>2, <1>4, <2>2
    <2> QED BY Zenon, <1>1, <2>1, <2>2
  <1>6. \A k \in 1 .. Len(TrackOrder) : TrackOrder[k] \in Lanes
    <2>1. Len(TrackOrder) = 2 /\ TrackOrder[1] \in Lanes /\ TrackOrder[2] \in Lanes
      BY DEF TrackOrder, Lanes
    <2> QED BY <2>1
  <1>7. J = {} BY <1>5, <1>6 DEF TrimmedTracks, Was
  <1>8. \A old, new : old = new => MovedRegion(old, new) = {} BY DEF MovedRegion, Moves
  <1>9. \A u \in Lanes : Turned(out, copy, u) = {} BY <1>5, <1>8 DEF Turned, Was
  <1>10. I = {} BY <1>6, <1>9 DEF TurnedTracks
  <1> DEFINE v == FirstOf(J)
             w == FirstOf(I)
             was == TrackRegions({v}, copy)
             trim == Op(IF both THEN "resize" ELSE "track_resize", IF both THEN "both" ELSE v,
                        was[FirstTrimmed(was, out[v])].region,
                        Trimmings(out, copy, v).from, Trimmings(out, copy, v).to)
             shift == Op(IF both THEN "move" ELSE "track_move", IF both THEN "both" ELSE w,
                         Turning(out, copy, w).region, 0, Turning(out, copy, w).to)
             j == IF J # {} THEN Min(J) ELSE 0
             k == IF I # {} THEN Min(I) ELSE 0
  <1>11. j = 0 /\ k = 0 BY Zenon, <1>7, <1>10
  <1>12. Resolved(out, copy, both) = IF j # 0 THEN trim ELSE IF k # 0 THEN shift ELSE NoOp
    BY ResolvedParts
  <1> HIDE DEF trim, shift, j, k
  <1> QED BY Zenon, <1>11, <1>12

\* A trim that is more than slight moves a bound that is told apart.
LEMMA TrimSeen ==
    ASSUME NEW rs, NEW s \in Lineups(rs), NEW i \in 1 .. Len(s), NEW a \in Nat, NEW b \in Nat,
           ~Slight(s, Trimmed(s, i, a, b))
    PROVE  Apart(a, s[i].from) \/ Apart(b, s[i].to)
  <1> SUFFICES ASSUME ~Apart(a, s[i].from), ~Apart(b, s[i].to) PROVE FALSE OBVIOUS
  <1> DEFINE out == Trimmed(s, i, a, b)
  <1>1. s \in Seq(Clips(rs)) BY DEF Lineups
  <1>2. /\ out \in Seq(Clips(rs)) /\ Len(out) = Len(s)
        /\ out[i].region = s[i].region /\ out[i].from = a /\ out[i].to = b
        /\ \A j \in 1 .. Len(s) : j # i => out[j] = s[j]
    BY <1>1, ClipTrimmed
  <1> HIDE DEF out
  <1>3. DOMAIN out = 1 .. Len(s) /\ DOMAIN s = 1 .. Len(s) BY <1>1, <1>2
  <1>4. \A j \in 1 .. Len(s) : out[j].region = s[j].region BY <1>2
  <1>5. RegionsOf(out) = RegionsOf(s) BY <1>3, <1>4 DEF RegionsOf
  <1>6. \A j \in 1 .. Len(s) : ~Apart(s[j].from, out[j].from) /\ ~Apart(s[j].to, out[j].to)
    <2> TAKE j \in 1 .. Len(s)
    <2>1. CASE j = i BY <1>2, <2>1, ApartEither
    <2>2. CASE j # i
      <3>1. s[j] \in Clips(rs) /\ out[j] = s[j] BY <1>1, <1>2, <2>2
      <3> QED BY <3>1, NotApart DEF Clips
    <2> QED BY <2>1, <2>2
  <1>7. Slight(s, out) BY <1>3, <1>5, <1>6 DEF Slight
  <1> QED BY <1>7 DEF out

\* A drag that is more than slight is kept.
LEMMA GestureKept ==
    ASSUME PageInv, NEW t \in Lanes, Told(t),
           NEW clips \in Gestures(t, shown[t], 0 .. Length) \ {shown[t]},
           ~Slight(shown[t], clips), NEW op, op = Resolved(AfterGesture(t, clips), page, linked)
    PROVE  /\ op # NoOp
           /\ ~(locked /\ op.does \in Advanced) => Outcomes(op, t) = {clips}
  <1> DEFINE s == TrackRegions({t}, page)
             out == AfterGesture(t, clips)
             rs == page.regions
  <1>1. /\ Unfaded /\ page = Copy /\ (linked => mix = <<>>)
        /\ \A u \in Lanes : /\ shown[u] = TrackRegions({u}, page)
                            /\ TrackRegions({u}, page) \in Lineups(rs)
        /\ Drawable(shown[t]) /\ \A c : ~Faded(t, c, page)
    BY ToldDrawn
  <1>2. s \in Lineups(rs) /\ Drawable(s) /\ shown[t] = s BY <1>1
  <1>3. clips \in Gestures(t, s, 0 .. Length) \ {s} BY Zenon, <1>2
  <1>4. /\ out[t] = clips
        /\ \A u \in Lanes :
              \/ out[u] = TrackRegions({u}, page)
              \/ (linked \/ u = t) /\ TrackRegions({u}, page) = s /\ out[u] = clips
    BY DraggedTracks
  <1>5. NoOp.does = "nothing" BY DEF NoOp, Op
  <1> HIDE DEF s, out, rs
  <1>6. \/ \E i, j \in 1 .. Len(s) : clips = Carried(s, i, j)
        \/ \E i \in 1 .. Len(s) : \E a, b \in Nat :
              /\ clips = Trimmed(s, i, a, b) /\ a + MinRange <= b /\ b <= Length
              /\ a # s[i].from \/ b # s[i].to
    BY <1>1, <1>2, <1>3, GestureForms
  <1>7. CASE \E i, j \in 1 .. Len(s) : clips = Carried(s, i, j)
    <2>1. PICK i \in 1 .. Len(s), j \in 1 .. Len(s) : clips = Carried(s, i, j) BY <1>7
    <2>2. Carried(s, i, j) # s BY <1>3, <2>1
    <2>3. AllLineups(page, rs) /\ TracksDragged(out, page, linked, t, s, Carried(s, i, j))
      BY Zenon, <1>1, <1>4, <2>1 DEF s, AllLineups, TracksDragged
    <2>4. \E p, q \in 1 .. Len(s) :
             /\ Carried(s, i, j) = Carried(s, p, q)
             /\ Resolved(out, page, linked) = MoveOp(linked, t, s[p].region, q)
      <3>1. MoveDragged(page, rs, s, i, j, out, linked, t) BY Zenon, <1>2, <2>2, <2>3 DEF MoveDragged
      <3> QED BY <3>1, MoveResolved
    <2>5. PICK p \in 1 .. Len(s), q \in 1 .. Len(s) :
             /\ clips = Carried(s, p, q)
             /\ op = MoveOp(linked, t, s[p].region, q)
      BY Zenon, <2>1, <2>4 DEF out
    <2>6. op.does = IF linked THEN "move" ELSE "track_move" BY <2>5, DragFields DEF MoveOp, TrimOp
    <2>7. s = TrackRegions({t}, Copy) BY Zenon, <1>1 DEF s
    <2>8. Outcomes(op, t) = {Carried(s, p, q)}
      <3>1. ShiftAsked(t, s, p, q, op) BY Zenon, <1>1, <2>5, <2>7 DEF ShiftAsked, Drags
      <3> QED BY <3>1, MoveKept
    <2> QED BY <1>5, <2>5, <2>6, <2>8
  <1>8. CASE \E i \in 1 .. Len(s) : \E a, b \in Nat :
              /\ clips = Trimmed(s, i, a, b) /\ a + MinRange <= b /\ b <= Length
              /\ a # s[i].from \/ b # s[i].to
    <2>1. PICK i \in 1 .. Len(s), a \in Nat, b \in Nat :
             /\ clips = Trimmed(s, i, a, b) /\ a + MinRange <= b /\ b <= Length
             /\ a # s[i].from \/ b # s[i].to
      BY <1>8
    <2>2. Apart(a, s[i].from) \/ Apart(b, s[i].to)
      <3>1. ~Slight(s, Trimmed(s, i, a, b)) BY Zenon, <1>2, <2>1
      <3> QED BY <1>2, <3>1, TrimSeen
    <2>3. AllLineups(page, rs) /\ TracksDragged(out, page, linked, t, s, Trimmed(s, i, a, b))
      BY Zenon, <1>1, <1>4, <2>1 DEF s, AllLineups, TracksDragged
    <2>4. Resolved(out, page, linked) = TrimOp(linked, t, s[i].region, a, b)
      <3>1. TrimDragged(page, rs, s, i, a, b, out, linked, t) BY Zenon, <1>2, <2>1, <2>2, <2>3 DEF TrimDragged
      <3> QED BY <3>1, TrimResolved
    <2>5. op = TrimOp(linked, t, s[i].region, a, b) BY Zenon, <2>4 DEF out
    <2>6. op.does = IF linked THEN "resize" ELSE "track_resize" BY <2>5, DragFields DEF MoveOp, TrimOp
    <2>7. s = TrackRegions({t}, Copy) BY Zenon, <1>1 DEF s
    <2>8. ASSUME ~(locked /\ op.does \in Advanced) PROVE Outcomes(op, t) = {Trimmed(s, i, a, b)}
      <3>1. TrimAsked(t, s, i, a, b, op) BY Zenon, <1>1, <2>1, <2>5, <2>7, <2>8 DEF TrimAsked, Drags
      <3> QED BY <3>1, TrimKept
    <2> QED BY <1>5, <2>1, <2>6, <2>8
  <1> QED BY <1>6, <1>7, <1>8

\* A slight one is taken for nothing.
LEMMA GestureSlight ==
    ASSUME PageInv, NEW t \in Lanes, Told(t),
           NEW clips \in Gestures(t, shown[t], 0 .. Length), Slight(shown[t], clips)
    PROVE  Resolved(AfterGesture(t, clips), page, linked) = NoOp
  <1> DEFINE s == TrackRegions({t}, page)
             out == AfterGesture(t, clips)
             rs == page.regions
  <1>1. \A u \in Lanes : /\ shown[u] = TrackRegions({u}, page)
                         /\ TrackRegions({u}, page) \in Lineups(rs)
    BY ToldDrawn
  <1>2. s \in Lineups(rs) /\ shown[t] = s BY <1>1
  <1>3. /\ out[t] = clips
        /\ \A u \in Lanes :
              \/ out[u] = TrackRegions({u}, page)
              \/ (linked \/ u = t) /\ TrackRegions({u}, page) = s /\ out[u] = clips
    <2>1. /\ AfterGesture(t, clips)[t] = clips
          /\ \A u \in Lanes :
                \/ AfterGesture(t, clips)[u] = TrackRegions({u}, page)
                \/ /\ linked \/ u = t
                   /\ TrackRegions({u}, page) = TrackRegions({t}, page)
                   /\ AfterGesture(t, clips)[u] = clips
      BY DraggedTracks
    <2> QED BY Zenon, <2>1
  <1> HIDE DEF s, out, rs
  <1>4. Slight(s, clips) BY Zenon, <1>2
  <1>5. DOMAIN clips = 1 .. Len(s)
    <2>1. DOMAIN RegionsOf(clips) = DOMAIN clips /\ DOMAIN RegionsOf(s) = DOMAIN s BY DEF RegionsOf
    <2>2. RegionsOf(clips) = RegionsOf(s) BY <1>4 DEF Slight
    <2>3. DOMAIN s = 1 .. Len(s) BY <1>2 DEF Lineups
    <2> QED BY Zenon, <2>1, <2>2, <2>3
  <1>6. AllLineups(page, rs) /\ TracksDragged(out, page, linked, t, s, clips)
    BY Zenon, <1>1, <1>3 DEF s, AllLineups, TracksDragged
  <1>7. Resolved(out, page, linked) = NoOp BY <1>2, <1>4, <1>5, <1>6, SlightResolved
  <1> QED BY Zenon, <1>7 DEF out

\* What a drag is taken for gives the clips that were dragged, in every state
\* of the invariant.
LEMMA InvKeeps ==
    ASSUME PageInv PROVE DragIsKept
  <1>1. ASSUME NEW t \in Lanes, Told(t),
               NEW clips \in Gestures(t, shown[t], 0 .. Length) \ {shown[t]}
        PROVE  LET op == Resolved(AfterGesture(t, clips), page, linked)
               IN  IF Slight(shown[t], clips) THEN op = NoOp
                   ELSE /\ op # NoOp
                        /\ ~(locked /\ op.does \in Advanced) => Outcomes(op, t) = {clips}
    <2> DEFINE op == Resolved(AfterGesture(t, clips), page, linked)
    <2>1. op = Resolved(AfterGesture(t, clips), page, linked) OBVIOUS
    <2> HIDE DEF op
    <2>2. CASE Slight(shown[t], clips)
      <3>1. op = NoOp BY <1>1, <2>1, <2>2, GestureSlight
      <3> QED BY Zenon, <2>2, <3>1 DEF op
    <2>3. CASE ~Slight(shown[t], clips)
      <3>1. op # NoOp /\ (~(locked /\ op.does \in Advanced) => Outcomes(op, t) = {clips})
        BY <1>1, <2>1, <2>3, GestureKept
      <3> QED BY Zenon, <2>3, <3>1 DEF op
    <2> QED BY <2>2, <2>3
  <1> QED BY Zenon, <1>1 DEF DragIsKept, Outcomes

\* When the page knows the song as it is and listens to the timeline, a single
\* drag, or a trim of more than the tolerance, is taken for the operation after
\* which the same timeline is drawn again, and a trim of less for nothing
\* (handleTracksChange, resolveTimelineOperation, findMovedRegion).
THEOREM DragsKept == PageSpec => []DragIsKept
  BY PageInvariant, InvKeeps, PTL

\* What the page shows, asks for and sends is what the song is, which it can
\* show.
THEOREM PageShowsSong == PageSpec => []PageMatchesSong
  <1>1. PageInv => PageMatchesSong BY InvUsable, InvAccepts, InvKeeps DEF PageMatchesSong
  <1> QED BY <1>1, PageInvariant, PTL

=============================================================================
