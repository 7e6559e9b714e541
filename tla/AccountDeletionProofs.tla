------------------------ MODULE AccountDeletionProofs ------------------------
(***************************************************************************)
(* Proofs about AccountDeletion, for any number of vocals, tickets,        *)
(* attempts and mishaps, in every combination of circumstances: a voice    *)
(* that is ready is paid for, and no ticket asks for its vocal; and an     *)
(* account is final only when Mureka has confirmed the deletion of its     *)
(* vocal, in every circumstance but a deletion that begins while the voice *)
(* is being made.                                                          *)
(*                                                                         *)
(* The clone, the failures, the sweeps and the deletion write the same     *)
(* rows without a lock.  The invariant says what each of them may still    *)
(* believe: the steps that refund, delete or report a voice are only       *)
(* reached when its profile has left the states from which it can become   *)
(* ready, and it never comes back to them.                                 *)
(*                                                                         *)
(* And about InboundMail, for any number of environments, slots, faults    *)
(* and any mail: it is forwarded once, by an environment that may.         *)
(***************************************************************************)
EXTENDS AccountDeletion, InboundMail, TLAPS

\* A profile that is ready, or can become so, and one that cannot any more.
Alive == {"absent", "creating", "ready"}
Gone  == InFlow \cup {"failed"}

VocalIds == Vocals \cup {NoVocal}

Jobs == [state : {"absent", "waiting", "active", "completed", "failed"},
         made : Nat, stalls : Nat]

Profiles == [status : ProfileStatuses, vocal : VocalIds, deleted : BOOLEAN]

Clones == [job : Jobs, known : VocalIds,
           pc : {"idle", "return", "load", "recheck", "http", "fail", "refund",
                 "persist", "retain"},
           got : VocalIds]

EraserPcs == {"idle", "done", "list", "delete", "enqueue", "unqueue", "purge", "mark",
              "refund", "anonymize"} \cup Finalizing

Handlers == [pc : EraserPcs, saw : ProfileStatuses, vocal : VocalIds, next : AccountStatuses]

Users == [status : AccountStatuses, finalized : BOOLEAN, email : {"own", "anonymous"}]

Shape ==
    /\ user \in Users /\ profile \in Profiles /\ clone \in Clones
    /\ eraser \in [Erasers -> Handlers]

\* A voice that may be used is paid for, and nothing asks for its deletion.
ProfileInv ==
    profile.status \in Alive =>
        /\ ~profile.deleted
        /\ profile.status # "absent" => charge = "spent"
        /\ \A t \in Tickets : ticket[t].status = "none"

\* The request that makes the profile.
MakerInv ==
    /\ maker \in {"idle", "commit"} => profile.status = "absent"
    /\ maker \in {"enqueue", "compensate"} => profile.status # "absent"

\* The job that clones the voice, with what c is and the profile's status s.
CloneOK(c, s) ==
    /\ c.job.state = "waiting" \/ c.pc # "idle" => s # "absent"
    /\ c.pc \in {"load", "recheck", "http", "fail"} => s # "ready"
    /\ c.pc \in {"refund", "retain"} => s \in Gone

\* A handler that deletes.
HandlerOK(h, s) ==
    /\ h.pc = "delete" => s # "absent"
    /\ h.pc \in {"enqueue", "unqueue", "purge", "mark", "refund"} => s \in Gone

HandlersInv == \A e \in Erasers : HandlerOK(eraser[e], profile.status)

AccountInv ==
    /\ Shape /\ ProfileInv /\ MakerInv
    /\ CloneOK(clone, profile.status) /\ HandlersInv

LEMMA Statuses ==
    /\ ProfileStatuses = Alive \cup Gone
    /\ \A s \in Gone : s \notin Alive
  BY DEF ProfileStatuses, Alive, Gone, InFlow

LEMMA Shapes ==
    ASSUME AccountInv
    PROVE  /\ user \in Users /\ profile \in Profiles /\ clone \in Clones
           /\ eraser \in [Erasers -> Handlers] /\ profile.status \in ProfileStatuses
  BY DEF AccountInv, Shape, Profiles

LEMMA IdleTyped == Idle \in Handlers /\ Idle.pc = "idle"
  <1>1. /\ "idle" \in EraserPcs /\ "absent" \in ProfileStatuses /\ "active" \in AccountStatuses
        /\ NoVocal \in VocalIds
    BY DEF EraserPcs, ProfileStatuses, AccountStatuses, VocalIds
  <1> QED BY <1>1 DEF Idle, Handlers

LEMMA AccountInit == Init => AccountInv
  <1> SUFFICES ASSUME Init PROVE AccountInv OBVIOUS
  <1>1. /\ user = [status |-> "active", finalized |-> FALSE, email |-> "own"]
        /\ profile = [status |-> "absent", vocal |-> NoVocal, deleted |-> FALSE]
        /\ maker = "idle"
    BY Zenon DEF Init
  <1>2. clone = [job |-> NoJob, known |-> NoVocal, pc |-> "idle", got |-> NoVocal]
    BY Zenon DEF Init
  <1>3. eraser = [e \in Erasers |-> Idle] BY Zenon DEF Init
  <1>4. ticket = [t \in Tickets |-> [status |-> "none", vocal |-> NoVocal, asked |-> FALSE]]
    BY Zenon DEF Init
  <1>5. user \in Users BY <1>1 DEF Users, AccountStatuses
  <1>6. profile \in Profiles BY <1>1 DEF Profiles, ProfileStatuses, VocalIds
  <1>7. NoJob \in Jobs /\ NoJob.state = "absent" BY DEF NoJob, Jobs
  <1>8. clone \in Clones BY <1>2, <1>7 DEF Clones, VocalIds
  <1>9. eraser \in [Erasers -> Handlers] BY <1>3, IdleTyped
  <1>10. ProfileInv BY <1>1, <1>4 DEF ProfileInv
  <1>11. MakerInv BY <1>1 DEF MakerInv
  <1>12. CloneOK(clone, profile.status) BY <1>2, <1>7 DEF CloneOK
  <1>13. HandlersInv
    <2>1. \A e \in Erasers : eraser[e].pc = "idle" BY <1>3, IdleTyped
    <2> QED BY <2>1 DEF HandlersInv, HandlerOK
  <1> QED BY <1>5, <1>6, <1>8, <1>9, <1>10, <1>11, <1>12, <1>13 DEF AccountInv, Shape

-----------------------------------------------------------------------------
(* What a step has to show *)

\* The profile is left alone, or it is one that cannot become ready any more.
StatusMoves ==
    \/ UNCHANGED <<profile, charge, ticket>>
    \/ profile' \in Profiles /\ profile.status # "absent" /\ profile'.status \in Gone

MakerMoves ==
    \/ maker' = maker
    \/ maker' = "done"

LEMMA ProfileKept ==
    ASSUME AccountInv, StatusMoves PROVE ProfileInv' /\ profile' \in Profiles
  <1>1. CASE UNCHANGED <<profile, charge, ticket>>
    BY <1>1, Shapes DEF AccountInv, ProfileInv
  <1>2. CASE profile' \in Profiles /\ profile'.status \in Gone
    BY <1>2, Statuses DEF ProfileInv
  <1> QED BY <1>1, <1>2 DEF StatusMoves

LEMMA StatusKept ==
    ASSUME AccountInv, StatusMoves
    PROVE  \/ profile'.status = profile.status
           \/ profile.status # "absent" /\ profile'.status \in Gone
  BY DEF StatusMoves

LEMMA GoneIsNot == \A s \in Gone : s # "absent" /\ s # "creating" /\ s # "ready"
  BY DEF Gone, InFlow

LEMMA MakerKept == ASSUME AccountInv, StatusMoves, MakerMoves PROVE MakerInv'
  BY StatusKept, GoneIsNot DEF AccountInv, MakerInv, MakerMoves

LEMMA CloneKept ==
    ASSUME AccountInv, StatusMoves, clone' = clone
    PROVE  clone' \in Clones /\ CloneOK(clone', profile'.status)
  <1>1. clone \in Clones /\ CloneOK(clone, profile.status) BY DEF AccountInv, Shape
  <1> QED BY <1>1, StatusKept, GoneIsNot DEF CloneOK

LEMMA HandlersKept ==
    ASSUME AccountInv, StatusMoves, eraser' = eraser
    PROVE  eraser' \in [Erasers -> Handlers] /\ HandlersInv'
  <1>1. eraser \in [Erasers -> Handlers] /\ HandlersInv BY DEF AccountInv, Shape
  <1> QED BY <1>1, StatusKept, GoneIsNot DEF HandlersInv, HandlerOK

LEMMA HandlerMoves ==
    ASSUME AccountInv, StatusMoves, NEW e \in Erasers, NEW h \in Handlers,
           HandlerOK(h, profile'.status), eraser' = [eraser EXCEPT ![e] = h]
    PROVE  eraser' \in [Erasers -> Handlers] /\ HandlersInv'
  <1>1. eraser \in [Erasers -> Handlers] /\ HandlersInv BY DEF AccountInv, Shape
  <1>2. eraser' \in [Erasers -> Handlers] BY <1>1
  <1>3. ASSUME NEW f \in Erasers PROVE HandlerOK(eraser'[f], profile'.status)
    <2>1. CASE f = e
      <3>1. eraser'[f] = h BY <1>1, <2>1
      <3> QED BY <3>1
    <2>2. CASE f # e
      <3>1. eraser'[f] = eraser[f] BY <1>1, <2>2
      <3>2. HandlerOK(eraser[f], profile.status) BY <1>1 DEF HandlersInv
      <3> QED BY <3>1, <3>2, StatusKept, GoneIsNot DEF HandlerOK
    <2> QED BY <2>1, <2>2
  <1> QED BY <1>2, <1>3 DEF HandlersInv

LEMMA Assembled ==
    ASSUME user' \in Users, profile' \in Profiles, clone' \in Clones,
           eraser' \in [Erasers -> Handlers], ProfileInv', MakerInv',
           CloneOK(clone', profile'.status), HandlersInv'
    PROVE  AccountInv'
  BY DEF AccountInv, Shape

\* A step that moves neither the clone nor a handler.
LEMMA OthersKeep ==
    ASSUME AccountInv, StatusMoves, MakerMoves, user' \in Users, UNCHANGED <<clone, eraser>>
    PROVE  AccountInv'
  BY ProfileKept, MakerKept, CloneKept, HandlersKept, Assembled

\* A step of the clone job.
LEMMA CloneMoves ==
    ASSUME AccountInv, StatusMoves, UNCHANGED <<user, maker, eraser>>, clone' \in Clones,
           CloneOK(clone', profile'.status)
    PROVE  AccountInv'
  BY ProfileKept, MakerKept, HandlersKept, Assembled, Shapes DEF MakerMoves

\* A step of a handler.
LEMMA EraserMoves ==
    ASSUME AccountInv, StatusMoves, user' \in Users, UNCHANGED <<maker, clone>>,
           NEW e \in Erasers, NEW h \in Handlers, HandlerOK(h, profile'.status),
           eraser' = [eraser EXCEPT ![e] = h]
    PROVE  AccountInv'
  BY ProfileKept, MakerKept, CloneKept, HandlerMoves, Assembled DEF MakerMoves

-----------------------------------------------------------------------------
(* The profile is made *)

LEMMA MakerTyped == AccountInv => profile.status \in ProfileStatuses
  BY Shapes

LEMMA BeginKeeps == ASSUME AccountInv, BeginProfile PROVE AccountInv'
  <1>1. /\ profile.status = "absent" /\ maker' = "commit"
        /\ UNCHANGED <<user, profile, charge, clone, ticket, eraser>>
    BY DEF BeginProfile
  <1>2. StatusMoves BY <1>1 DEF StatusMoves
  <1>3. MakerInv' BY <1>1 DEF MakerInv
  <1> QED BY <1>1, <1>2, <1>3, ProfileKept, CloneKept, HandlersKept, Assembled, Shapes

\* Nothing knows of the profile before it is there.
LEMMA CommitKeeps == ASSUME AccountInv, CommitProfile PROVE AccountInv'
  <1>1. /\ maker = "commit" /\ maker' = "enqueue" /\ charge' = "spent"
        /\ profile' = [profile EXCEPT !.status = "creating"]
        /\ UNCHANGED <<user, clone, ticket, eraser>>
    BY DEF CommitProfile
  <1>2. profile.status = "absent" /\ profile \in Profiles
    BY <1>1, Shapes DEF AccountInv, MakerInv
  <1>3. /\ profile' \in Profiles /\ profile'.status = "creating"
        /\ profile'.deleted = profile.deleted
    BY <1>1, <1>2 DEF Profiles, ProfileStatuses
  <1>4. ProfileInv' BY <1>1, <1>2, <1>3 DEF AccountInv, ProfileInv, Alive
  <1>5. MakerInv' BY <1>1, <1>3 DEF MakerInv
  <1>6. CloneOK(clone', profile'.status)
    BY <1>1, <1>2, <1>3, GoneIsNot DEF AccountInv, CloneOK
  <1>7. HandlersInv' BY <1>1, <1>2, <1>3, GoneIsNot DEF AccountInv, HandlersInv, HandlerOK
  <1> QED BY <1>1, <1>3, <1>4, <1>5, <1>6, <1>7, Assembled, Shapes

LEMMA NewJobTyped == NewJob \in Jobs
  <1>1. NoJob \in Jobs BY DEF NoJob, Jobs
  <1> QED BY <1>1 DEF NewJob, Jobs

LEMMA EnqueueKeeps ==
    ASSUME AccountInv, EnqueueProfile \/ EnqueueUnheard PROVE AccountInv'
  <1>1. /\ maker = "enqueue" /\ maker' \in {"done", "compensate"}
        /\ UNCHANGED <<user, profile, charge, ticket, eraser>>
        /\ clone' = clone \/ clone' = [clone EXCEPT !.job = NewJob]
    BY Zenon DEF EnqueueProfile, EnqueueUnheard
  <1>2. profile.status # "absent" BY <1>1 DEF AccountInv, MakerInv
  <1>3. StatusMoves BY <1>1 DEF StatusMoves
  <1>4. MakerInv' BY <1>1, <1>2 DEF MakerInv
  <1>5. clone' \in Clones /\ CloneOK(clone', profile'.status)
    <2>1. CASE clone' = clone BY <1>3, <2>1, CloneKept
    <2>2. CASE clone' = [clone EXCEPT !.job = NewJob]
      <3>1. clone \in Clones /\ CloneOK(clone, profile.status) BY Shapes DEF AccountInv
      <3>2. clone' \in Clones /\ clone'.pc = clone.pc BY <2>2, <3>1, NewJobTyped DEF Clones
      <3> QED BY <1>1, <1>2, <3>1, <3>2 DEF CloneOK
    <2> QED BY <1>1, <2>1, <2>2
  <1> QED BY <1>1, <1>3, <1>4, <1>5, ProfileKept, HandlersKept, Assembled, Shapes

\* A status that cannot become ready, whatever it was.
LEMMA StatusGone ==
    ASSUME AccountInv, profile.status # "absent", NEW s \in Gone,
           profile' = [profile EXCEPT !.status = s]
    PROVE  StatusMoves
  <1>1. profile \in Profiles /\ s \in ProfileStatuses BY Shapes, Statuses
  <1>2. profile' \in Profiles /\ profile'.status = s BY <1>1 DEF Profiles
  <1> QED BY <1>2 DEF StatusMoves

LEMMA GoneStatuses == "failed" \in Gone /\ InFlow \subseteq Gone
  BY DEF Gone

LEMMA MarkFailedKeeps == ASSUME AccountInv, MarkFailedAndRefund PROVE AccountInv'
  <1>1. /\ maker = "compensate" /\ maker' = "done"
        /\ profile' = [profile EXCEPT !.status = "failed"]
        /\ UNCHANGED <<user, clone, eraser>>
    BY DEF MarkFailedAndRefund
  <1>2. StatusMoves BY <1>1, StatusGone, GoneStatuses DEF AccountInv, MakerInv
  <1> QED BY <1>1, <1>2, OthersKeep, Shapes DEF MakerMoves

LEMMA MakerDiesKeeps == ASSUME AccountInv, MakerDies PROVE AccountInv'
  <1>1. maker' = "done" /\ UNCHANGED <<user, profile, charge, clone, ticket, eraser>>
    BY DEF MakerDies
  <1> QED BY <1>1, OthersKeep, Shapes DEF MakerMoves, StatusMoves

\* The sweeps: a profile that is being made fails, and a failed one is refunded.
LEMMA SweepsKeep == ASSUME AccountInv, FailStuckClone \/ RefundFailedClone PROVE AccountInv'
  <1>1. UNCHANGED <<user, maker, clone, eraser>> BY DEF FailStuckClone, RefundFailedClone
  <1>2. StatusMoves
    <2>1. CASE FailStuckClone
      <3>1. profile.status = "creating" /\ profile' = [profile EXCEPT !.status = "failed"]
        BY <2>1 DEF FailStuckClone
      <3> QED BY <3>1, StatusGone, GoneStatuses
    <2>2. CASE RefundFailedClone
      <3>1. profile.status = "failed" /\ profile' = profile BY <2>2 DEF RefundFailedClone
      <3> QED BY <3>1, GoneStatuses, Shapes DEF StatusMoves
    <2> QED BY <2>1, <2>2
  <1> QED BY <1>1, <1>2, OthersKeep, Shapes DEF MakerMoves

-----------------------------------------------------------------------------
(* The clone job *)

LEMMA JobsTyped ==
    ASSUME NEW j \in Jobs, NEW tries
    PROVE  Completed(j) \in Jobs /\ Thrown(j, tries) \in Jobs /\ Stalled(j) \in Jobs
           /\ Completed(j).state = "completed"
  <1>1. Completed(j) \in Jobs /\ Completed(j).state = "completed" BY DEF Completed, Jobs
  <1>2. Thrown(j, tries) \in Jobs
    <2> DEFINE s == IF j.made + 1 < tries THEN "waiting" ELSE "failed"
    <2>1. s \in {"waiting", "failed"} OBVIOUS
    <2>2. Thrown(j, tries) = [j EXCEPT !.made = j.made + 1, !.state = s] BY Zenon DEF Thrown
    <2>3. j.made + 1 \in Nat BY DEF Jobs
    <2> HIDE DEF s
    <2>4. [j EXCEPT !.made = j.made + 1, !.state = s] \in Jobs BY <2>1, <2>3 DEF Jobs
    <2> QED BY <2>2, <2>4
  <1>3. Stalled(j) \in Jobs
    <2> DEFINE s == IF j.stalls < 1 THEN "waiting" ELSE "failed"
    <2>1. s \in {"waiting", "failed"} OBVIOUS
    <2>2. Stalled(j) = [j EXCEPT !.stalls = j.stalls + 1, !.state = s] BY Zenon DEF Stalled
    <2>3. j.stalls + 1 \in Nat BY DEF Jobs
    <2> HIDE DEF s
    <2>4. [j EXCEPT !.stalls = j.stalls + 1, !.state = s] \in Jobs BY <2>1, <2>3 DEF Jobs
    <2> QED BY <2>2, <2>4
  <1> QED BY <1>1, <1>2, <1>3

\* An execution that goes to another step.
LEMMA CloneGoes ==
    ASSUME AccountInv, StatusMoves, UNCHANGED <<user, maker, eraser>>, clone' \in Clones,
           clone.pc # "idle",
           clone'.pc \in {"load", "recheck", "http", "fail"} => profile'.status # "ready",
           clone'.pc \in {"refund", "retain"} => profile'.status \in Gone
    PROVE  AccountInv'
  <1>1. profile.status # "absent" BY DEF AccountInv, CloneOK
  <1>2. profile'.status # "absent" BY <1>1, StatusKept, GoneIsNot
  <1> QED BY <1>2, CloneMoves DEF CloneOK

\* An execution that ends, with or without a word.
LEMMA CloneEnds ==
    ASSUME AccountInv, UNCHANGED <<user, profile, charge, maker, ticket, eraser>>,
           clone.pc # "idle", NEW j \in Jobs, NEW got \in VocalIds, NEW known \in VocalIds,
           clone' = [clone EXCEPT !.job = j, !.pc = "idle", !.got = got, !.known = known]
    PROVE  AccountInv'
  <1>1. clone \in Clones BY Shapes
  <1>2. clone' \in Clones /\ clone'.pc = "idle" BY <1>1 DEF Clones
  <1> QED BY <1>2, CloneGoes DEF StatusMoves

\* An execution that goes on, with nothing written.
LEMMA CloneGoesOn ==
    ASSUME AccountInv, UNCHANGED <<user, profile, charge, maker, ticket, eraser>>,
           clone.pc # "idle",
           NEW pc \in {"return", "load", "recheck", "http", "fail", "refund", "persist", "retain"},
           clone' = [clone EXCEPT !.pc = pc],
           pc \in {"load", "recheck", "http", "fail"} => profile.status # "ready",
           pc \in {"refund", "retain"} => profile.status \in Gone
    PROVE  AccountInv'
  <1>1. clone \in Clones BY Shapes
  <1>2. clone' \in Clones /\ clone'.pc = pc BY <1>1 DEF Clones
  <1> QED BY <1>2, CloneGoes DEF StatusMoves

LEMMA BlockedIsGone ==
    ASSUME AccountInv, Blocked, profile.status # "absent" PROVE profile.status \in Gone
  BY Shapes, Statuses DEF AccountInv, ProfileInv, Blocked, Gone

LEMMA CloneStartsKeeps == ASSUME AccountInv, CloneStarts PROVE AccountInv'
  <1> DEFINE pc == CASE profile.status = "ready" -> "return"
                     [] profile.status # "ready" /\ Blocked ->
                           IF clone.known = NoVocal THEN "return" ELSE "retain"
                     [] OTHER -> IF clone.known = NoVocal THEN "load" ELSE "persist"
  <1>1. /\ clone.job.state = "waiting"
        /\ clone' = [clone EXCEPT !.job.state = "active", !.pc = pc, !.got = clone.known]
        /\ UNCHANGED <<user, profile, charge, maker, ticket, eraser>>
    BY Zenon DEF CloneStarts
  <1>2. profile.status # "absent" BY <1>1 DEF AccountInv, CloneOK
  <1>3. pc \in {"return", "retain", "load", "persist"} OBVIOUS
  <1>4. pc = "load" => profile.status # "ready" OBVIOUS
  <1>5. pc = "retain" => profile.status \in Gone BY <1>2, BlockedIsGone
  <1> HIDE DEF pc
  <1>6. clone \in Clones /\ clone.job \in Jobs /\ clone.known \in VocalIds
    BY Shapes DEF Clones
  <1>7. [clone.job EXCEPT !.state = "active"] \in Jobs BY <1>6 DEF Jobs
  <1>8. clone' = [clone EXCEPT !.job = [clone.job EXCEPT !.state = "active"], !.pc = pc,
                               !.got = clone.known]
    BY <1>1, <1>6 DEF Clones
  <1>9. clone' \in Clones /\ clone'.pc = pc BY <1>3, <1>6, <1>7, <1>8 DEF Clones
  <1>10. CloneOK(clone', profile'.status)
    BY <1>1, <1>2, <1>3, <1>4, <1>5, <1>9 DEF CloneOK
  <1> QED BY <1>1, <1>9, <1>10, CloneMoves DEF StatusMoves

LEMMA CloneReturnsKeeps == ASSUME AccountInv, CloneReturns PROVE AccountInv'
  <1>1. /\ clone.pc = "return" /\ UNCHANGED <<user, profile, charge, maker, ticket, eraser>>
        /\ clone' = [clone EXCEPT !.job = Completed(@), !.pc = "idle", !.got = NoVocal]
    BY Zenon DEF CloneReturns
  <1>2. clone \in Clones /\ clone.job \in Jobs BY Shapes DEF Clones
  <1> DEFINE j == Completed(clone.job)
  <1>3. j \in Jobs BY <1>2, JobsTyped
  <1>4. clone' = [clone EXCEPT !.job = j, !.pc = "idle", !.got = NoVocal]
    BY <1>1, Zenon
  <1> HIDE DEF j
  <1>5. clone' \in Clones /\ clone'.pc = "idle" BY <1>2, <1>3, <1>4 DEF Clones, VocalIds
  <1> QED BY <1>1, <1>5, CloneGoes DEF StatusMoves

LEMMA LoadKeeps == ASSUME AccountInv, LoadSample \/ Recheck PROVE AccountInv'
  <1>1. /\ clone.pc \in {"load", "recheck"}
        /\ UNCHANGED <<user, profile, charge, maker, ticket, eraser>>
        /\ \E pc \in {"recheck", "fail", "return", "http"} : clone' = [clone EXCEPT !.pc = pc]
    BY DEF LoadSample, Recheck
  <1>2. profile.status # "ready" BY <1>1 DEF AccountInv, CloneOK
  <1> QED BY <1>1, <1>2, CloneGoesOn

LEMMA AnyOfIsIn == ASSUME NEW S, NEW v \in AnyOf(S) PROVE v \in S
  BY Zenon DEF AnyOf

LEMMA VocalKeeps == ASSUME AccountInv, VocalHeard \/ VocalError PROVE AccountInv'
  <1>1. clone.pc = "http" /\ UNCHANGED <<user, profile, charge, maker, ticket, eraser>>
    BY DEF VocalHeard, VocalError
  <1>2. clone \in Clones /\ clone.job \in Jobs BY Shapes DEF Clones
  <1>3. profile.status # "ready" BY <1>1 DEF AccountInv, CloneOK
  <1>4. CASE VocalHeard
    <2>1. PICK v \in AnyOf(Vocals \ vocals) :
              clone' = [clone EXCEPT !.pc = "persist", !.got = v, !.known = v]
      BY <1>4 DEF VocalHeard
    <2>2. v \in VocalIds BY AnyOfIsIn DEF VocalIds
    <2>3. clone' \in Clones /\ clone'.pc = "persist" BY <1>2, <2>1, <2>2 DEF Clones
    <2> QED BY <1>1, <2>3, CloneGoes DEF StatusMoves
  <1>5. CASE clone' = [clone EXCEPT !.pc = "fail"] BY <1>1, <1>3, <1>5, CloneGoesOn
  <1>6. CASE clone' = [clone EXCEPT !.job = Thrown(@, CloneTries), !.pc = "idle"]
    <2> DEFINE j == Thrown(clone.job, CloneTries)
    <2>1. j \in Jobs BY <1>2, JobsTyped
    <2>2. clone' = [clone EXCEPT !.job = j, !.pc = "idle"] BY <1>6, Zenon
    <2> HIDE DEF j
    <2>3. clone' \in Clones /\ clone'.pc = "idle" BY <1>2, <2>1, <2>2 DEF Clones
    <2> QED BY <1>1, <2>3, CloneGoes DEF StatusMoves
  <1> QED BY <1>4, <1>5, <1>6, Zenon DEF VocalError

LEMMA CloneFaultKeeps == ASSUME AccountInv, CloneThrows \/ CloneDies PROVE AccountInv'
  <1>1. clone.pc # "idle" /\ UNCHANGED <<user, profile, charge, maker, ticket, eraser>>
    BY DEF CloneThrows, CloneDies
  <1>2. clone \in Clones /\ clone.job \in Jobs BY Shapes DEF Clones
  <1> DEFINE j == Thrown(clone.job, CloneTries)
             k == Stalled(clone.job)
  <1>3. j \in Jobs /\ k \in Jobs BY <1>2, JobsTyped
  <1>4. PICK known \in {clone.known, NoVocal} :
            \/ clone' = [clone EXCEPT !.job = j, !.pc = "idle", !.got = NoVocal, !.known = known]
            \/ clone' = [clone EXCEPT !.job = k, !.pc = "idle", !.got = NoVocal, !.known = known]
    <2>1. CASE CloneThrows BY <2>1, Zenon DEF CloneThrows
    <2>2. CASE CloneDies BY <2>2, Zenon DEF CloneDies
    <2> QED BY <2>1, <2>2
  <1> HIDE DEF j, k
  <1>5. known \in VocalIds /\ NoVocal \in VocalIds BY <1>2, <1>4 DEF Clones, VocalIds
  <1> QED BY <1>1, <1>3, <1>4, <1>5, CloneEnds

\* The failure of a clone: only a profile that is being made is touched.
LEMMA FailKeeps == ASSUME AccountInv, FailProfile PROVE AccountInv'
  <1>1. /\ clone.pc = "fail" /\ clone' = [clone EXCEPT !.pc = "refund"]
        /\ UNCHANGED <<user, charge, maker, ticket, eraser>>
    BY Zenon DEF FailProfile
  <1>2. clone \in Clones /\ profile.status \in ProfileStatuses BY Shapes
  <1>3. clone' \in Clones /\ clone'.pc = "refund" BY <1>1, <1>2 DEF Clones
  <1>4. profile.status \notin {"absent", "ready"} BY <1>1 DEF AccountInv, CloneOK
  <1>5. StatusMoves /\ profile'.status \in Gone
    <2>1. CASE profile.status = "creating" /\ ~profile.deleted
      <3>1. profile' = [profile EXCEPT !.status = "failed"] BY <2>1 DEF FailProfile
      <3>2. profile'.status = "failed" BY <3>1, Shapes DEF Profiles
      <3> QED BY <1>4, <3>1, <3>2, StatusGone, GoneStatuses
    <2>2. CASE ~(profile.status = "creating" /\ ~profile.deleted)
      <3>1. profile' = profile BY <2>2 DEF FailProfile
      <3>2. profile.status \in Gone
        BY <1>2, <1>4, <2>2, Statuses DEF AccountInv, ProfileInv, Alive
      <3> QED BY <1>1, <3>1, <3>2 DEF StatusMoves
    <2> QED BY <2>1, <2>2
  <1> QED BY <1>1, <1>3, <1>5, CloneGoes

LEMMA RefundKeeps == ASSUME AccountInv, RefundProfile PROVE AccountInv'
  <1>1. /\ clone.pc = "refund" /\ clone' = [clone EXCEPT !.pc = "return"]
        /\ UNCHANGED <<user, profile, maker, ticket, eraser>>
    BY Zenon DEF RefundProfile
  <1>2. profile.status \in Gone /\ profile \in Profiles
    BY <1>1, Shapes DEF AccountInv, CloneOK
  <1>3. StatusMoves BY <1>1, <1>2, GoneIsNot DEF StatusMoves
  <1>4. clone \in Clones BY Shapes
  <1>5. clone' \in Clones /\ clone'.pc = "return" BY <1>1, <1>4 DEF Clones
  <1> QED BY <1>1, <1>3, <1>5, CloneGoes

\* The profile becomes ready: it is being made, so it is paid for and no
\* ticket was asked for.
LEMMA PersistKeeps == ASSUME AccountInv, PersistReady PROVE AccountInv'
  <1>1. /\ clone.pc = "persist" /\ UNCHANGED <<user, charge, maker, ticket, eraser>>
        /\ clone \in Clones /\ profile \in Profiles /\ profile.status \in ProfileStatuses
    BY Shapes DEF PersistReady
  <1>2. CASE profile.status = "creating" /\ ~profile.deleted
    <2>1. /\ profile' = [profile EXCEPT !.status = "ready", !.vocal = clone.got]
          /\ clone' = [clone EXCEPT !.pc = "return"]
      BY <1>2 DEF PersistReady
    <2>2. clone.got \in VocalIds BY <1>1 DEF Clones
    <2>3. /\ profile' \in Profiles /\ profile'.status = "ready"
          /\ profile'.deleted = profile.deleted
      BY <1>1, <2>1, <2>2 DEF Profiles, ProfileStatuses
    <2>4. clone' \in Clones /\ clone'.pc = "return" BY <1>1, <2>1 DEF Clones
    <2>5. ProfileInv' BY <1>1, <1>2, <2>3 DEF AccountInv, ProfileInv, Alive
    <2>6. MakerInv' BY <1>1, <1>2, <2>3 DEF AccountInv, MakerInv
    <2>7. CloneOK(clone', profile'.status) BY <2>3, <2>4 DEF CloneOK
    <2>8. HandlersInv' BY <1>1, <1>2, <2>3, GoneIsNot DEF AccountInv, HandlersInv, HandlerOK
    <2> QED BY <1>1, <2>3, <2>4, <2>5, <2>6, <2>7, <2>8, Assembled, Shapes
  <1>3. CASE ~(profile.status = "creating" /\ ~profile.deleted)
    <2>1. profile' = profile /\ clone' = [clone EXCEPT !.pc =
              IF profile.deleted \/ profile.status = "failed" THEN "retain" ELSE "return"]
      BY <1>3, Zenon DEF PersistReady
    <2>2. profile.deleted \/ profile.status = "failed" => profile.status \in Gone
      BY <1>1, Statuses, GoneStatuses DEF AccountInv, ProfileInv
    <2> QED BY <1>1, <2>1, <2>2, CloneGoesOn
  <1> QED BY <1>2, <1>3

LEMMA RetainKeeps == ASSUME AccountInv, RetainVocal PROVE AccountInv'
  <1>1. /\ clone.pc = "retain" /\ clone' = [clone EXCEPT !.pc = "return"]
        /\ profile' = [profile EXCEPT !.vocal = clone.got]
        /\ UNCHANGED <<user, maker, eraser>>
    BY Zenon DEF RetainVocal
  <1>2. /\ profile.status \in Gone /\ profile \in Profiles /\ clone \in Clones
        /\ clone.got \in VocalIds
    BY <1>1, Shapes DEF AccountInv, CloneOK, Clones
  <1>3. profile' \in Profiles /\ profile'.status = profile.status
    BY <1>1, <1>2 DEF Profiles
  <1>4. StatusMoves BY <1>2, <1>3, GoneIsNot DEF StatusMoves
  <1>5. clone' \in Clones /\ clone'.pc = "return" BY <1>1, <1>2 DEF Clones
  <1> QED BY <1>1, <1>4, <1>5, CloneGoes

LEMMA CloneStepKeeps == ASSUME AccountInv, CloneStep PROVE AccountInv'
  BY CloneStartsKeeps, CloneReturnsKeeps, LoadKeeps, VocalKeeps, FailKeeps, RefundKeeps,
     PersistKeeps, RetainKeeps DEF CloneStep

-----------------------------------------------------------------------------
(* Leaving *)

\* A handler that goes to another step.
LEMMA AtMoves ==
    ASSUME AccountInv, StatusMoves, user' \in Users, UNCHANGED <<maker, clone>>,
           NEW e \in Erasers, NEW pc \in EraserPcs, At(e, pc),
           pc = "delete" => profile'.status # "absent",
           pc \in {"enqueue", "unqueue", "purge", "mark", "refund"} => profile'.status \in Gone
    PROVE  AccountInv'
  <1> DEFINE h == [eraser[e] EXCEPT !.pc = pc]
  <1>1. eraser \in [Erasers -> Handlers] /\ eraser[e] \in Handlers BY Shapes
  <1>2. h \in Handlers /\ h.pc = pc BY <1>1 DEF Handlers
  <1>3. eraser' = [eraser EXCEPT ![e] = h] BY <1>1 DEF At
  <1>4. HandlerOK(h, profile'.status) BY <1>2 DEF HandlerOK
  <1> HIDE DEF h
  <1> QED BY <1>2, <1>3, <1>4, EraserMoves

LEMMA DoneMoves ==
    ASSUME AccountInv, StatusMoves, user' \in Users, UNCHANGED <<maker, clone>>,
           NEW e \in Erasers, Done(e)
    PROVE  AccountInv'
  <1> DEFINE i == Idle
             pc == IF e = "self" THEN "done" ELSE "idle"
             h == [i EXCEPT !.pc = pc]
  <1>1. eraser' = [eraser EXCEPT ![e] = h] BY Zenon DEF Done
  <1>2. i \in Handlers BY IdleTyped
  <1>3. pc \in {"done", "idle"} OBVIOUS
  <1> HIDE DEF i, pc
  <1>4. h \in Handlers /\ h.pc = pc BY <1>2, <1>3 DEF Handlers, EraserPcs
  <1>5. HandlerOK(h, profile'.status) BY <1>3, <1>4 DEF HandlerOK
  <1> HIDE DEF h
  <1> QED BY <1>1, <1>4, <1>5, EraserMoves

LEMMA Unwritten == UNCHANGED <<profile, charge, ticket>> => StatusMoves
  BY DEF StatusMoves

LEMMA ErasersAre == {"self", "clerk", "ops"} = Erasers
  BY DEF Erasers

LEMMA EraserPcsAre ==
    {"idle", "done", "list", "delete", "enqueue", "unqueue", "purge", "mark", "refund",
     "anonymize", "count", "phase", "check", "demote", "commit", "cleanup", "told"}
        \subseteq EraserPcs
  BY DEF EraserPcs, Finalizing

LEMMA UserStatus ==
    ASSUME user \in Users, NEW s \in AccountStatuses, NEW m \in {"own", "anonymous"}
    PROVE  /\ [user EXCEPT !.status = s] \in Users
           /\ [user EXCEPT !.email = m] \in Users
           /\ [user EXCEPT !.email = m, !.status = s] \in Users
  BY DEF Users

LEMMA AskKeeps == ASSUME AccountInv, AskDeletion PROVE AccountInv'
  <1>1. /\ user' = [user EXCEPT !.status = "deletion_requested"] /\ At("self", "list")
        /\ UNCHANGED <<profile, charge, maker, clone, ticket>>
    BY DEF AskDeletion
  <1>2. user' \in Users BY <1>1, UserStatus, Shapes DEF AccountStatuses, Users
  <1> QED BY <1>1, <1>2, AtMoves, Unwritten, ErasersAre, EraserPcsAre

\* Clerk is not told, or tells: the status read is kept for the end.
LEMMA ClerkKeeps == ASSUME AccountInv, DeletedAtClerk \/ UserDeleted PROVE AccountInv'
  <1>1. UNCHANGED <<user, profile, charge, maker, clone, ticket>>
    BY DEF DeletedAtClerk, UserDeleted
  <1>2. StatusMoves BY <1>1, Unwritten
  <1>3. CASE eraser' = eraser BY <1>1, <1>2, <1>3, OthersKeep, Shapes DEF MakerMoves
  <1>4. CASE eraser' = [eraser EXCEPT !["clerk"].pc = "list", !["clerk"].next = user.status]
    <2> DEFINE h == [eraser["clerk"] EXCEPT !.pc = "list", !.next = user.status]
    <2>1. "clerk" \in Erasers /\ "list" \in EraserPcs BY ErasersAre, EraserPcsAre
    <2>2. eraser \in [Erasers -> Handlers] /\ eraser["clerk"] \in Handlers BY <2>1, Shapes
    <2>3. user.status \in AccountStatuses BY Shapes DEF Users
    <2>4. h \in Handlers /\ h.pc = "list" BY <2>1, <2>2, <2>3 DEF Handlers
    <2>5. eraser' = [eraser EXCEPT !["clerk"] = h] BY <1>4, <2>1, <2>2 DEF Handlers
    <2>6. HandlerOK(h, profile'.status) BY <2>4 DEF HandlerOK
    <2> HIDE DEF h
    <2> QED BY <1>1, <1>2, <2>1, <2>4, <2>5, <2>6, EraserMoves, Shapes
  <1> QED BY <1>3, <1>4, Zenon DEF DeletedAtClerk, UserDeleted

LEMMA AfterVoiceTyped == \A e : AfterVoice(e) \in {"anonymize", "count"}
  BY DEF AfterVoice

\* What is listed can be deleted as long as it is there at all.
LEMMA ListKeeps == ASSUME AccountInv, NEW e \in Erasers, ListProfiles(e) PROVE AccountInv'
  <1> DEFINE pc == IF profile.status \in InFlow \cup {"absent"} THEN AfterVoice(e)
                   ELSE "delete"
             h == [eraser[e] EXCEPT !.saw = profile.status, !.vocal = profile.vocal, !.pc = pc]
  <1>1. /\ UNCHANGED <<user, profile, charge, maker, clone, ticket>>
        /\ eraser' = [eraser EXCEPT ![e].saw = profile.status, ![e].vocal = profile.vocal,
                                    ![e].pc = pc]
    BY Zenon DEF ListProfiles
  <1>2. StatusMoves BY <1>1, Unwritten
  <1>3. pc \in {"anonymize", "count", "delete"} BY AfterVoiceTyped
  <1>4. pc = "delete" => profile.status # "absent" BY AfterVoiceTyped
  <1> HIDE DEF pc
  <1>5. eraser \in [Erasers -> Handlers] /\ eraser[e] \in Handlers BY Shapes
  <1>6. profile.status \in ProfileStatuses /\ profile.vocal \in VocalIds
    BY Shapes DEF Profiles
  <1>7. pc \in EraserPcs BY <1>3, EraserPcsAre
  <1>8. h \in Handlers /\ h.pc = pc BY <1>5, <1>6, <1>7 DEF Handlers
  <1>9. eraser' = [eraser EXCEPT ![e] = h] BY <1>1, <1>5 DEF Handlers
  <1>10. HandlerOK(h, profile'.status) BY <1>1, <1>3, <1>4, <1>8 DEF HandlerOK
  <1> HIDE DEF h
  <1> QED BY <1>1, <1>2, <1>8, <1>9, <1>10, EraserMoves, Shapes

LEMMA DeleteKeeps == ASSUME AccountInv, NEW e \in Erasers, DeleteProfile(e) PROVE AccountInv'
  <1>1. /\ eraser[e].pc = "delete" /\ UNCHANGED <<user, maker, clone>>
        /\ profile' = [profile EXCEPT !.status = "deletion_requested", !.deleted = TRUE]
        /\ At(e, "unqueue") \/ At(e, "enqueue")
    BY DEF DeleteProfile
  <1>2. profile.status # "absent" BY <1>1 DEF AccountInv, HandlersInv, HandlerOK
  <1>3. profile' \in Profiles /\ profile'.status = "deletion_requested"
    BY <1>1, Shapes DEF Profiles, ProfileStatuses, InFlow
  <1>4. "deletion_requested" \in Gone BY DEF Gone, InFlow
  <1>5. StatusMoves BY <1>2, <1>3, <1>4 DEF StatusMoves
  <1> QED BY <1>1, <1>3, <1>4, <1>5, AtMoves, Shapes, EraserPcsAre

\* The steps of a deletion that leave the profile alone.
LEMMA QueueKeeps ==
    ASSUME AccountInv, NEW e \in Erasers, EnqueueMail(e) \/ PurgeSample(e) PROVE AccountInv'
  <1>1. /\ UNCHANGED <<user, profile, charge, maker, clone, ticket>>
        /\ eraser[e].pc \in {"enqueue", "purge"}
        /\ \E pc \in {"unqueue", "refund", "mark"} : At(e, pc)
    BY DEF EnqueueMail, PurgeSample
  <1>2. profile.status \in Gone BY <1>1 DEF AccountInv, HandlersInv, HandlerOK
  <1> QED BY <1>1, <1>2, AtMoves, Unwritten, Shapes, EraserPcsAre

LEMMA UnqueueKeeps == ASSUME AccountInv, NEW e \in Erasers, UnqueueClone(e) PROVE AccountInv'
  <1> DEFINE h == [eraser[e] EXCEPT !.pc = "purge"]
  <1>1. /\ eraser[e].pc = "unqueue" /\ At(e, "purge")
        /\ UNCHANGED <<user, profile, charge, maker, ticket>>
        /\ clone' = clone \/ clone' = [clone EXCEPT !.job = NoJob]
    BY Zenon DEF UnqueueClone
  <1>2. profile.status \in Gone BY <1>1 DEF AccountInv, HandlersInv, HandlerOK
  <1>3. StatusMoves BY <1>1, Unwritten
  <1>4. clone' \in Clones /\ CloneOK(clone', profile'.status)
    <2>1. CASE clone' = clone BY <1>3, <2>1, CloneKept
    <2>2. CASE clone' = [clone EXCEPT !.job = NoJob]
      <3>1. NoJob \in Jobs /\ NoJob.state = "absent" BY DEF NoJob, Jobs
      <3>2. clone \in Clones /\ CloneOK(clone, profile.status) BY Shapes DEF AccountInv
      <3>3. clone' \in Clones /\ clone'.pc = clone.pc BY <2>2, <3>1, <3>2 DEF Clones
      <3> QED BY <1>1, <1>2, <3>2, <3>3, GoneIsNot DEF CloneOK
    <2> QED BY <1>1, <2>1, <2>2
  <1>5. eraser \in [Erasers -> Handlers] /\ eraser[e] \in Handlers BY Shapes
  <1>6. "purge" \in EraserPcs BY EraserPcsAre
  <1>7. h \in Handlers /\ h.pc = "purge" BY <1>5, <1>6 DEF Handlers
  <1>8. eraser' = [eraser EXCEPT ![e] = h] BY <1>1, <1>5 DEF At
  <1>9. HandlerOK(h, profile'.status) BY <1>1, <1>2, <1>7 DEF HandlerOK
  <1> HIDE DEF h
  <1>10. MakerInv' BY <1>1, <1>3, MakerKept DEF MakerMoves
  <1> QED BY <1>1, <1>3, <1>4, <1>7, <1>8, <1>9, <1>10, ProfileKept, HandlerMoves, Assembled,
             Shapes

LEMMA MarkKeeps == ASSUME AccountInv, NEW e \in Erasers, MarkDeletedLocally(e) PROVE AccountInv'
  <1>1. /\ eraser[e].pc = "mark" /\ At(e, "refund") /\ UNCHANGED <<user, maker, clone>>
        /\ profile' = [profile EXCEPT !.status = "deleted_locally"]
    BY DEF MarkDeletedLocally
  <1>2. profile.status # "absent" BY <1>1, GoneIsNot DEF AccountInv, HandlersInv, HandlerOK
  <1>3. "deleted_locally" \in Gone BY DEF Gone, InFlow
  <1>4. StatusMoves BY <1>1, <1>2, <1>3, StatusGone
  <1>5. profile'.status = "deleted_locally" BY <1>1, Shapes DEF Profiles
  <1> QED BY <1>1, <1>3, <1>4, <1>5, AtMoves, Shapes, EraserPcsAre

LEMMA RefundUnmadeKeeps ==
    ASSUME AccountInv, NEW e \in Erasers, RefundUnmade(e) PROVE AccountInv'
  <1>1. /\ eraser[e].pc = "refund" /\ At(e, AfterVoice(e))
        /\ UNCHANGED <<user, profile, maker, clone>>
    BY DEF RefundUnmade
  <1>2. profile.status \in Gone BY <1>1 DEF AccountInv, HandlersInv, HandlerOK
  <1>3. StatusMoves BY <1>1, <1>2, GoneIsNot, Shapes DEF StatusMoves
  <1>4. AfterVoice(e) \in EraserPcs /\ AfterVoice(e) \in {"anonymize", "count"}
    BY AfterVoiceTyped, EraserPcsAre
  <1> QED BY <1>1, <1>3, <1>4, AtMoves, Shapes

LEMMA AnonymizeKeeps == ASSUME AccountInv, Anonymize PROVE AccountInv'
  <1> DEFINE st == IF eraser["clerk"].next = "active" THEN "deletion_requested"
                   ELSE eraser["clerk"].next
  <1>1. /\ user' = [user EXCEPT !.email = "anonymous", !.status = st] /\ At("clerk", "count")
        /\ UNCHANGED <<profile, charge, maker, clone, ticket>>
    BY Zenon DEF Anonymize
  <1>2. "clerk" \in Erasers BY ErasersAre
  <1>3. eraser["clerk"].next \in AccountStatuses BY <1>2, Shapes DEF Handlers
  <1>4. st \in AccountStatuses BY <1>3 DEF AccountStatuses
  <1> HIDE DEF st
  <1>5. user' \in Users BY <1>1, <1>4, UserStatus, Shapes
  <1> QED BY <1>1, <1>2, <1>5, AtMoves, Unwritten, EraserPcsAre

-----------------------------------------------------------------------------
(* The finalization *)

LEMMA CountKeeps == ASSUME AccountInv, NEW e \in Erasers, CountOpen(e) PROVE AccountInv'
  <1> DEFINE next == IF SomeOpen THEN "provider_deletion_pending" ELSE "ready_for_finalization"
             h == [eraser[e] EXCEPT !.pc = "phase", !.next = next]
  <1>1. UNCHANGED <<user, profile, charge, maker, clone, ticket>> BY DEF CountOpen
  <1>2. CASE At(e, "check")
    BY <1>1, <1>2, AtMoves, Unwritten, Shapes, EraserPcsAre
  <1>3. CASE eraser' = [eraser EXCEPT ![e].pc = "phase", ![e].next = next]
    <2>1. next \in AccountStatuses BY DEF AccountStatuses
    <2>2. "phase" \in EraserPcs BY EraserPcsAre
    <2>3. eraser \in [Erasers -> Handlers] /\ eraser[e] \in Handlers BY Shapes
    <2> HIDE DEF next
    <2>4. h \in Handlers /\ h.pc = "phase" BY <2>1, <2>2, <2>3 DEF Handlers
    <2>5. eraser' = [eraser EXCEPT ![e] = h] BY <1>3, <2>3 DEF Handlers
    <2>6. HandlerOK(h, profile'.status) BY <2>4 DEF HandlerOK
    <2> HIDE DEF h
    <2> QED BY <1>1, <2>4, <2>5, <2>6, EraserMoves, Unwritten, Shapes
  <1> QED BY <1>2, <1>3, Zenon DEF CountOpen

LEMMA PhaseKeeps == ASSUME AccountInv, NEW e \in Erasers, WritePhase(e) PROVE AccountInv'
  <1>1. /\ user' = [user EXCEPT !.status = eraser[e].next] /\ At(e, "check")
        /\ UNCHANGED <<profile, charge, maker, clone, ticket>>
    BY DEF WritePhase
  <1>2. eraser[e].next \in AccountStatuses BY Shapes DEF Handlers
  <1>3. user' \in Users BY <1>1, <1>2, Shapes DEF Users
  <1> QED BY <1>1, <1>3, AtMoves, Unwritten, EraserPcsAre

LEMMA CheckKeeps == ASSUME AccountInv, NEW e \in Erasers, CheckReady(e) PROVE AccountInv'
  <1>1. UNCHANGED <<user, profile, charge, maker, clone, ticket>> BY DEF CheckReady
  <1>2. Done(e) \/ At(e, "cleanup") \/ At(e, "demote") \/ At(e, "commit")
    BY DEF CheckReady
  <1> QED BY <1>1, <1>2, AtMoves, DoneMoves, Unwritten, Shapes, EraserPcsAre

LEMMA DemoteKeeps == ASSUME AccountInv, NEW e \in Erasers, Demote(e) PROVE AccountInv'
  <1>1. /\ user' = [user EXCEPT !.status = "provider_deletion_pending"] /\ Done(e)
        /\ UNCHANGED <<profile, charge, maker, clone, ticket>>
    BY DEF Demote
  <1>2. user' \in Users BY <1>1, Shapes DEF Users, AccountStatuses
  <1> QED BY <1>1, <1>2, DoneMoves, Unwritten

LEMMA FinalizeKeeps == ASSUME AccountInv, NEW e \in Erasers, Finalize(e) PROVE AccountInv'
  <1>1. At(e, "cleanup") /\ UNCHANGED <<charge, maker, clone, ticket>> BY DEF Finalize
  <1>2. user' \in Users
    <2>1. [status |-> "deleted", finalized |-> TRUE, email |-> "anonymous"] \in Users
      BY DEF Users, AccountStatuses
    <2>2. \/ user' = user
          \/ user' = [status |-> "deleted", finalized |-> TRUE, email |-> "anonymous"]
      BY Zenon DEF Finalize
    <2> QED BY <2>1, <2>2, Shapes
  <1>3. StatusMoves
    <2>1. CASE profile' = profile BY <1>1, <2>1, Unwritten
    <2>2. CASE /\ profile.status # "absent"
               /\ profile' = [profile EXCEPT !.status = "provider_deleted", !.deleted = TRUE]
      <3>1. "provider_deleted" \in Gone BY DEF Gone, InFlow
      <3>2. profile' \in Profiles /\ profile'.status = "provider_deleted"
        BY <2>2, Shapes DEF Profiles, ProfileStatuses, InFlow
      <3> QED BY <2>2, <3>1, <3>2 DEF StatusMoves
    <2>3. \/ profile' = profile
          \/ /\ profile.status # "absent"
             /\ profile' = [profile EXCEPT !.status = "provider_deleted", !.deleted = TRUE]
      BY DEF Finalize
    <2> QED BY <2>1, <2>2, <2>3
  <1> QED BY <1>1, <1>2, <1>3, AtMoves, EraserPcsAre

LEMMA EndKeeps ==
    ASSUME AccountInv, NEW e \in Erasers, CleanUpIdentity(e) \/ HandlerEnds(e) \/ EraserFails(e)
    PROVE  AccountInv'
  <1>1. UNCHANGED <<user, profile, charge, maker, clone, ticket>>
    BY DEF CleanUpIdentity, HandlerEnds, EraserFails
  <1>2. CASE At(e, "told") BY <1>1, <1>2, AtMoves, Unwritten, Shapes, EraserPcsAre
  <1>3. CASE Done(e) BY <1>1, <1>3, DoneMoves, Unwritten, Shapes
  <1>4. CASE eraser' = [eraser EXCEPT ![e] = Idle]
    <2>1. HandlerOK(Idle, profile'.status) BY IdleTyped DEF HandlerOK
    <2> QED BY <1>1, <1>4, <2>1, IdleTyped, EraserMoves, Unwritten, Shapes
  <1> QED BY <1>2, <1>3, <1>4, Zenon DEF CleanUpIdentity, HandlerEnds, EraserFails, At

LEMMA EraserStepKeeps ==
    ASSUME AccountInv, NEW e \in Erasers, EraserStep(e) \/ EraserFails(e) PROVE AccountInv'
  BY ListKeeps, DeleteKeeps, QueueKeeps, UnqueueKeeps, MarkKeeps, RefundUnmadeKeeps, CountKeeps,
     PhaseKeeps, CheckKeeps, DemoteKeeps, FinalizeKeeps, EndKeeps DEF EraserStep

-----------------------------------------------------------------------------
(* Tickets, operators and the user who signs in *)

\* A ticket that is on its way shows that the profile cannot become ready.
LEMMA TicketIsGone ==
    ASSUME AccountInv, NEW t \in Tickets, ticket[t].status # "none"
    PROVE  profile.status \in Gone
  BY Shapes, Statuses DEF AccountInv, ProfileInv

LEMMA ReportedMoves ==
    ASSUME AccountInv, profile.status \in Gone, profile' = profile \/ profile' = Reported
    PROVE  StatusMoves
  <1>1. CASE profile' = profile BY <1>1, GoneIsNot, Shapes DEF StatusMoves
  <1>2. CASE profile' = [profile EXCEPT !.status = "provider_deletion_pending"]
    <2>1. "provider_deletion_pending" \in Gone BY DEF Gone, InFlow
    <2> QED BY <1>2, <2>1, GoneIsNot, StatusGone
  <1> QED BY <1>1, <1>2 DEF Reported

LEMMA MailKeeps ==
    ASSUME AccountInv, NEW t \in Tickets, MailStep(t) \/ MailMishap(t) \/ MarkSubmitted(t)
    PROVE  AccountInv'
  <1>1. UNCHANGED <<user, charge, maker, clone, eraser>>
    BY Zenon DEF MailStep, ClaimMail, SendMail, MailSent, MailFailed, MailMishap, MarkSubmitted
  <1>2. StatusMoves
    <2>1. CASE ClaimMail(t)
      <3>1. profile' = profile /\ (ticket' = ticket \/ ticket[t].status # "none")
        BY <2>1 DEF ClaimMail
      <3> QED BY <1>1, <3>1, Unwritten, TicketIsGone, ReportedMoves
    <2>2. CASE SendMail(t) BY <1>1, <2>2, Unwritten DEF SendMail
    <2>3. CASE MailSent(t)
      <3>1. \/ UNCHANGED <<ticket, profile>>
            \/ ticket[t].status = "submitting" /\ profile' = Reported
        BY <2>3 DEF MailSent
      <3> QED BY <1>1, <3>1, Unwritten, TicketIsGone, ReportedMoves
    <2>4. CASE MailFailed(t)
      <3>1. profile' = profile BY Zenon, <2>4 DEF MailFailed
      <3>2. ticket' = ticket \/ ticket[t].status # "none" BY <2>4 DEF MailFailed
      <3> QED BY <1>1, <3>1, <3>2, Unwritten, TicketIsGone, ReportedMoves
    <2>5. CASE MailMishap(t) BY <1>1, <2>5, Unwritten DEF MailMishap
    <2>6. CASE MarkSubmitted(t)
      <3>1. ticket[t].status # "none" /\ profile' = Reported BY <2>6 DEF MarkSubmitted
      <3> QED BY <3>1, TicketIsGone, ReportedMoves
    <2> QED BY <2>1, <2>2, <2>3, <2>4, <2>5, <2>6 DEF MailStep
  <1> QED BY <1>1, <1>2, OthersKeep, Shapes DEF MakerMoves

LEMMA ConfirmedKeeps == ASSUME AccountInv, NEW t \in Tickets, MarkConfirmed(t) PROVE AccountInv'
  <1>1. /\ IsOpen(t) /\ At("ops", "count") /\ UNCHANGED <<user, maker, clone>>
        /\ profile' = [profile EXCEPT !.status = "provider_deleted"]
    BY DEF MarkConfirmed
  <1>2. ticket[t].status # "none" BY <1>1 DEF IsOpen, OpenStatuses
  <1>3. profile.status # "absent" BY <1>2, TicketIsGone, GoneIsNot
  <1>4. "provider_deleted" \in Gone BY DEF Gone, InFlow
  <1>5. StatusMoves BY <1>1, <1>3, <1>4, StatusGone
  <1> QED BY <1>1, <1>5, AtMoves, Shapes, ErasersAre, EraserPcsAre

LEMMA SyncKeeps == ASSUME AccountInv, SyncReads \/ SyncWrites PROVE AccountInv'
  <1>1. /\ UNCHANGED <<profile, charge, maker, clone, ticket, eraser>>
        /\ user' = user \/ user' = [user EXCEPT !.email = "own"]
    BY DEF SyncReads, SyncWrites
  <1>2. user' \in Users BY <1>1, UserStatus, Shapes DEF Users
  <1> QED BY <1>1, <1>2, OthersKeep, Unwritten DEF MakerMoves

-----------------------------------------------------------------------------
\* Every step of the API, the jobs, the sweeps, the operators and Clerk keeps
\* the beliefs of the others true.
THEOREM AccountInvariant == Spec => []AccountInv
  <1>1. Init => AccountInv BY AccountInit
  <1>2. AccountInv /\ [Next]_vars => AccountInv'
    <2> SUFFICES ASSUME AccountInv, [Next]_vars PROVE AccountInv' OBVIOUS
    <2>1. CASE BeginProfile \/ MakerStep \/ MakerDies
      BY <2>1, BeginKeeps, CommitKeeps, EnqueueKeeps, MarkFailedKeeps, MakerDiesKeeps
      DEF MakerStep
    <2>2. CASE CloneStep \/ CloneThrows \/ CloneDies \/ FailStuckClone \/ RefundFailedClone
      BY <2>2, CloneStepKeeps, CloneFaultKeeps, SweepsKeep
    <2>3. CASE AskDeletion \/ DeletedAtClerk \/ UserDeleted \/ Anonymize
      BY <2>3, AskKeeps, ClerkKeeps, AnonymizeKeeps
    <2>4. CASE \E e \in Erasers : EraserStep(e) \/ EraserFails(e) BY <2>4, EraserStepKeeps
    <2>5. CASE \E t \in Tickets : \/ MailStep(t) \/ MailMishap(t)
                                  \/ MarkSubmitted(t) \/ MarkConfirmed(t)
      BY <2>5, MailKeeps, ConfirmedKeeps
    <2>6. CASE SyncReads \/ SyncWrites BY <2>6, SyncKeeps
    <2>7. CASE UNCHANGED vars
      <3>1. UNCHANGED <<user, profile, charge, maker, clone, ticket, eraser>>
        BY <2>7 DEF vars
      <3> QED BY <3>1, OthersKeep, Unwritten, Shapes DEF MakerMoves
    <2> QED BY <2>1, <2>2, <2>3, <2>4, <2>5, <2>6, <2>7 DEF Next
  <1> QED BY <1>1, <1>2, PTL DEF Spec

\* A voice that is ready is paid for, and nobody has asked Mureka to delete
\* its vocal (persistReadyProfile, failVoiceProfile, reconcileStuckVoiceClones,
\* executeVoiceProfileDeletion).
THEOREM ReadyVoiceIsKept == Spec => []ReadyIsKept
  <1>1. AccountInv => ReadyIsKept BY DEF AccountInv, ProfileInv, ReadyIsKept, Alive
  <1> QED BY <1>1, AccountInvariant, PTL
-----------------------------------------------------------------------------
(* A final account has no vocal that Mureka keeps                          *)
(*                                                                         *)
(* The finalization counts the open tickets once and locks nothing, so it  *)
(* is safe only because of what the handlers before it have done: every    *)
(* way to it leads past the ticket for the vocal of the profile, and the   *)
(* vocal does not change any more once a deletion has begun, as the clone  *)
(* was over by then.                                                       *)

\* A row of the table ProviderDataDeletionRequest.
Rows == [status : OpenStatuses \cup {"none", "confirmed"}, vocal : VocalIds, asked : BOOLEAN]

\* A ticket that was made, one that was made if there is a vocal, one that
\* Mureka has confirmed, and what a final account needs.
Made(t)   == ticket[t].status # "none"
Asked     == profile.vocal # NoVocal => \E t \in Tickets : Made(t)
Confirmed == \E t \in Tickets : ticket[t].status = "confirmed"
Settled   == profile.vocal = NoVocal \/ Confirmed

\* Every ticket is for the vocal of the profile.
TicketsInv ==
    /\ ticket \in [Tickets -> Rows]
    /\ \A t \in Tickets : Made(t) => ticket[t].vocal = profile.vocal /\ profile.vocal # NoVocal

\* The vocal is known when the voice was made; a profile in the flow of the
\* deletion has its ticket.
VocalInv ==
    /\ profile.status \in {"absent", "creating"} => profile.vocal = NoVocal
    /\ profile.status \in InFlow => Asked

\* The job never comes to know another vocal than the profile's.
CloneVocal(c, v) ==
    /\ c.pc \in {"persist", "retain"} => c.got # NoVocal /\ c.got = c.known
    /\ v # NoVocal => c.known \in {NoVocal, v} /\ c.pc \in {"idle", "return", "retain"}

\* A deletion has begun; the voice is not being made and will not be.
Begun == user.status # "active" \/ eraser["self"].pc # "idle" \/ eraser["clerk"].pc # "idle"

CloneOver ==
    /\ clone.pc = "idle" /\ clone.job.state # "waiting"
    /\ maker \in {"idle", "done"}
    /\ maker = "idle" => user.status # "active" \/ identity # "kept"

\* The operator's handler only finalizes, after a confirmation.
OpsInv ==
    /\ eraser["ops"].pc \in Finalizing \cup {"idle"}
    /\ eraser["ops"].pc # "idle" => Confirmed

\* Steps of a handler before its transaction for the profile.
Early == {"idle", "done", "list", "delete"}

\* What a handler may believe: behind the deletion of the profile its ticket
\* is there, and the handler that commits has seen it confirmed.
MayFinalize(e) ==
    /\ eraser[e].pc = "delete" => eraser[e].vocal = profile.vocal
    /\ eraser[e].pc \notin Early => Asked
    /\ eraser[e].pc = "commit" => Settled
    /\ eraser[e].pc \in {"phase", "demote", "commit"} => user.status # "active"
    /\ eraser[e].pc = "phase" => eraser[e].next # "active"

\* A final account stays one that is leaving.
FinalUser == user.finalized => user.status # "active" /\ Settled

\* All of it, for behaviours in which no deletion overtakes the clone.
FinalParts ==
    /\ TicketsInv /\ VocalInv /\ CloneVocal(clone, profile.vocal)
    /\ Begun => CloneOver
    /\ OpsInv /\ FinalUser
    /\ \A e \in Erasers : MayFinalize(e)

FinalInv == "late_clone" \notin world => FinalParts

\* In the beginning nothing is made and nobody leaves.
LEMMA FinalInit == Init => FinalParts
  <1> SUFFICES ASSUME Init PROVE FinalParts OBVIOUS
  <1>1. /\ user = [status |-> "active", finalized |-> FALSE, email |-> "own"]
        /\ profile = [status |-> "absent", vocal |-> NoVocal, deleted |-> FALSE]
        /\ maker = "idle"
    BY Zenon DEF Init
  <1>2. clone = [job |-> NoJob, known |-> NoVocal, pc |-> "idle", got |-> NoVocal]
    BY Zenon DEF Init
  <1>3. eraser = [e \in Erasers |-> Idle] BY Zenon DEF Init
  <1>4. ticket = [t \in Tickets |-> [status |-> "none", vocal |-> NoVocal, asked |-> FALSE]]
    BY Zenon DEF Init
  <1>5. TicketsInv BY <1>1, <1>4 DEF TicketsInv, Made, Rows, VocalIds
  <1>6. VocalInv BY <1>1 DEF VocalInv, Asked, InFlow
  <1>7. CloneVocal(clone, profile.vocal) BY <1>1, <1>2 DEF CloneVocal
  <1>8. \A e \in Erasers : eraser[e].pc = "idle" BY <1>3, IdleTyped
  <1>9. ~Begun BY <1>1, <1>8, ErasersAre DEF Begun
  <1>10. OpsInv BY <1>8, ErasersAre DEF OpsInv
  <1>11. FinalUser BY <1>1 DEF FinalUser
  <1>12. \A e \in Erasers : MayFinalize(e) BY <1>8 DEF MayFinalize, Early
  <1> QED BY <1>5, <1>6, <1>7, <1>9, <1>10, <1>11, <1>12 DEF FinalParts

\* What the steps that leave the vocal alone show of the rows.
Kept ==
    /\ TicketsInv' /\ profile'.vocal = profile.vocal
    /\ Asked => Asked'
    /\ Confirmed => Confirmed'
    /\ user.status # "active" => user'.status # "active"

\* Nobody takes a confirmation back.
LEMMA SettledKept == ASSUME Kept, Settled PROVE Settled'
  BY DEF Kept, Settled

\* A step that writes no ticket and no vocal.
LEMMA NothingKept ==
    ASSUME FinalParts, UNCHANGED ticket, profile'.vocal = profile.vocal,
           user.status # "active" => user'.status # "active"
    PROVE  Kept
  BY DEF FinalParts, Kept, TicketsInv, Made, Asked, Confirmed

\* The status moves on into the flow only with the ticket there.
LEMMA VocalKept ==
    ASSUME FinalParts, Kept,
           \/ profile'.status = profile.status
           \/ profile'.status \notin {"absent", "creating"} /\ (profile'.status \in InFlow => Asked')
    PROVE  VocalInv'
  BY DEF FinalParts, Kept, VocalInv

\* Only the finalization makes an account final.
LEMMA FinalUserKept ==
    ASSUME FinalParts, Kept, user'.finalized = user.finalized PROVE FinalUser'
  BY SettledKept DEF FinalParts, FinalUser, Kept

\* The handler of the operator is not moved by the others.
LEMMA OpsKept ==
    ASSUME FinalParts, Kept, eraser'["ops"] = eraser["ops"] PROVE OpsInv'
  BY DEF FinalParts, OpsInv, Kept

\* What a handler believes is not disturbed by the others.
LEMMA MayFinalizeKept ==
    ASSUME FinalParts, Kept, NEW e \in Erasers, eraser'[e] = eraser[e] PROVE MayFinalize(e)'
  BY SettledKept DEF FinalParts, MayFinalize, Kept

\* A step of the request, the job, a sweep or a sign-in, that leaves the
\* handlers alone.
LEMMA OthersFinal ==
    ASSUME FinalParts, Kept, UNCHANGED eraser, user'.status = user.status,
           user'.finalized = user.finalized, VocalInv', CloneVocal(clone', profile'.vocal),
           Begun => CloneOver'
    PROVE  FinalParts'
  <1>1. OpsInv' /\ FinalUser' BY OpsKept, FinalUserKept
  <1>2. \A e \in Erasers : MayFinalize(e)' BY MayFinalizeKept
  <1>3. Begun' => Begun BY DEF Begun
  <1>4. TicketsInv' BY DEF Kept
  <1> QED BY <1>1, <1>2, <1>3, <1>4 DEF FinalParts

\* The job is left alone.
LEMMA CloneVocalKept ==
    ASSUME FinalParts, Kept, clone' = clone PROVE CloneVocal(clone', profile'.vocal)
  BY DEF FinalParts, Kept

\* A step of a handler that goes on.
LEMMA EraserFinal ==
    ASSUME AccountInv, FinalParts, Kept, VocalInv', FinalUser',
           CloneVocal(clone', profile'.vocal), Begun' => CloneOver',
           NEW e \in Erasers, NEW h, eraser' = [eraser EXCEPT ![e] = h],
           h.pc = "delete" => h.vocal = profile'.vocal,
           h.pc \notin Early => Asked',
           h.pc = "commit" => Settled',
           h.pc \in {"phase", "demote", "commit"} => user'.status # "active",
           h.pc = "phase" => h.next # "active",
           e = "ops" => h.pc \in Finalizing \cup {"idle"} /\ (h.pc # "idle" => Confirmed')
    PROVE  FinalParts'
  <1>1. eraser \in [Erasers -> Handlers] BY Shapes
  <1>2. eraser'[e] = h /\ \A f \in Erasers \ {e} : eraser'[f] = eraser[f] BY <1>1
  <1>3. MayFinalize(e)' BY <1>2 DEF MayFinalize
  <1>4. \A f \in Erasers : MayFinalize(f)' BY <1>2, <1>3, MayFinalizeKept
  <1>5. OpsInv'
    <2>1. CASE e = "ops" BY <1>2, <2>1 DEF OpsInv
    <2>2. CASE e # "ops" BY <1>2, <2>2, OpsKept, ErasersAre
    <2> QED BY <2>1, <2>2
  <1>6. TicketsInv' BY DEF Kept
  <1> QED BY <1>4, <1>5, <1>6 DEF FinalParts

\* The clone stays over while handlers that have begun go on.
LEMMA OverKept ==
    ASSUME AccountInv, FinalParts, Kept, UNCHANGED maker,
           clone' = clone \/ clone' = [clone EXCEPT !.job = NoJob],
           identity # "kept" => identity' # "kept",
           NEW e \in Erasers, eraser[e].pc # "idle", NEW h, eraser' = [eraser EXCEPT ![e] = h],
           user'.status # "active" => Begun
    PROVE  Begun' => CloneOver'
  <1> SUFFICES ASSUME Begun' PROVE CloneOver' OBVIOUS
  <1>1. eraser \in [Erasers -> Handlers] BY Shapes
  <1>2. \A f \in Erasers \ {e} : eraser'[f] = eraser[f] BY <1>1
  <1>3. Begun
    <2>1. CASE e \in {"self", "clerk"} BY <2>1 DEF Begun
    <2>2. CASE e = "ops" BY <1>2, <2>2, ErasersAre DEF Begun
    <2> QED BY <2>1, <2>2, ErasersAre
  <1>4. CloneOver BY <1>3 DEF FinalParts
  <1>5. clone'.pc = "idle" /\ clone'.job.state # "waiting"
    <2>1. CASE clone' = clone BY <1>4, <2>1 DEF CloneOver
    <2>2. CASE clone' = [clone EXCEPT !.job = NoJob]
      <3>1. clone \in Clones /\ NoJob.state = "absent" BY Shapes DEF NoJob
      <3> QED BY <1>4, <2>2, <3>1 DEF CloneOver, Clones
    <2> QED BY <2>1, <2>2
  <1> QED BY <1>4, <1>5 DEF CloneOver, Kept

\* The job without its place in the queue knows no more than before.
LEMMA UnqueuedVocal ==
    ASSUME AccountInv, FinalParts, Kept,
           clone' = clone \/ clone' = [clone EXCEPT !.job = NoJob]
    PROVE  CloneVocal(clone', profile'.vocal)
  <1>1. clone \in Clones BY Shapes
  <1>2. clone'.pc = clone.pc /\ clone'.got = clone.got /\ clone'.known = clone.known
    BY <1>1 DEF Clones
  <1> QED BY <1>2 DEF CloneVocal, FinalParts, Kept

\* A handler that has begun goes to another step.
LEMMA AtFinal ==
    ASSUME AccountInv, FinalParts, Kept, VocalInv', FinalUser', UNCHANGED maker,
           clone' = clone \/ clone' = [clone EXCEPT !.job = NoJob],
           identity # "kept" => identity' # "kept", user'.status # "active" => Begun,
           NEW e \in Erasers, eraser[e].pc # "idle",
           NEW pc \in EraserPcs \ {"delete", "phase"}, At(e, pc),
           pc \notin Early => Asked',
           pc = "commit" => Settled',
           pc \in {"demote", "commit"} => user'.status # "active",
           e = "ops" => pc \in Finalizing \cup {"idle"}
    PROVE  FinalParts'
  <1> DEFINE h == [eraser[e] EXCEPT !.pc = pc]
  <1>1. eraser \in [Erasers -> Handlers] /\ eraser[e] \in Handlers BY Shapes
  <1>2. h.pc = pc BY <1>1 DEF Handlers
  <1>3. eraser' = [eraser EXCEPT ![e] = h] BY <1>1 DEF At
  <1>4. e = "ops" => Confirmed' BY DEF FinalParts, OpsInv, Kept
  <1> HIDE DEF h
  <1>5. CloneVocal(clone', profile'.vocal) BY UnqueuedVocal
  <1>6. Begun' => CloneOver' BY <1>3, OverKept
  <1> QED BY <1>2, <1>3, <1>4, <1>5, <1>6, EraserFinal

\* A handler that ends, or is cut short.
LEMMA DoneFinal ==
    ASSUME AccountInv, FinalParts, Kept, VocalInv', FinalUser', UNCHANGED <<maker, clone>>,
           identity # "kept" => identity' # "kept", user'.status # "active" => Begun,
           NEW e \in Erasers, eraser[e].pc # "idle",
           Done(e) \/ eraser' = [eraser EXCEPT ![e] = Idle]
    PROVE  FinalParts'
  <1> DEFINE i == Idle
             pc == IF e = "self" THEN "done" ELSE "idle"
             k == [i EXCEPT !.pc = pc]
  <1>1. eraser' = [eraser EXCEPT ![e] = k] \/ eraser' = [eraser EXCEPT ![e] = i]
    BY Zenon DEF Done
  <1>2. i \in Handlers /\ i.pc = "idle" BY IdleTyped
  <1>3. pc \in {"done", "idle"} /\ (e = "ops" => pc = "idle") OBVIOUS
  <1> HIDE DEF i, pc
  <1>4. k.pc = pc BY <1>2 DEF Handlers
  <1> HIDE DEF k
  <1>5. PICK h \in {k, i} : eraser' = [eraser EXCEPT ![e] = h] BY <1>1
  <1>6. h.pc \in {"done", "idle"} /\ (e = "ops" => h.pc = "idle") BY <1>2, <1>3, <1>4, <1>5
  <1>7. CloneVocal(clone', profile'.vocal) BY UnqueuedVocal
  <1>8. Begun' => CloneOver' BY <1>5, OverKept
  <1>9. /\ h.pc # "delete" /\ h.pc \in Early /\ h.pc # "commit" /\ h.pc # "phase"
        /\ h.pc \notin {"phase", "demote", "commit"}
    BY <1>6 DEF Early
  <1> QED BY <1>5, <1>6, <1>7, <1>8, <1>9, EraserFinal
-----------------------------------------------------------------------------
(* Before the deletion: the voice is made *)

\* What is under way shows that no deletion has begun.
LEMMA NotBegun ==
    ASSUME FinalParts,
           \/ clone.pc # "idle" \/ clone.job.state = "waiting"
           \/ maker \notin {"idle", "done"}
    PROVE  ~Begun
  BY DEF FinalParts, CloneOver

\* A vocal becomes that of the profile while no handler is under way.
LEMMA VocalFound ==
    ASSUME FinalParts, ~Begun, ~Confirmed, UNCHANGED <<user, eraser>>, TicketsInv', VocalInv',
           CloneVocal(clone', profile'.vocal)
    PROVE  FinalParts'
  <1>1. user.status = "active" /\ \A e \in Erasers : eraser[e].pc = "idle"
    BY ErasersAre DEF FinalParts, OpsInv, Begun
  <1>2. ~Begun' BY DEF Begun
  <1>3. FinalUser' BY <1>1 DEF FinalParts, FinalUser
  <1>4. OpsInv' BY <1>1, ErasersAre DEF OpsInv
  <1>5. \A e \in Erasers : MayFinalize(e)' BY <1>1 DEF MayFinalize, Early
  <1> QED BY <1>2, <1>3, <1>4, <1>5 DEF FinalParts

\* The request that makes the profile runs before any deletion begins.
LEMMA MakerFinal ==
    ASSUME AccountInv, FinalParts, "late_clone" \notin world,
           BeginProfile \/ MakerStep \/ MakerDies
    PROVE  FinalParts'
  <1>1. UNCHANGED <<user, ticket, eraser>>
    BY Zenon DEF BeginProfile, MakerStep, CommitProfile, EnqueueProfile, EnqueueUnheard,
                 MarkFailedAndRefund, MakerDies
  <1>2. ~Begun
    <2>1. CASE BeginProfile
      <3>1. maker = "idle" /\ user.status = "active" /\ identity = "kept"
        BY <2>1 DEF BeginProfile
      <3> QED BY <3>1 DEF FinalParts, CloneOver
    <2>2. CASE ~BeginProfile
      <3>1. maker \notin {"idle", "done"}
        BY <2>2 DEF MakerStep, CommitProfile, EnqueueProfile, EnqueueUnheard,
                    MarkFailedAndRefund, MakerDies
      <3> QED BY <3>1, NotBegun
    <2> QED BY <2>1, <2>2
  <1>3. profile \in Profiles BY Shapes
  <1>4. \/ profile' = profile
        \/ maker = "commit" /\ profile' = [profile EXCEPT !.status = "creating"]
        \/ profile' = [profile EXCEPT !.status = "failed"]
    BY Zenon DEF BeginProfile, MakerStep, CommitProfile, EnqueueProfile, EnqueueUnheard,
                 MarkFailedAndRefund, MakerDies
  <1>5. profile'.vocal = profile.vocal BY <1>3, <1>4 DEF Profiles
  <1>6. Kept BY <1>1, <1>5, NothingKept
  <1>7. VocalInv'
    <2>1. CASE profile' = profile BY <1>6, <2>1, VocalKept
    <2>2. CASE maker = "commit" /\ profile' = [profile EXCEPT !.status = "creating"]
      <3>1. profile.vocal = NoVocal
        BY <2>2 DEF AccountInv, MakerInv, FinalParts, VocalInv
      <3>2. profile'.status = "creating" BY <1>3, <2>2 DEF Profiles
      <3> QED BY <1>5, <3>1, <3>2 DEF VocalInv, InFlow
    <2>3. CASE profile' = [profile EXCEPT !.status = "failed"]
      <3>1. profile'.status = "failed" BY <1>3, <2>3 DEF Profiles
      <3> QED BY <1>6, <3>1, VocalKept DEF InFlow
    <2> QED BY <1>4, <2>1, <2>2, <2>3
  <1>8. CloneVocal(clone', profile'.vocal)
    <2>1. CASE clone' = clone BY <1>6, <2>1, CloneVocalKept
    <2>2. CASE clone' = [clone EXCEPT !.job = NewJob]
      <3>1. clone \in Clones BY Shapes
      <3>2. clone'.pc = clone.pc /\ clone'.got = clone.got /\ clone'.known = clone.known
        BY <2>2, <3>1 DEF Clones
      <3> QED BY <1>5, <3>2 DEF CloneVocal, FinalParts
    <2>3. clone' = clone \/ clone' = [clone EXCEPT !.job = NewJob]
      BY Zenon DEF BeginProfile, MakerStep, CommitProfile, EnqueueProfile, EnqueueUnheard,
                   MarkFailedAndRefund, MakerDies
    <2> QED BY <2>1, <2>2, <2>3
  <1> QED BY <1>1, <1>2, <1>6, <1>7, <1>8, OthersFinal

\* A step of the job that finds no vocal.
LEMMA JobFinal ==
    ASSUME AccountInv, FinalParts, clone.pc # "idle" \/ clone.job.state = "waiting",
           UNCHANGED <<user, ticket, eraser>>, profile'.vocal = profile.vocal,
           \/ profile'.status = profile.status
           \/ profile'.status = "failed",
           CloneVocal(clone', profile.vocal)
    PROVE  FinalParts'
  <1>1. Kept BY NothingKept
  <1>2. VocalInv' BY <1>1, VocalKept DEF InFlow
  <1> QED BY <1>1, <1>2, NotBegun, OthersFinal

\* An execution that begins knows the vocal that the job has stored.
LEMMA CloneStartsFinal == ASSUME AccountInv, FinalParts, CloneStarts PROVE FinalParts'
  <1> DEFINE pc == CASE profile.status = "ready" -> "return"
                     [] profile.status # "ready" /\ Blocked ->
                           IF clone.known = NoVocal THEN "return" ELSE "retain"
                     [] OTHER -> IF clone.known = NoVocal THEN "load" ELSE "persist"
  <1>1. /\ clone.job.state = "waiting"
        /\ clone' = [clone EXCEPT !.job.state = "active", !.pc = pc, !.got = clone.known]
        /\ UNCHANGED <<user, profile, ticket, eraser>>
    BY Zenon DEF CloneStarts
  <1>2. pc \in {"return", "retain", "load", "persist"} OBVIOUS
  <1>3. pc \in {"persist", "retain"} => clone.known # NoVocal OBVIOUS
  <1>4. profile.vocal # NoVocal => pc \in {"return", "retain"}
    <2>1. profile.vocal # NoVocal => profile.status \notin {"absent", "creating"}
      BY DEF FinalParts, VocalInv
    <2>2. profile.status \in ProfileStatuses BY Shapes
    <2>3. profile.vocal # NoVocal => profile.status = "ready" \/ Blocked
      BY <2>1, <2>2 DEF Blocked, ProfileStatuses
    <2> QED BY <2>3
  <1> HIDE DEF pc
  <1>5. clone \in Clones BY Shapes
  <1>6. clone'.pc = pc /\ clone'.got = clone.known /\ clone'.known = clone.known
    BY <1>1, <1>5 DEF Clones
  <1>7. CloneVocal(clone', profile.vocal)
    BY <1>2, <1>3, <1>4, <1>6 DEF CloneVocal, FinalParts
  <1> QED BY <1>1, <1>7, JobFinal

\* An execution that goes to PC, or ends, having learnt nothing new.
LEMMA GoesFinal ==
    ASSUME AccountInv, FinalParts, clone.pc # "idle",
           UNCHANGED <<user, ticket, eraser>>, profile'.vocal = profile.vocal,
           profile'.status = profile.status \/ profile'.status = "failed",
           clone'.known \in {clone.known, NoVocal},
           \/ clone'.pc \in {"idle", "return"}
           \/ /\ clone'.pc \notin {"persist", "retain"}
              /\ clone.pc \notin {"return", "retain"}
           \/ /\ clone'.pc = "retain" /\ clone.pc = "persist"
              /\ clone'.got = clone.got /\ clone'.known = clone.known
    PROVE  FinalParts'
  <1>1. CloneVocal(clone', profile.vocal) BY DEF CloneVocal, FinalParts
  <1> QED BY <1>1, JobFinal

\* What an execution keeps of the vocal when it goes on.
LEMMA JobKnows ==
    ASSUME clone \in Clones
    PROVE  /\ \A pc : clone' = [clone EXCEPT !.pc = pc] =>
                         clone'.pc = pc /\ clone'.got = clone.got /\ clone'.known = clone.known
           /\ \A j, pc : clone' = [clone EXCEPT !.job = j, !.pc = pc] =>
                         clone'.pc = pc /\ clone'.known = clone.known
           /\ \A j, pc, got : clone' = [clone EXCEPT !.job = j, !.pc = pc, !.got = got] =>
                         clone'.pc = pc /\ clone'.known = clone.known
  BY DEF Clones

\* The steps of the job that neither find nor store a vocal.
LEMMA PassesFinal ==
    ASSUME AccountInv, FinalParts,
           \/ CloneReturns \/ LoadSample \/ Recheck \/ VocalError \/ RefundProfile
           \/ CloneThrows \/ CloneDies
    PROVE  FinalParts'
  <1>1. clone.pc # "idle" /\ UNCHANGED <<user, profile, ticket, eraser>>
    BY Zenon DEF CloneReturns, LoadSample, Recheck, VocalError, RefundProfile, CloneThrows,
                 CloneDies
  <1>2. clone \in Clones BY Shapes
  <1>3. CASE CloneReturns
    <2> DEFINE j == Completed(clone.job)
    <2>1. clone' = [clone EXCEPT !.job = j, !.pc = "idle", !.got = NoVocal]
      BY <1>3, Zenon DEF CloneReturns
    <2> HIDE DEF j
    <2>2. clone'.pc = "idle" /\ clone'.known = clone.known BY <1>2, <2>1, JobKnows
    <2> QED BY <1>1, <2>2, GoesFinal
  <1>4. CASE LoadSample \/ Recheck
    <2>1. /\ clone.pc \in {"load", "recheck"}
          /\ \E pc \in {"recheck", "fail", "return", "http"} : clone' = [clone EXCEPT !.pc = pc]
      BY <1>4 DEF LoadSample, Recheck
    <2>2. clone'.pc \in {"recheck", "fail", "return", "http"} /\ clone'.known = clone.known
      BY <1>2, <2>1, JobKnows
    <2> QED BY <1>1, <2>1, <2>2, GoesFinal
  <1>5. CASE VocalError
    <2> DEFINE j == Thrown(clone.job, CloneTries)
    <2>1. /\ clone.pc = "http"
          /\ \/ clone' = [clone EXCEPT !.job = j, !.pc = "idle"]
             \/ clone' = [clone EXCEPT !.pc = "fail"]
      BY <1>5, Zenon DEF VocalError
    <2> HIDE DEF j
    <2>2. clone'.pc \in {"idle", "fail"} /\ clone'.known = clone.known
      BY <1>2, <2>1, JobKnows
    <2> QED BY <1>1, <2>1, <2>2, GoesFinal
  <1>6. CASE RefundProfile
    <2>1. clone' = [clone EXCEPT !.pc = "return"] BY <1>6 DEF RefundProfile
    <2>2. clone'.pc = "return" /\ clone'.known = clone.known BY <1>2, <2>1, JobKnows
    <2> QED BY <1>1, <2>2, GoesFinal
  <1>7. CASE CloneThrows \/ CloneDies
    <2> DEFINE j == Thrown(clone.job, CloneTries)
               k == Stalled(clone.job)
    <2>1. PICK known \in {clone.known, NoVocal} :
            \/ clone' = [clone EXCEPT !.job = j, !.pc = "idle", !.got = NoVocal, !.known = known]
            \/ clone' = [clone EXCEPT !.job = k, !.pc = "idle", !.got = NoVocal, !.known = known]
      <3>1. CASE CloneThrows BY <3>1, Zenon DEF CloneThrows
      <3>2. CASE CloneDies BY <3>2, Zenon DEF CloneDies
      <3> QED BY <1>7, <3>1, <3>2
    <2> HIDE DEF j, k
    <2>2. clone'.pc = "idle" /\ clone'.known = known BY <1>2, <2>1 DEF Clones
    <2> QED BY <1>1, <2>1, <2>2, GoesFinal
  <1> QED BY <1>3, <1>4, <1>5, <1>6, <1>7

\* The first vocal heard of: the profile has none yet.
LEMMA HeardFinal == ASSUME AccountInv, FinalParts, VocalHeard PROVE FinalParts'
  <1>1. clone.pc = "http" /\ UNCHANGED <<user, profile, ticket, eraser>> BY DEF VocalHeard
  <1>2. PICK v \in AnyOf(Vocals \ vocals) :
            clone' = [clone EXCEPT !.pc = "persist", !.got = v, !.known = v]
    BY DEF VocalHeard
  <1>3. v # NoVocal BY AnyOfIsIn, VocalAssumption
  <1>4. clone \in Clones BY Shapes
  <1>5. clone'.pc = "persist" /\ clone'.got = v /\ clone'.known = v BY <1>2, <1>4 DEF Clones
  <1>6. profile.vocal = NoVocal BY <1>1 DEF FinalParts, CloneVocal
  <1>7. CloneVocal(clone', profile.vocal) BY <1>3, <1>5, <1>6 DEF CloneVocal
  <1> QED BY <1>1, <1>7, JobFinal

\* failVoiceProfile leaves the vocal alone.
LEMMA FailFinal == ASSUME AccountInv, FinalParts, FailProfile PROVE FinalParts'
  <1>1. /\ clone.pc = "fail" /\ clone' = [clone EXCEPT !.pc = "refund"]
        /\ UNCHANGED <<user, ticket, eraser>>
        /\ profile' = profile \/ profile' = [profile EXCEPT !.status = "failed"]
    BY Zenon DEF FailProfile
  <1>2. clone \in Clones /\ profile \in Profiles BY Shapes
  <1>3. /\ profile'.vocal = profile.vocal
        /\ profile'.status = profile.status \/ profile'.status = "failed"
    BY <1>1, <1>2 DEF Profiles
  <1>4. clone'.pc = "refund" /\ clone'.known = clone.known BY <1>1, <1>2, JobKnows
  <1> QED BY <1>1, <1>3, <1>4, GoesFinal

\* The vocal of a voice that becomes ready: no ticket is there yet.
LEMMA PersistFinal == ASSUME AccountInv, FinalParts, PersistReady PROVE FinalParts'
  <1>1. clone.pc = "persist" /\ UNCHANGED <<user, ticket, eraser>> BY DEF PersistReady
  <1>2. clone \in Clones /\ profile \in Profiles BY Shapes
  <1>3. CASE profile.status = "creating" /\ ~profile.deleted
    <2>1. /\ profile' = [profile EXCEPT !.status = "ready", !.vocal = clone.got]
          /\ clone' = [clone EXCEPT !.pc = "return"]
      BY <1>3 DEF PersistReady
    <2>2. profile'.status = "ready" /\ profile'.vocal = clone.got
      BY <1>2, <2>1 DEF Profiles
    <2>3. clone'.pc = "return" /\ clone'.known = clone.known BY <1>2, <2>1, JobKnows
    <2>4. \A t \in Tickets : ticket[t].status = "none"
      BY <1>3 DEF AccountInv, ProfileInv, Alive
    <2>5. ~Confirmed BY <2>4 DEF Confirmed
    <2>6. TicketsInv' BY <1>1, <2>4 DEF FinalParts, TicketsInv, Made
    <2>7. VocalInv' BY <2>2 DEF VocalInv, InFlow
    <2>8. clone.got = clone.known BY <1>1 DEF FinalParts, CloneVocal
    <2>9. CloneVocal(clone', profile'.vocal) BY <2>2, <2>3, <2>8 DEF CloneVocal
    <2> QED BY <1>1, <2>5, <2>6, <2>7, <2>9, NotBegun, VocalFound
  <1>4. CASE ~(profile.status = "creating" /\ ~profile.deleted)
    <2>1. profile' = profile /\ clone' = [clone EXCEPT !.pc =
              IF profile.deleted \/ profile.status = "failed" THEN "retain" ELSE "return"]
      BY <1>4, Zenon DEF PersistReady
    <2>2. /\ clone'.pc \in {"retain", "return"} /\ clone'.got = clone.got
          /\ clone'.known = clone.known
      BY <1>2, <2>1, JobKnows
    <2> QED BY <1>1, <2>1, <2>2, GoesFinal
  <1> QED BY <1>3, <1>4

\* A ticket for V among tickets for V, unless one is open.
LEMMA TicketAdded ==
    ASSUME ticket \in [Tickets -> Rows], NEW v \in VocalIds, NEW a \in BOOLEAN,
           \A t \in Tickets : Made(t) => ticket[t].vocal = v,
           ticket' \in AddTicket(v, a)
    PROVE  /\ ticket' \in [Tickets -> Rows]
           /\ \A t \in Tickets : Made(t)' => ticket'[t].vocal = v
           /\ \E t \in Tickets : Made(t)'
           /\ Confirmed => Confirmed'
  <1>1. CASE SomeOpen
    <2>1. ticket' = ticket BY <1>1 DEF AddTicket
    <2>2. \E t \in Tickets : Made(t) BY <1>1 DEF SomeOpen, IsOpen, OpenStatuses, Made
    <2> QED BY <2>1, <2>2 DEF Made, Confirmed
  <1>2. CASE ~SomeOpen
    <2> DEFINE r == [status |-> "pending", vocal |-> v, asked |-> a]
    <2>1. ticket' \in {[ticket EXCEPT ![t] = r] :
                          t \in AnyOf({t \in Tickets : ticket[t].status = "none"})}
      BY <1>2, Zenon DEF AddTicket
    <2>2. PICK t \in AnyOf({t \in Tickets : ticket[t].status = "none"}) :
              ticket' = [ticket EXCEPT ![t] = r]
      BY <2>1
    <2>3. t \in {u \in Tickets : ticket[u].status = "none"} BY AnyOfIsIn, Zenon
    <2>4. t \in Tickets /\ ticket[t].status = "none" BY <2>3
    <2>5. r \in Rows /\ r.status = "pending" /\ r.vocal = v BY DEF Rows, OpenStatuses
    <2> HIDE DEF r
    <2>6. ticket' \in [Tickets -> Rows] BY <2>2, <2>4, <2>5
    <2>7. ticket'[t] = r /\ \A u \in Tickets \ {t} : ticket'[u] = ticket[u] BY <2>2, <2>4
    <2>8. \A u \in Tickets : Made(u)' => ticket'[u].vocal = v BY <2>5, <2>7 DEF Made
    <2>9. Made(t)' BY <2>5, <2>7 DEF Made
    <2>10. Confirmed => Confirmed' BY <2>4, <2>7 DEF Confirmed
    <2> QED BY <2>4, <2>6, <2>8, <2>9, <2>10
  <1> QED BY <1>1, <1>2

\* A vocal that came too late for the voice gets its ticket.
LEMMA RetainFinal == ASSUME AccountInv, FinalParts, RetainVocal PROVE FinalParts'
  <1>1. /\ clone.pc = "retain" /\ clone' = [clone EXCEPT !.pc = "return"]
        /\ profile' = [profile EXCEPT !.vocal = clone.got]
        /\ ticket' \in AddTicket(clone.got, FALSE)
        /\ UNCHANGED <<user, eraser>>
    BY Zenon DEF RetainVocal
  <1>2. clone \in Clones /\ profile \in Profiles /\ clone.got \in VocalIds
    BY Shapes DEF Clones
  <1>3. clone'.pc = "return" /\ clone'.known = clone.known BY <1>1, <1>2, JobKnows
  <1>4. profile'.vocal = clone.got /\ profile'.status = profile.status
    BY <1>1, <1>2 DEF Profiles
  <1>5. /\ clone.got # NoVocal /\ clone.got = clone.known
        /\ profile.vocal # NoVocal => profile.vocal = clone.got
    BY <1>1 DEF FinalParts, CloneVocal
  <1>6. \A t \in Tickets : Made(t) => ticket[t].vocal = clone.got
    BY <1>5 DEF FinalParts, TicketsInv
  <1>7. ticket \in [Tickets -> Rows] BY DEF FinalParts, TicketsInv
  <1>8. /\ ticket' \in [Tickets -> Rows]
        /\ \A t \in Tickets : Made(t)' => ticket'[t].vocal = clone.got
        /\ \E t \in Tickets : Made(t)'
        /\ Confirmed => Confirmed'
    BY <1>1, <1>2, <1>6, <1>7, TicketAdded
  <1>9. TicketsInv' BY <1>4, <1>5, <1>8 DEF TicketsInv
  <1>10. Asked' BY <1>8 DEF Asked
  <1>11. CloneVocal(clone', profile'.vocal) BY <1>3, <1>4, <1>5 DEF CloneVocal
  <1>12. profile.status \in Gone BY <1>1 DEF AccountInv, CloneOK
  <1>13. VocalInv' BY <1>4, <1>10, <1>12, GoneIsNot DEF VocalInv
  <1>14. ~Begun BY <1>1, NotBegun
  <1>15. CASE Confirmed
    <2>1. profile.vocal # NoVocal BY <1>15 DEF FinalParts, TicketsInv, Confirmed, Made
    <2>2. Kept BY <1>1, <1>4, <1>5, <1>8, <1>9, <1>10, <2>1 DEF Kept
    <2> QED BY <1>1, <1>11, <1>13, <1>14, <2>2, OthersFinal
  <1>16. CASE ~Confirmed
    BY <1>1, <1>9, <1>11, <1>13, <1>14, <1>16, VocalFound
  <1> QED BY <1>15, <1>16

\* reconcileStuckVoiceClones and reconcileMissingVoiceRefunds write no vocal.
LEMMA SweepsFinal ==
    ASSUME AccountInv, FinalParts, FailStuckClone \/ RefundFailedClone PROVE FinalParts'
  <1>1. /\ UNCHANGED <<user, identity, maker, clone, ticket, eraser>>
        /\ profile' = profile \/ profile' = [profile EXCEPT !.status = "failed"]
    BY DEF FailStuckClone, RefundFailedClone
  <1>2. profile \in Profiles BY Shapes
  <1>3. /\ profile'.vocal = profile.vocal
        /\ profile'.status = profile.status \/ profile'.status = "failed"
    BY <1>1, <1>2 DEF Profiles
  <1>4. Kept BY <1>1, <1>3, NothingKept
  <1>5. VocalInv' BY <1>3, <1>4, VocalKept DEF InFlow
  <1>6. Begun => CloneOver' BY <1>1 DEF FinalParts, CloneOver
  <1> QED BY <1>1, <1>4, <1>5, <1>6, CloneVocalKept, OthersFinal
-----------------------------------------------------------------------------
(* The deletion, the finalization, the tickets *)

\* Whoever begins to delete finds the clone over.
LEMMA BeginFinal ==
    ASSUME AccountInv, FinalParts, NEW e \in {"self", "clerk"}, NEW h, h.pc = "list",
           eraser' = [eraser EXCEPT ![e] = h], "late_clone" \notin world, MayBegin(e),
           UNCHANGED <<profile, maker, clone, ticket>>, user'.finalized = user.finalized,
           identity' = identity,
           user.status # "active" => user'.status # "active",
           user'.status # "active" \/ identity # "kept"
    PROVE  FinalParts'
  <1>1. Kept BY NothingKept
  <1>2. VocalInv' /\ FinalUser' BY <1>1, VocalKept, FinalUserKept
  <1>3. CloneOver' BY DEF MayBegin, CloneOver
  <1>4. e \in Erasers BY ErasersAre
  <1>5. CloneVocal(clone', profile'.vocal) BY <1>1, CloneVocalKept
  <1>6. "list" \in Early /\ "list" \notin {"delete", "commit", "phase", "demote"} BY DEF Early
  <1> QED BY <1>1, <1>2, <1>3, <1>4, <1>5, <1>6, EraserFinal

\* The user asks, or Clerk tells.
LEMMA AskFinal ==
    ASSUME AccountInv, FinalParts, "late_clone" \notin world,
           AskDeletion \/ DeletedAtClerk \/ UserDeleted
    PROVE  FinalParts'
  <1>1. UNCHANGED <<profile, maker, clone, ticket>> /\ user'.finalized = user.finalized
    <2>1. user \in Users BY Shapes
    <2>2. user' = user \/ user' = [user EXCEPT !.status = "deletion_requested"]
      BY DEF AskDeletion, DeletedAtClerk, UserDeleted
    <2>3. user'.finalized = user.finalized BY <2>1, <2>2 DEF Users
    <2> QED BY <2>3 DEF AskDeletion, DeletedAtClerk, UserDeleted
  <1>2. CASE AskDeletion
    <2> DEFINE h == [eraser["self"] EXCEPT !.pc = "list"]
    <2>1. /\ user' = [user EXCEPT !.status = "deletion_requested"] /\ At("self", "list")
          /\ MayBegin("self") /\ identity' = identity
      BY <1>2 DEF AskDeletion
    <2>2. user'.status = "deletion_requested" BY <2>1, Shapes DEF Users
    <2>3. eraser["self"] \in Handlers BY Shapes, ErasersAre
    <2>4. h.pc = "list" BY <2>3 DEF Handlers
    <2>5. eraser' = [eraser EXCEPT !["self"] = h] BY <2>1, <2>3 DEF At
    <2> HIDE DEF h
    <2> QED BY <1>1, <2>1, <2>2, <2>4, <2>5, BeginFinal
  <1>3. CASE user' = user /\ eraser' = eraser /\ identity' # "kept"
    <2>1. Kept BY <1>1, <1>3, NothingKept
    <2>2. VocalInv' BY <1>1, <2>1, VocalKept
    <2>3. Begun => CloneOver' BY <1>1, <1>3 DEF FinalParts, CloneOver
    <2> QED BY <1>1, <1>3, <2>1, <2>2, <2>3, CloneVocalKept, OthersFinal
  <1>4. CASE UserDeleted /\ eraser' # eraser
    <2> DEFINE h == [eraser["clerk"] EXCEPT !.pc = "list", !.next = user.status]
    <2>1. /\ eraser' = [eraser EXCEPT !["clerk"].pc = "list", !["clerk"].next = user.status]
          /\ identity = "gone" /\ identity' = identity /\ user' = user /\ MayBegin("clerk")
      BY <1>4 DEF UserDeleted
    <2>2. eraser \in [Erasers -> Handlers] /\ eraser["clerk"] \in Handlers
      BY Shapes, ErasersAre
    <2>3. h.pc = "list" BY <2>2 DEF Handlers
    <2>4. eraser' = [eraser EXCEPT !["clerk"] = h] BY <2>1, <2>2, ErasersAre DEF Handlers
    <2> HIDE DEF h
    <2> QED BY <1>1, <2>1, <2>3, <2>4, BeginFinal
  <1>5. DeletedAtClerk => user' = user /\ eraser' = eraser /\ identity' # "kept"
    BY DEF DeletedAtClerk
  <1>6. UserDeleted /\ eraser' = eraser => user' = user /\ identity' # "kept"
    BY DEF UserDeleted
  <1> QED BY <1>2, <1>3, <1>4, <1>5, <1>6

\* A handler that goes on without a word to the user or the profile.
LEMMA PassFinal ==
    ASSUME AccountInv, FinalParts, UNCHANGED <<user, profile, maker, ticket>>,
           clone' = clone \/ clone' = [clone EXCEPT !.job = NoJob],
           identity # "kept" => identity' # "kept",
           NEW e \in Erasers, eraser[e].pc # "idle",
           NEW pc \in EraserPcs \ {"delete", "phase"}, At(e, pc),
           eraser[e].pc \notin Early,
           pc = "commit" => Settled,
           pc \in {"demote", "commit"} => user.status # "active",
           e = "ops" => pc \in Finalizing \cup {"idle"}
    PROVE  FinalParts'
  <1>1. Kept BY NothingKept
  <1>2. VocalInv' /\ FinalUser' BY <1>1, VocalKept, FinalUserKept
  <1>3. Asked' BY <1>1 DEF FinalParts, MayFinalize, Kept
  <1>4. pc = "commit" => Settled' BY <1>1, SettledKept
  <1>5. user'.status # "active" => Begun BY DEF Begun
  <1> QED BY <1>1, <1>2, <1>3, <1>4, <1>5, AtFinal

\* Which steps are behind the transaction for the profile.
LEMMA NotEarly ==
    /\ "idle" \in Early /\ "done" \in Early /\ "list" \in Early /\ "delete" \in Early
    /\ \A pc : pc \notin Early =>
          pc # "idle" /\ pc # "done" /\ pc # "list" /\ pc # "delete"
    /\ \A pc \in {"enqueue", "unqueue", "purge", "mark", "refund", "anonymize", "count",
                  "phase", "check", "demote", "commit", "cleanup", "told"} : pc \notin Early
  BY DEF Early

\* The operator's handler is not one that deletes.
LEMMA OpsOnlyFinalizes ==
    ASSUME FinalParts,
           eraser["ops"].pc \in {"done", "list", "delete", "enqueue", "unqueue", "purge", "mark",
                                 "refund", "anonymize"}
    PROVE  FALSE
  BY DEF FinalParts, OpsInv, Finalizing

\* What is listed is the vocal to the end, as the clone is over; a profile
\* that another handler has deleted has its ticket.
LEMMA ListFinal ==
    ASSUME AccountInv, FinalParts, NEW e \in Erasers, ListProfiles(e) PROVE FinalParts'
  <1> DEFINE pc == IF profile.status \in InFlow \cup {"absent"} THEN AfterVoice(e)
                   ELSE "delete"
             h == [eraser[e] EXCEPT !.saw = profile.status, !.vocal = profile.vocal, !.pc = pc]
  <1>1. /\ UNCHANGED <<user, identity, profile, maker, clone, ticket>>
        /\ eraser[e].pc = "list"
        /\ eraser' = [eraser EXCEPT ![e].saw = profile.status, ![e].vocal = profile.vocal,
                                    ![e].pc = pc]
    BY Zenon DEF ListProfiles
  <1>2. pc \in {"anonymize", "count", "delete"} BY AfterVoiceTyped
  <1>3. pc # "delete" => Asked
    BY AfterVoiceTyped DEF FinalParts, VocalInv, Asked
  <1> HIDE DEF pc
  <1>4. eraser \in [Erasers -> Handlers] /\ eraser[e] \in Handlers BY Shapes
  <1>5. h.pc = pc /\ h.vocal = profile.vocal BY <1>4 DEF Handlers
  <1>6. eraser' = [eraser EXCEPT ![e] = h] BY <1>1, <1>4 DEF Handlers
  <1> HIDE DEF h
  <1>7. Kept BY <1>1, NothingKept
  <1>8. VocalInv' /\ FinalUser' BY <1>1, <1>7, VocalKept, FinalUserKept
  <1>9. CloneVocal(clone', profile'.vocal) BY <1>1, <1>7, CloneVocalKept
  <1>10. Begun' => CloneOver'
    <2>1. user'.status # "active" => Begun BY <1>1 DEF Begun
    <2> QED BY <1>1, <1>6, <1>7, <2>1, OverKept
  <1>11. e # "ops" BY <1>1, OpsOnlyFinalizes
  <1>12. h.pc \notin Early => Asked' BY <1>3, <1>5, <1>7, NotEarly DEF Kept
  <1>13. h.pc \notin {"commit", "phase", "demote"} BY <1>2, <1>5
  <1>14. h.vocal = profile'.vocal BY <1>1, <1>5
  <1> QED BY <1>6, <1>7, <1>8, <1>9, <1>10, <1>11, <1>12, <1>13, <1>14, EraserFinal

\* The transaction that deletes the profile asks for the vocal's deletion.
LEMMA DeleteFinal ==
    ASSUME AccountInv, FinalParts, NEW e \in Erasers, DeleteProfile(e) PROVE FinalParts'
  <1>1. /\ eraser[e].pc = "delete" /\ UNCHANGED <<user, identity, maker, clone>>
        /\ profile' = [profile EXCEPT !.status = "deletion_requested", !.deleted = TRUE]
        /\ ticket' \in IF eraser[e].vocal = NoVocal THEN {ticket}
                       ELSE AddTicket(eraser[e].vocal, TRUE)
        /\ At(e, IF ticket' = ticket THEN "unqueue" ELSE "enqueue")
    BY Zenon DEF DeleteProfile
  <1>2. profile \in Profiles BY Shapes
  <1>3. profile'.vocal = profile.vocal /\ profile'.status = "deletion_requested"
    BY <1>1, <1>2 DEF Profiles
  <1>4. eraser[e].vocal = profile.vocal BY <1>1 DEF FinalParts, MayFinalize
  <1>5. TicketsInv' /\ Asked' /\ (Confirmed => Confirmed')
    <2>1. CASE profile.vocal = NoVocal
      <3>1. ticket' = ticket BY <1>1, <1>4, <2>1
      <3> QED BY <1>3, <2>1, <3>1 DEF FinalParts, TicketsInv, Made, Asked, Confirmed
    <2>2. CASE profile.vocal # NoVocal
      <3>1. ticket' \in AddTicket(profile.vocal, TRUE) BY <1>1, <1>4, <2>2
      <3>2. profile.vocal \in VocalIds BY <1>2 DEF Profiles
      <3>3. /\ ticket \in [Tickets -> Rows]
            /\ \A t \in Tickets : Made(t) => ticket[t].vocal = profile.vocal
        BY DEF FinalParts, TicketsInv
      <3>4. /\ ticket' \in [Tickets -> Rows]
            /\ \A t \in Tickets : Made(t)' => ticket'[t].vocal = profile.vocal
            /\ \E t \in Tickets : Made(t)'
            /\ Confirmed => Confirmed'
        BY <3>1, <3>2, <3>3, TicketAdded
      <3>5. TicketsInv' BY <1>3, <2>2, <3>4 DEF TicketsInv
      <3>6. Asked' BY <3>4 DEF Asked
      <3> QED BY <3>4, <3>5, <3>6
    <2> QED BY <2>1, <2>2
  <1>6. Kept BY <1>1, <1>3, <1>5 DEF Kept
  <1>7. VocalInv' BY <1>3, <1>5 DEF VocalInv
  <1>8. FinalUser' BY <1>1, <1>6, FinalUserKept
  <1>9. e # "ops" BY <1>1, OpsOnlyFinalizes
  <1>10. PICK pc \in {"unqueue", "enqueue"} : At(e, pc) BY <1>1
  <1>11. pc \in EraserPcs \ {"delete", "phase"} /\ pc \notin {"commit", "demote"}
    BY <1>10, EraserPcsAre
  <1>12. user'.status # "active" => Begun BY <1>1 DEF Begun
  <1> QED BY <1>1, <1>5, <1>6, <1>7, <1>8, <1>9, <1>10, <1>11, <1>12, AtFinal

\* The other steps of the deletion; the clone's place in the queue is freed.
LEMMA RestFinal ==
    ASSUME AccountInv, FinalParts, NEW e \in Erasers,
           EnqueueMail(e) \/ UnqueueClone(e) \/ PurgeSample(e) \/ RefundUnmade(e)
    PROVE  FinalParts'
  <1>1. /\ UNCHANGED <<user, identity, profile, maker, ticket>>
        /\ eraser[e].pc \in {"enqueue", "unqueue", "purge", "refund"}
        /\ clone' = clone \/ clone' = [clone EXCEPT !.job = NoJob]
    BY Zenon DEF EnqueueMail, UnqueueClone, PurgeSample, RefundUnmade
  <1>2. \E pc \in {"unqueue", "purge", "refund", "mark", "anonymize", "count"} : At(e, pc)
    BY AfterVoiceTyped DEF EnqueueMail, UnqueueClone, PurgeSample, RefundUnmade
  <1>3. PICK pc \in {"unqueue", "purge", "refund", "mark", "anonymize", "count"} : At(e, pc)
    BY <1>2
  <1>4. pc \in EraserPcs \ {"delete", "phase"} /\ pc \notin {"commit", "demote"}
    BY <1>3, EraserPcsAre
  <1>5. e # "ops" BY <1>1, OpsOnlyFinalizes
  <1>6. eraser[e].pc \notin Early BY <1>1, NotEarly
  <1> QED BY <1>1, <1>3, <1>4, <1>5, <1>6, NotEarly, PassFinal

\* The profile is marked behind its ticket.
LEMMA MarkFinal ==
    ASSUME AccountInv, FinalParts, NEW e \in Erasers, MarkDeletedLocally(e) PROVE FinalParts'
  <1>1. /\ eraser[e].pc = "mark" /\ At(e, "refund")
        /\ UNCHANGED <<user, identity, maker, clone, ticket>>
        /\ profile' = [profile EXCEPT !.status = "deleted_locally"]
    BY DEF MarkDeletedLocally
  <1>2. profile'.status = "deleted_locally" /\ profile'.vocal = profile.vocal
    BY <1>1, Shapes DEF Profiles
  <1>3. Kept BY <1>1, <1>2, NothingKept
  <1>4. eraser[e].pc \notin Early BY <1>1, NotEarly
  <1>5. Asked' BY <1>3, <1>4 DEF FinalParts, MayFinalize, Kept
  <1>6. VocalInv' BY <1>2, <1>5 DEF VocalInv
  <1>7. FinalUser' BY <1>1, <1>3, FinalUserKept
  <1>8. e # "ops" BY <1>1, OpsOnlyFinalizes
  <1>9. "refund" \in EraserPcs \ {"delete", "phase"} BY EraserPcsAre
  <1>10. user'.status # "active" => Begun BY <1>1 DEF Begun
  <1> QED BY <1>1, <1>3, <1>5, <1>6, <1>7, <1>8, <1>9, <1>10, AtFinal

\* A handler that writes only the status of the user, which leaves "active"
\* for good.
LEMMA StatusFinal ==
    ASSUME AccountInv, FinalParts, UNCHANGED <<identity, profile, maker, clone, ticket>>,
           user'.finalized = user.finalized, user'.status # "active", Begun,
           NEW e \in Erasers, eraser[e].pc \notin Early,
           NEW pc \in {"count", "check"}, At(e, pc)
    PROVE  FinalParts'
  <1>1. Kept BY NothingKept
  <1>2. VocalInv' /\ FinalUser' BY <1>1, VocalKept, FinalUserKept
  <1>3. Asked' BY <1>1 DEF FinalParts, MayFinalize, Kept
  <1>4. /\ pc \in EraserPcs \ {"delete", "phase"} /\ pc \notin {"commit", "demote"}
        /\ pc \in Finalizing
    BY EraserPcsAre DEF Finalizing
  <1>5. eraser[e].pc # "idle" BY NotEarly
  <1> QED BY <1>1, <1>2, <1>3, <1>4, <1>5, AtFinal

\* Clerk's handler writes back the status it read, but never "active".
LEMMA AnonymizeFinal == ASSUME AccountInv, FinalParts, Anonymize PROVE FinalParts'
  <1> DEFINE st == IF eraser["clerk"].next = "active" THEN "deletion_requested"
                   ELSE eraser["clerk"].next
  <1>1. /\ eraser["clerk"].pc = "anonymize" /\ At("clerk", "count")
        /\ user' = [user EXCEPT !.email = "anonymous", !.status = st]
        /\ UNCHANGED <<identity, profile, maker, clone, ticket>>
    BY Zenon DEF Anonymize
  <1>2. st # "active" OBVIOUS
  <1> HIDE DEF st
  <1>3. user'.status # "active" /\ user'.finalized = user.finalized
    BY <1>1, <1>2, Shapes DEF Users
  <1>4. Begun BY <1>1 DEF Begun
  <1>5. "clerk" \in Erasers /\ eraser["clerk"].pc \notin Early BY <1>1, ErasersAre, NotEarly
  <1> QED BY <1>1, <1>3, <1>4, <1>5, StatusFinal

\* The open tickets are counted behind the deletion.
LEMMA CountFinal ==
    ASSUME AccountInv, FinalParts, NEW e \in Erasers, CountOpen(e) PROVE FinalParts'
  <1> DEFINE next == IF SomeOpen THEN "provider_deletion_pending" ELSE "ready_for_finalization"
             h == [eraser[e] EXCEPT !.pc = "phase", !.next = next]
  <1>1. /\ UNCHANGED <<user, identity, profile, maker, clone, ticket>>
        /\ eraser[e].pc = "count"
    BY DEF CountOpen
  <1>2. eraser[e].pc \notin Early /\ eraser[e].pc # "idle" BY <1>1, NotEarly
  <1>3. CASE At(e, "check")
    <2>1. /\ "check" \in EraserPcs \ {"delete", "phase"} /\ "check" \notin {"commit", "demote"}
          /\ "check" \in Finalizing
      BY EraserPcsAre DEF Finalizing
    <2> QED BY <1>1, <1>2, <1>3, <2>1, PassFinal
  <1>4. CASE /\ user.status # "active"
             /\ eraser' = [eraser EXCEPT ![e].pc = "phase", ![e].next = next]
    <2>1. next # "active" OBVIOUS
    <2> HIDE DEF next
    <2>2. eraser \in [Erasers -> Handlers] /\ eraser[e] \in Handlers BY Shapes
    <2>3. h.pc = "phase" /\ h.next = next BY <2>2 DEF Handlers
    <2>4. eraser' = [eraser EXCEPT ![e] = h] BY <1>4, <2>2 DEF Handlers
    <2> HIDE DEF h
    <2>5. Kept BY <1>1, NothingKept
    <2>6. VocalInv' /\ FinalUser' BY <1>1, <2>5, VocalKept, FinalUserKept
    <2>7. CloneVocal(clone', profile'.vocal) BY <1>1, <2>5, CloneVocalKept
    <2>8. Begun BY <1>4 DEF Begun
    <2>9. Begun' => CloneOver' BY <1>1, <1>2, <2>4, <2>5, <2>8, OverKept
    <2>10. Asked' BY <1>2, <2>5 DEF FinalParts, MayFinalize, Kept
    <2>11. e = "ops" => Confirmed' BY <1>2, <2>5 DEF FinalParts, OpsInv, Kept
    <2>12. h.pc \in Finalizing BY <2>3 DEF Finalizing
    <2> QED BY <1>1, <1>4, <2>1, <2>3, <2>4, <2>5, <2>6, <2>7, <2>9, <2>10, <2>11, <2>12,
               EraserFinal
  <1> QED BY <1>3, <1>4, Zenon DEF CountOpen

\* The phase is written over whatever the status is by now.
LEMMA PhaseFinal ==
    ASSUME AccountInv, FinalParts, NEW e \in Erasers, WritePhase(e) PROVE FinalParts'
  <1>1. /\ eraser[e].pc = "phase" /\ user' = [user EXCEPT !.status = eraser[e].next]
        /\ At(e, "check")
        /\ UNCHANGED <<identity, profile, maker, clone, ticket>>
    BY DEF WritePhase
  <1>2. eraser[e].next # "active" /\ user.status # "active"
    BY <1>1 DEF FinalParts, MayFinalize
  <1>3. user'.status # "active" /\ user'.finalized = user.finalized
    BY <1>1, <1>2, Shapes DEF Users
  <1>4. Begun BY <1>2 DEF Begun
  <1>5. eraser[e].pc \notin Early BY <1>1, NotEarly
  <1> QED BY <1>1, <1>3, <1>4, <1>5, StatusFinal

\* No ticket is open, and there is one if there is a vocal: it is confirmed.
LEMMA NoneOpen == ASSUME FinalParts, Asked, ~SomeOpen PROVE Settled
  <1>1. CASE profile.vocal = NoVocal BY <1>1 DEF Settled
  <1>2. CASE profile.vocal # NoVocal
    <2>1. PICK t \in Tickets : Made(t) BY <1>2 DEF Asked
    <2>2. ticket[t].status \in OpenStatuses \cup {"none", "confirmed"}
      BY DEF FinalParts, TicketsInv, Rows
    <2>3. ticket[t].status = "confirmed" BY <2>1, <2>2 DEF Made, SomeOpen, IsOpen
    <2> QED BY <2>3 DEF Settled, Confirmed
  <1> QED BY <1>1, <1>2

\* The handler that goes on to commit has seen no ticket open.
LEMMA CheckFinal ==
    ASSUME AccountInv, FinalParts, NEW e \in Erasers, CheckReady(e) PROVE FinalParts'
  <1>1. UNCHANGED <<user, profile, maker, clone, ticket>> /\ eraser[e].pc = "check"
    BY DEF CheckReady
  <1>2. eraser[e].pc \notin Early /\ eraser[e].pc # "idle" BY <1>1, NotEarly
  <1>3. Asked BY <1>2 DEF FinalParts, MayFinalize
  <1>4. CASE Done(e)
    <2>1. identity # "kept" => identity' # "kept" BY <1>4 DEF Done
    <2>2. Kept BY <1>1, NothingKept
    <2>3. VocalInv' /\ FinalUser' BY <1>1, <2>2, VocalKept, FinalUserKept
    <2>4. user'.status # "active" => Begun BY <1>1 DEF Begun
    <2> QED BY <1>1, <1>2, <1>4, <2>1, <2>2, <2>3, <2>4, DoneFinal
  <1>5. CASE ~Done(e)
    <2>1. /\ identity' = identity
          /\ \/ At(e, "cleanup")
             \/ user.status = "ready_for_finalization" /\ At(e, "demote")
             \/ user.status = "ready_for_finalization" /\ ~SomeOpen /\ At(e, "commit")
      BY <1>5 DEF CheckReady
    <2>2. /\ {"cleanup", "demote", "commit"} \subseteq EraserPcs \ {"delete", "phase"}
          /\ {"cleanup", "demote", "commit"} \subseteq Finalizing
      BY EraserPcsAre DEF Finalizing
    <2>3. CASE At(e, "cleanup") BY <1>1, <1>2, <2>1, <2>2, <2>3, PassFinal
    <2>4. CASE user.status = "ready_for_finalization" /\ At(e, "demote")
      BY <1>1, <1>2, <2>1, <2>2, <2>4, PassFinal
    <2>5. CASE user.status = "ready_for_finalization" /\ ~SomeOpen /\ At(e, "commit")
      <3>1. Settled BY <1>3, <2>5, NoneOpen
      <3> QED BY <1>1, <1>2, <2>1, <2>2, <2>5, <3>1, PassFinal
    <2> QED BY <2>1, <2>3, <2>4, <2>5
  <1> QED BY <1>4, <1>5

\* A ticket is open again: the account waits.
LEMMA DemoteFinal ==
    ASSUME AccountInv, FinalParts, NEW e \in Erasers, Demote(e) PROVE FinalParts'
  <1>1. /\ eraser[e].pc = "demote" /\ Done(e)
        /\ user' = [user EXCEPT !.status = "provider_deletion_pending"]
        /\ UNCHANGED <<profile, maker, clone, ticket>>
    BY DEF Demote
  <1>2. user'.status # "active" /\ user'.finalized = user.finalized
    BY <1>1, Shapes DEF Users
  <1>3. Kept BY <1>1, <1>2, NothingKept
  <1>4. VocalInv' /\ FinalUser' BY <1>1, <1>2, <1>3, VocalKept, FinalUserKept
  <1>5. Begun BY <1>1 DEF FinalParts, MayFinalize, Begun
  <1>6. identity # "kept" => identity' # "kept" BY <1>1 DEF Done
  <1> QED BY <1>1, <1>3, <1>4, <1>5, <1>6, DoneFinal

\* The tickets are not counted again: none is needed, or one is confirmed.
LEMMA FinalizeFinal ==
    ASSUME AccountInv, FinalParts, NEW e \in Erasers, Finalize(e) PROVE FinalParts'
  <1>1. /\ eraser[e].pc = "commit" /\ At(e, "cleanup")
        /\ UNCHANGED <<identity, maker, clone, ticket>>
        /\ \/ UNCHANGED <<user, profile>>
           \/ user' = [status |-> "deleted", finalized |-> TRUE, email |-> "anonymous"]
        /\ \/ profile' = profile
           \/ profile' = [profile EXCEPT !.status = "provider_deleted", !.deleted = TRUE]
    BY Zenon DEF Finalize
  <1>2. profile \in Profiles BY Shapes
  <1>3. eraser[e].pc \notin Early /\ eraser[e].pc # "idle" BY <1>1, NotEarly
  <1>4. Settled /\ Asked /\ user.status # "active"
    BY <1>1, <1>3 DEF FinalParts, MayFinalize
  <1>5. /\ profile'.vocal = profile.vocal
        /\ profile'.status = profile.status \/ profile'.status = "provider_deleted"
    BY <1>1, <1>2 DEF Profiles
  <1>6. user'.status # "active" BY <1>1, <1>4
  <1>7. Kept BY <1>1, <1>5, <1>6, NothingKept
  <1>8. Settled' /\ Asked' BY <1>4, <1>7, SettledKept DEF Kept
  <1>9. VocalInv' BY <1>5, <1>7, <1>8, VocalKept
  <1>10. FinalUser' BY <1>6, <1>8 DEF FinalUser
  <1>11. Begun BY <1>4 DEF Begun
  <1>12. "cleanup" \in EraserPcs \ {"delete", "phase"} /\ "cleanup" \in Finalizing
    BY EraserPcsAre DEF Finalizing
  <1> QED BY <1>1, <1>3, <1>7, <1>8, <1>9, <1>10, <1>11, <1>12, AtFinal

\* The clean-up of the identity, the end, and a handler that fails.
LEMMA EndFinal ==
    ASSUME AccountInv, FinalParts, NEW e \in Erasers,
           CleanUpIdentity(e) \/ HandlerEnds(e) \/ EraserFails(e)
    PROVE  FinalParts'
  <1>1. UNCHANGED <<user, profile, maker, clone, ticket>> /\ eraser[e].pc # "idle"
    BY DEF CleanUpIdentity, HandlerEnds, EraserFails
  <1>2. identity # "kept" => identity' # "kept"
    BY DEF CleanUpIdentity, HandlerEnds, EraserFails, Done
  <1>3. CASE eraser[e].pc = "cleanup" /\ At(e, "told")
    <2>1. /\ "told" \in EraserPcs \ {"delete", "phase"} /\ "told" \in Finalizing
          /\ "told" \notin {"demote", "commit"}
      BY EraserPcsAre DEF Finalizing
    <2>2. eraser[e].pc \notin Early BY <1>3, NotEarly
    <2> QED BY <1>1, <1>2, <1>3, <2>1, <2>2, PassFinal
  <1>4. CASE Done(e) \/ eraser' = [eraser EXCEPT ![e] = Idle]
    <2>1. Kept BY <1>1, NothingKept
    <2>2. VocalInv' /\ FinalUser' BY <1>1, <2>1, VocalKept, FinalUserKept
    <2>3. user'.status # "active" => Begun BY <1>1 DEF Begun
    <2> QED BY <1>1, <1>2, <1>4, <2>1, <2>2, <2>3, DoneFinal
  <1> QED BY <1>3, <1>4, Zenon DEF CleanUpIdentity, HandlerEnds, EraserFails, At

\* Every step of a handler.
LEMMA EraserStepFinal ==
    ASSUME AccountInv, FinalParts, NEW e \in Erasers, EraserStep(e) \/ EraserFails(e)
    PROVE  FinalParts'
  BY ListFinal, DeleteFinal, RestFinal, MarkFinal, CountFinal, PhaseFinal, CheckFinal,
     DemoteFinal, FinalizeFinal, EndFinal DEF EraserStep

\* A ticket that moves on stays made, for its vocal, and confirmed.
LEMMA RowMoves ==
    ASSUME FinalParts, NEW t \in Tickets, NEW s \in OpenStatuses \cup {"confirmed"},
           ticket[t].status \in OpenStatuses, ticket' = [ticket EXCEPT ![t].status = s],
           profile'.vocal = profile.vocal, user' = user
    PROVE  Kept /\ ticket'[t].status = s /\ (\E u \in Tickets : Made(u)')
  <1> DEFINE r == [ticket[t] EXCEPT !.status = s]
  <1>1. ticket \in [Tickets -> Rows] /\ ticket[t] \in Rows BY DEF FinalParts, TicketsInv
  <1>2. r \in Rows /\ r.status = s /\ r.vocal = ticket[t].vocal BY <1>1 DEF Rows
  <1>3. ticket' = [ticket EXCEPT ![t] = r] BY <1>1
  <1> HIDE DEF r
  <1>4. ticket'[t] = r /\ \A u \in Tickets \ {t} : ticket'[u] = ticket[u] BY <1>1, <1>3
  <1>5. ticket' \in [Tickets -> Rows] BY <1>1, <1>2, <1>3
  <1>6. s # "none" /\ ticket[t].status \notin {"none", "confirmed"} BY DEF OpenStatuses
  <1>7. \A u \in Tickets : Made(u)' <=> Made(u) BY <1>2, <1>4, <1>6 DEF Made
  <1>8. \A u \in Tickets : ticket'[u].vocal = ticket[u].vocal BY <1>2, <1>4
  <1>9. TicketsInv' BY <1>5, <1>7, <1>8 DEF FinalParts, TicketsInv
  <1>10. Asked => Asked' BY <1>7 DEF Asked
  <1>11. Confirmed => Confirmed' BY <1>4, <1>6 DEF Confirmed
  <1>12. Made(t)' BY <1>2, <1>4, <1>6 DEF Made
  <1> QED BY <1>2, <1>4, <1>9, <1>10, <1>11, <1>12 DEF Kept

\* The e-mail job and the operator move a ticket on.
LEMMA MailFinal ==
    ASSUME AccountInv, FinalParts, NEW t \in Tickets,
           MailStep(t) \/ MailMishap(t) \/ MarkSubmitted(t)
    PROVE  FinalParts'
  <1>1. UNCHANGED <<user, identity, maker, clone, eraser>>
    BY Zenon DEF MailStep, ClaimMail, SendMail, MailSent, MailFailed, MailMishap, MarkSubmitted
  <1>2. profile' = profile \/ profile' = Reported
    BY Zenon DEF MailStep, ClaimMail, SendMail, MailSent, MailFailed, MailMishap, MarkSubmitted
  <1>3. profile \in Profiles BY Shapes
  <1>4. /\ profile'.vocal = profile.vocal
        /\ \/ profile'.status = profile.status
           \/ profile.status \in InFlow /\ profile'.status = "provider_deletion_pending"
    BY <1>2, <1>3 DEF Reported, Profiles, InFlow
  <1>5. \/ ticket' = ticket
        \/ /\ ticket[t].status \in OpenStatuses
           /\ \E s \in OpenStatuses : ticket' = [ticket EXCEPT ![t].status = s]
    <2>1. CASE ClaimMail(t) BY <2>1 DEF ClaimMail, OpenStatuses
    <2>2. CASE MailSent(t) BY <2>2 DEF MailSent, OpenStatuses
    <2>3. CASE MailFailed(t)
      <3>1. \/ ticket' = ticket
            \/ /\ ticket[t].status \in {"pending", "submitting"}
               /\ \/ ticket' = [ticket EXCEPT ![t].status = "submit_failed"]
                  \/ ticket' = [ticket EXCEPT ![t].status = "pending"]
        BY <2>3 DEF MailFailed
      <3> QED BY <3>1 DEF OpenStatuses
    <2>4. CASE SendMail(t) \/ MailMishap(t) BY <2>4 DEF SendMail, MailMishap
    <2>5. CASE MarkSubmitted(t) BY <2>5 DEF MarkSubmitted, OpenStatuses
    <2> QED BY <2>1, <2>2, <2>3, <2>4, <2>5 DEF MailStep
  <1>6. Kept
    <2>1. CASE ticket' = ticket BY <1>1, <1>4, <2>1, NothingKept
    <2>2. CASE /\ ticket[t].status \in OpenStatuses
               /\ \E s \in OpenStatuses : ticket' = [ticket EXCEPT ![t].status = s]
      BY <1>1, <1>4, <2>2, RowMoves
    <2> QED BY <1>5, <2>1, <2>2
  <1>7. VocalInv'
    <2>1. profile.status \in InFlow => Asked' BY <1>6 DEF FinalParts, VocalInv, Kept
    <2> QED BY <1>4, <1>6, <2>1, VocalKept
  <1>8. Begun => CloneOver' BY <1>1 DEF FinalParts, CloneOver
  <1> QED BY <1>1, <1>6, <1>7, <1>8, CloneVocalKept, OthersFinal

\* The operator's word settles the account's vocal, and begins a finalization.
LEMMA ConfirmedFinal ==
    ASSUME AccountInv, FinalParts, NEW t \in Tickets, MarkConfirmed(t) PROVE FinalParts'
  <1> DEFINE h == [eraser["ops"] EXCEPT !.pc = "count"]
  <1>1. /\ ticket[t].status \in OpenStatuses
        /\ ticket' = [ticket EXCEPT ![t].status = "confirmed"]
        /\ profile' = [profile EXCEPT !.status = "provider_deleted"] /\ At("ops", "count")
        /\ UNCHANGED <<user, identity, maker, clone>>
    BY DEF MarkConfirmed, IsOpen
  <1>2. profile'.vocal = profile.vocal /\ profile'.status = "provider_deleted"
    BY <1>1, Shapes DEF Profiles
  <1>3. Kept /\ ticket'[t].status = "confirmed" /\ \E u \in Tickets : Made(u)'
    BY <1>1, <1>2, RowMoves
  <1>4. Confirmed' /\ Asked' BY <1>3 DEF Confirmed, Asked
  <1>5. VocalInv' BY <1>2, <1>4 DEF VocalInv
  <1>6. FinalUser' BY <1>1, <1>3, FinalUserKept
  <1>7. CloneVocal(clone', profile'.vocal) BY <1>1, <1>3, CloneVocalKept
  <1>8. "ops" \in Erasers BY ErasersAre
  <1>9. eraser \in [Erasers -> Handlers] /\ eraser["ops"] \in Handlers BY <1>8, Shapes
  <1>10. h.pc = "count" BY <1>9 DEF Handlers
  <1>11. eraser' = [eraser EXCEPT !["ops"] = h] BY <1>1, <1>9 DEF At
  <1> HIDE DEF h
  <1>12. eraser'["self"] = eraser["self"] /\ eraser'["clerk"] = eraser["clerk"]
    BY <1>9, <1>11, ErasersAre
  <1>13. Begun' => CloneOver' BY <1>1, <1>12 DEF FinalParts, Begun, CloneOver
  <1>14. /\ h.pc \in Finalizing /\ h.pc # "delete"
         /\ h.pc \notin {"phase", "demote", "commit"}
    BY <1>10 DEF Finalizing
  <1> QED BY <1>3, <1>4, <1>5, <1>6, <1>7, <1>8, <1>11, <1>13, <1>14, EraserFinal

\* A sign-in writes the address only.
LEMMA SyncFinal == ASSUME AccountInv, FinalParts, SyncReads \/ SyncWrites PROVE FinalParts'
  <1>1. /\ UNCHANGED <<identity, profile, maker, clone, ticket, eraser>>
        /\ user' = user \/ user' = [user EXCEPT !.email = "own"]
    BY DEF SyncReads, SyncWrites
  <1>2. user'.status = user.status /\ user'.finalized = user.finalized
    BY <1>1, Shapes DEF Users
  <1>3. Kept BY <1>1, <1>2, NothingKept
  <1>4. VocalInv' BY <1>1, <1>3, VocalKept
  <1>5. Begun => CloneOver' BY <1>1, <1>2 DEF FinalParts, CloneOver
  <1> QED BY <1>1, <1>2, <1>3, <1>4, <1>5, CloneVocalKept, OthersFinal

\* If no deletion may begin while the voice is made, every step keeps what
\* the finalization relies on.
THEOREM FinalInvariant == Spec => []FinalInv
  <1>1. Init => FinalInv BY FinalInit DEF FinalInv
  <1>2. AccountInv /\ FinalInv /\ [Next]_vars => FinalInv'
    <2> SUFFICES ASSUME AccountInv, FinalInv, [Next]_vars, "late_clone" \notin world'
                 PROVE  FinalParts'
      BY DEF FinalInv
    <2>1. world' = world
      <3>1. CASE BeginProfile \/ MakerStep \/ MakerDies
        BY <3>1, Zenon DEF BeginProfile, MakerStep, CommitProfile, EnqueueProfile,
                           EnqueueUnheard, MarkFailedAndRefund, MakerDies
      <3>2. CASE CloneStep
        BY <3>2, Zenon DEF CloneStep, CloneStarts, CloneReturns, LoadSample, Recheck,
                           VocalHeard, VocalError, FailProfile, RefundProfile, PersistReady,
                           RetainVocal
      <3>3. CASE CloneThrows \/ CloneDies \/ FailStuckClone \/ RefundFailedClone
        BY <3>3, Zenon DEF CloneThrows, CloneDies, FailStuckClone, RefundFailedClone
      <3>4. CASE AskDeletion \/ DeletedAtClerk \/ UserDeleted \/ Anonymize
        BY <3>4, Zenon DEF AskDeletion, DeletedAtClerk, UserDeleted, Anonymize
      <3>5. CASE \E e \in Erasers : EraserStep(e) \/ EraserFails(e)
        BY <3>5, Zenon DEF EraserStep, ListProfiles, DeleteProfile, EnqueueMail, UnqueueClone,
                           PurgeSample, MarkDeletedLocally, RefundUnmade, CountOpen, WritePhase,
                           CheckReady, Demote, Finalize, CleanUpIdentity, HandlerEnds,
                           EraserFails
      <3>6. CASE \E t \in Tickets : \/ MailStep(t) \/ MailMishap(t)
                                    \/ MarkSubmitted(t) \/ MarkConfirmed(t)
        BY <3>6, Zenon DEF MailStep, ClaimMail, SendMail, MailSent, MailFailed, MailMishap,
                           MarkSubmitted, MarkConfirmed
      <3>7. CASE SyncReads \/ SyncWrites BY <3>7, Zenon DEF SyncReads, SyncWrites
      <3>8. CASE UNCHANGED vars BY <3>8 DEF vars
      <3> QED BY <3>1, <3>2, <3>3, <3>4, <3>5, <3>6, <3>7, <3>8 DEF Next
    <2>2. FinalParts /\ "late_clone" \notin world BY <2>1 DEF FinalInv
    <2>3. CASE BeginProfile \/ MakerStep \/ MakerDies BY <2>2, <2>3, MakerFinal
    <2>4. CASE CloneStep
      BY <2>2, <2>4, CloneStartsFinal, PassesFinal, HeardFinal, FailFinal, PersistFinal,
         RetainFinal DEF CloneStep
    <2>5. CASE CloneThrows \/ CloneDies \/ FailStuckClone \/ RefundFailedClone
      BY <2>2, <2>5, PassesFinal, SweepsFinal
    <2>6. CASE AskDeletion \/ DeletedAtClerk \/ UserDeleted \/ Anonymize
      BY <2>2, <2>6, AskFinal, AnonymizeFinal
    <2>7. CASE \E e \in Erasers : EraserStep(e) \/ EraserFails(e)
      BY <2>2, <2>7, EraserStepFinal
    <2>8. CASE \E t \in Tickets : \/ MailStep(t) \/ MailMishap(t)
                                  \/ MarkSubmitted(t) \/ MarkConfirmed(t)
      BY <2>2, <2>8, MailFinal, ConfirmedFinal
    <2>9. CASE SyncReads \/ SyncWrites BY <2>2, <2>9, SyncFinal
    <2>10. CASE UNCHANGED vars
      <3>1. UNCHANGED <<user, identity, profile, maker, clone, ticket, eraser>>
        BY <2>10 DEF vars
      <3>2. Kept BY <2>2, <3>1, NothingKept
      <3>3. VocalInv' BY <2>2, <3>1, <3>2, VocalKept
      <3>4. Begun => CloneOver' BY <2>2, <3>1 DEF FinalParts, CloneOver
      <3> QED BY <2>2, <3>1, <3>2, <3>3, <3>4, CloneVocalKept, OthersFinal
    <2> QED BY <2>3, <2>4, <2>5, <2>6, <2>7, <2>8, <2>9, <2>10 DEF Next
  <1> QED BY <1>1, <1>2, AccountInvariant, PTL DEF Spec

\* An account is final only when Mureka has confirmed the deletion of its
\* vocal, if the voice was not being made when the deletion began
\* (tryFinalizeAccountDeletion, refreshAccountDeletionProviderPhase).
THEOREM FinalAccountIsConfirmed == Spec => []FinalIsConfirmed
  <1>1. FinalInv => FinalIsConfirmed
    <2> SUFFICES ASSUME FinalInv, "late_clone" \notin world, user.finalized,
                        profile.vocal # NoVocal
                 PROVE  \E t \in Tickets : /\ ticket[t].vocal = profile.vocal
                                           /\ ticket[t].status = "confirmed"
      BY DEF FinalIsConfirmed
    <2>1. FinalParts BY DEF FinalInv
    <2>2. PICK t \in Tickets : ticket[t].status = "confirmed"
      BY <2>1 DEF FinalParts, FinalUser, Settled, Confirmed
    <2>3. ticket[t].vocal = profile.vocal BY <2>1, <2>2 DEF FinalParts, TicketsInv, Made
    <2> QED BY <2>2, <2>3
  <1> QED BY <1>1, FinalInvariant, PTL

-----------------------------------------------------------------------------
(* The mail that comes back to the support address *)

\* A slot, as far as the proof looks into it.
Slot == [pc : {"idle", "create", "fetch", "send", "succeed", "fail"},
         env : Environments, got : SUBSET Selected(letter.files)]

\* The environment E may forward the mail.
Addressed(e) == Allowed(e) /\ ~Loops(e)

\* Nothing was sent, or one forward by an environment that may; and who is
\* about to send has looked at the whole mail.
PostInv ==
    /\ handler \in [Slots -> Slot]
    /\ sent = <<>> \/ \E f : sent = <<f>> /\ Addressed(f.by)
    /\ \A h \in Slots : handler[h].pc = "send" => Addressed(handler[h].env)

\* An idle slot is a slot.
LEMMA IdleSlot ==
    /\ IdleHandler \in Slot /\ IdleHandler.pc = "idle"
    /\ \A e \in Environments, pc \in {"create", "fetch"} :
          /\ [IdleHandler EXCEPT !.env = e, !.pc = pc] \in Slot
          /\ [IdleHandler EXCEPT !.env = e, !.pc = pc].pc = pc
  <1>1. (CHOOSE e \in Environments : TRUE) \in Environments BY PostAssumption
  <1> QED BY <1>1 DEF IdleHandler, Slot

\* No webhook was called.
LEMMA PostBegins == PostInit => PostInv
  <1> SUFFICES ASSUME PostInit PROVE PostInv OBVIOUS
  <1>1. sent = <<>> /\ handler = [h \in Slots |-> IdleHandler] BY DEF PostInit
  <1> QED BY <1>1, IdleSlot DEF PostInv

\* A step that sends nothing and leaves a slot as X.
LEMMA SlotMoves ==
    ASSUME PostInv, UNCHANGED <<letter, sent>>, NEW h \in Slots, NEW x \in Slot,
           handler' = [handler EXCEPT ![h] = x], x.pc = "send" => Addressed(x.env)
    PROVE  PostInv'
  <1>1. handler \in [Slots -> Slot] BY DEF PostInv
  <1>2. Slot' = Slot /\ \A e : Addressed(e)' <=> Addressed(e)
    BY DEF Slot, Addressed, Allowed, Loops
  <1>3. handler' \in [Slots -> Slot'] BY <1>1, <1>2
  <1>4. \A k \in Slots : handler'[k].pc = "send" => Addressed(handler'[k].env)
    BY <1>1 DEF PostInv
  <1>5. sent' = <<>> \/ \E f : sent' = <<f>> /\ Addressed(f.by) BY DEF PostInv
  <1>6. sent' = <<>> \/ \E f : sent' = <<f>> /\ Addressed(f.by)' BY <1>2, <1>5
  <1>7. \A k \in Slots : handler'[k].pc = "send" => Addressed(handler[k].env)'
    BY <1>2, <1>4 DEF Addressed, Allowed, Loops
  <1> QED BY <1>3, <1>6, <1>7 DEF PostInv

\* A slot that goes on, but not to send.
LEMMA SlotGoes ==
    ASSUME PostInv, UNCHANGED <<letter, sent>>, NEW h \in Slots,
           NEW pc \in {"create", "fetch", "succeed", "fail"}, Goto(h, pc)
    PROVE  PostInv'
  <1> DEFINE x == [handler[h] EXCEPT !.pc = pc]
  <1>1. handler \in [Slots -> Slot] /\ handler[h] \in Slot BY DEF PostInv
  <1>2. x \in Slot /\ x.pc = pc BY <1>1 DEF Slot
  <1>3. handler' = [handler EXCEPT ![h] = x] BY <1>1 DEF Goto
  <1> HIDE DEF x
  <1> QED BY <1>2, <1>3, SlotMoves

\* A slot that is given back.
LEMMA SlotEnds ==
    ASSUME PostInv, UNCHANGED <<letter, sent>>, NEW h \in Slots, End(h) PROVE PostInv'
  <1>1. handler' = [handler EXCEPT ![h] = IdleHandler] BY DEF End
  <1> QED BY <1>1, IdleSlot, SlotMoves

\* A step that moves no slot.
LEMMA SlotsStay ==
    ASSUME PostInv, UNCHANGED <<letter, sent, handler>> PROVE PostInv'
  BY DEF PostInv, Slot, Addressed, Allowed, Loops

\* A delivery, and the row that it finds or makes.
LEMMA DeliverKeeps ==
    ASSUME PostInv, NEW h \in Slots, Create(h) \/ \E e \in Environments : Deliver(h, e)
    PROVE  PostInv'
  <1>1. UNCHANGED <<letter, sent>> BY DEF Create, Deliver
  <1>2. CASE Create(h)
    <2>1. End(h) \/ Goto(h, "fetch") BY <1>2 DEF Create, Answer
    <2> QED BY <1>1, <2>1, SlotEnds, SlotGoes
  <1>3. CASE \E e \in Environments : Deliver(h, e)
    <2>1. PICK e \in Environments : Deliver(h, e) BY <1>3
    <2>2. \/ handler' = handler
          \/ \E pc \in {"create", "fetch"} :
                handler' = [handler EXCEPT ![h] = [IdleHandler EXCEPT !.env = e, !.pc = pc]]
      BY <2>1 DEF Deliver
    <2>3. CASE handler' = handler BY <1>1, <2>3, SlotsStay
    <2>4. CASE \E pc \in {"create", "fetch"} :
                  handler' = [handler EXCEPT ![h] = [IdleHandler EXCEPT !.env = e, !.pc = pc]]
      <3>1. PICK pc \in {"create", "fetch"} :
                handler' = [handler EXCEPT ![h] = [IdleHandler EXCEPT !.env = e, !.pc = pc]]
        BY <2>4
      <3> DEFINE x == [IdleHandler EXCEPT !.env = e, !.pc = pc]
      <3>2. x \in Slot /\ x.pc = pc BY IdleSlot
      <3>3. handler' = [handler EXCEPT ![h] = x] BY <3>1
      <3> HIDE DEF x
      <3>4. x.pc # "send" BY <3>2
      <3> QED BY <1>1, <3>2, <3>3, <3>4, SlotMoves
    <2> QED BY <2>2, <2>3, <2>4
  <1> QED BY <1>2, <1>3

\* The whole mail is looked at before anything is sent.
LEMMA FetchKeeps == ASSUME PostInv, NEW h \in Slots, Fetch(h) PROVE PostInv'
  <1>1. UNCHANGED <<letter, sent>> BY DEF Fetch
  <1>2. CASE Goto(h, "succeed") \/ Goto(h, "fail") BY <1>1, <1>2, SlotGoes
  <1>3. CASE /\ Addressed(handler[h].env)
             /\ \E got \in SUBSET Downloadable(letter.files) :
                   handler' = [handler EXCEPT ![h].pc = "send", ![h].got = got]
    <2>1. PICK got \in SUBSET Downloadable(letter.files) :
              handler' = [handler EXCEPT ![h].pc = "send", ![h].got = got]
      BY <1>3
    <2>2. got \in SUBSET Selected(letter.files) BY DEF Downloadable
    <2> DEFINE x == [handler[h] EXCEPT !.pc = "send", !.got = got]
    <2>3. handler \in [Slots -> Slot] /\ handler[h] \in Slot BY DEF PostInv
    <2>4. x \in Slot /\ x.env = handler[h].env BY <2>2, <2>3 DEF Slot
    <2>5. handler' = [handler EXCEPT ![h] = x] BY <2>1, <2>3 DEF Slot
    <2> HIDE DEF x
    <2> QED BY <1>1, <1>3, <2>4, <2>5, SlotMoves
  <1>4. \/ Goto(h, "succeed") \/ Goto(h, "fail")
        \/ /\ Addressed(handler[h].env)
           /\ \E got \in SUBSET Downloadable(letter.files) :
                 handler' = [handler EXCEPT ![h].pc = "send", ![h].got = got]
    BY Zenon DEF Fetch, Addressed, Env
  <1> QED BY <1>2, <1>3, <1>4

\* Resend accepts a forward only while it does not know the key.
LEMMA SendKeeps == ASSUME PostInv, NEW h \in Slots, Send(h) PROVE PostInv'
  <1>1. /\ handler[h].pc = "send" /\ letter' = letter
        /\ Goto(h, "succeed") \/ Goto(h, "fail")
    BY DEF Send
  <1>2. CASE sent' = sent BY <1>1, <1>2, SlotGoes
  <1>3. CASE ~KeyKnown /\ sent' = Append(sent, Forward(h))
    <2>1. PICK pc \in {"succeed", "fail"} : Goto(h, pc) BY <1>1
    <2> DEFINE x == [handler[h] EXCEPT !.pc = pc]
    <2>2. handler \in [Slots -> Slot] /\ handler[h] \in Slot BY DEF PostInv
    <2>3. x \in Slot /\ x.pc = pc BY <2>2 DEF Slot
    <2>4. handler' = [handler EXCEPT ![h] = x] BY <2>1, <2>2 DEF Goto
    <2> HIDE DEF x
    <2>5. sent = <<>> BY <1>3 DEF KeyKnown
    <2>6. sent' = <<Forward(h)>> BY <1>3, <2>5
    <2>7. Forward(h).by = handler[h].env BY DEF Forward, Env
    <2>8. Addressed(handler[h].env) BY <1>1 DEF PostInv
    <2>9. Slot' = Slot /\ \A e : Addressed(e)' <=> Addressed(e)
      BY <1>1 DEF Slot, Addressed, Allowed, Loops
    <2>10. \E f : sent' = <<f>> /\ Addressed(f.by)' BY <2>6, <2>7, <2>8, <2>9
    <2>11. handler' \in [Slots -> Slot'] BY <2>2, <2>3, <2>4, <2>9
    <2>12. \A k \in Slots : handler'[k].pc = "send" => handler'[k] = handler[k]
      BY <2>1, <2>2, <2>3, <2>4
    <2>13. \A k \in Slots : handler'[k].pc = "send" => Addressed(handler[k].env)'
      BY <1>1, <2>12 DEF PostInv, Addressed, Allowed, Loops
    <2> QED BY <2>10, <2>11, <2>13 DEF PostInv
  <1> QED BY <1>2, <1>3, Zenon DEF Send

\* The end of a delivery, well or badly.
LEMMA EndsKeep ==
    ASSUME PostInv, NEW h \in Slots, Succeed(h) \/ Fail(h) \/ Dies(h) PROVE PostInv'
  <1>1. UNCHANGED <<letter, sent>> /\ (End(h) \/ Goto(h, "fail"))
    BY DEF Succeed, Fail, Dies, Answer
  <1> QED BY <1>1, SlotEnds, SlotGoes

\* At most one forward, by an environment that may, whatever the handlers of
\* all environments do at the same time.
THEOREM PostInvariant == PostSpec => []PostInv
  <1>1. PostInit => PostInv BY PostBegins
  <1>2. PostInv /\ [PostNext]_postVars => PostInv'
    <2> SUFFICES ASSUME PostInv, [PostNext]_postVars PROVE PostInv' OBVIOUS
    <2>1. CASE PostNext
      BY <2>1, DeliverKeeps, FetchKeeps, SendKeeps, EndsKeep DEF PostNext, Goes
    <2>2. CASE UNCHANGED postVars
      <3>1. UNCHANGED <<letter, sent, handler>> BY <2>2 DEF postVars
      <3> QED BY <3>1, SlotsStay
    <2> QED BY <2>1, <2>2
  <1> QED BY <1>1, <1>2, PTL DEF PostSpec

\* One forward of a mail, however often and wherever it is announced, by an
\* environment it is addressed to, and none of our own (the idempotency key of
\* sendEmailViaResend, isAllowedInboundRecipient, shouldIgnoreInboundForLoop).
THEOREM MailIsForwardedOnce == PostSpec => []ForwardedOnce
  <1>1. PostInv => ForwardedOnce
    <2> SUFFICES ASSUME PostInv PROVE ForwardedOnce OBVIOUS
    <2>1. CASE sent = <<>> BY <2>1 DEF ForwardedOnce
    <2>2. CASE \E f : sent = <<f>> /\ Addressed(f.by)
      <3>1. PICK f : sent = <<f>> /\ Addressed(f.by) BY <2>2
      <3>2. Len(sent) = 1 /\ DOMAIN sent = {1} /\ sent[1] = f BY <3>1
      <3> QED BY <3>1, <3>2 DEF ForwardedOnce, Addressed
    <2> QED BY <2>1, <2>2 DEF PostInv
  <1> QED BY <1>1, PostInvariant, PTL
=============================================================================
