------------------------------ MODULE CreationProofs ------------------------------
(***************************************************************************)
(* Proofs about SunoVoice, for any number of tasks, API slots, uses and    *)
(* failures: the types, and that a sample is ready only with a voice that  *)
(* the provider has made; and about GenerateRequest, for any number of     *)
(* requests, keys and bodies: a key names one song.                        *)
(*                                                                         *)
(* A request of the voice decides what to write from what it read before   *)
(* the provider answered; the invariant says what such a decision may      *)
(* still believe when it is written, whatever others wrote in between.  A  *)
(* request for a song may believe what it has read only while it holds the *)
(* lock of the user, which is all that its invariant is about.             *)
(*                                                                         *)
(* The sample alone does not show that it is ready with a voice, since     *)
(* requests write by what they read: the invariant says of every request   *)
(* that still has to write "ready" that its task has a voice, and a task   *)
(* keeps its voice because only a task nobody has used is given to a       *)
(* recording.                                                              *)
(***************************************************************************)
EXTENDS SunoVoice, GenerateRequest, FiniteSetTheorems, TLAPS

Pcs == {"idle", "sync", "write", "stop", "persona", "check", "claim", "upload",
        "save", "release", "giveup", "submit", "submitted"}
Kinds == {"poll", "prepare", "restart", "cancel", "submit"}
Reqs == [pc : Pcs, kind : Kinds, read : Samples, outcome : Outcomes, task : TaskIds]

ValidateStates == {"none", "generating", "asking", "silent", "success", "failed"}
RecordStates == {"none", "pending", "voice", "failed"}

\* What a request that concluded something knows, by the provider's records v.
RequestOK(r, v) ==
    /\ r.outcome # "none" <=> r.pc = "write"
    /\ r.outcome = "ready" => r.task # NoTask /\ v[r.task] = "voice"
    /\ r.outcome \in {"regenerate", "refresh"} => r.read.regens < MaxRegens

SampleOK(s, v) == s.status = "ready" => s.voice # NoTask /\ v[s.voice] = "voice"

RequestsInv == \A q \in Requests : RequestOK(request[q], record)
UnusedInv == \A t \in Tasks : validate[t] = "none" => record[t] = "none"

VoiceInv == TypeOK /\ RequestsInv /\ UnusedInv /\ SampleOK(sample, record)

ProviderTyped ==
    /\ validate \in [Tasks -> ValidateStates]
    /\ record \in [Tasks -> RecordStates]

CountsTyped == age \in 0 .. 2 /\ uses \in 0 .. MaxUses /\ failures \in 0 .. MaxFailures

LEMMA Types ==
    TypeOK <=> /\ sample \in Samples /\ ProviderTyped /\ CountsTyped
               /\ request \in [Requests -> Reqs]
  BY DEF TypeOK, ProviderTyped, CountsTyped, Reqs, Pcs, Kinds, ValidateStates, RecordStates

-----------------------------------------------------------------------------
(* The records *)

LEMMA NewSampleTyped == NewSample \in Samples /\ NewSample.status = "pending"
  BY DEF NewSample, Samples, Statuses, TaskIds, MaxRegens

LEMMA KeptTyped == ASSUME NEW pc, NEW s \in Samples PROVE Kept(pc, s) \in Samples
  <1> DEFINE n == NewSample
             x == [n EXCEPT !.status = s.status]
  <1>1. n \in Samples BY NewSampleTyped
  <1>2. s.status \in Statuses BY DEF Samples
  <1> HIDE DEF n
  <1>3. x \in Samples BY <1>1, <1>2 DEF Samples
  <1>4. Kept(pc, s) \in {s, x, n} BY DEF Kept, n
  <1> HIDE DEF x
  <1> QED BY <1>1, <1>3, <1>4

LEMMA NothingConcluded ==
    ASSUME NEW r, NEW v, r.outcome = "none", r.pc # "write" PROVE RequestOK(r, v)
  BY DEF RequestOK

LEMMA IdleTyped ==
    /\ IdleRequest \in Reqs
    /\ IdleRequest.outcome = "none" /\ IdleRequest.pc = "idle"
  <1>1. "idle" \in Pcs /\ "poll" \in Kinds /\ "none" \in Outcomes /\ NoTask \in TaskIds
    BY DEF Pcs, Kinds, Outcomes, TaskIds
  <1>2. IdleRequest = [pc |-> "idle", kind |-> "poll", read |-> NewSample,
                       outcome |-> "none", task |-> NoTask]
    BY DEF IdleRequest
  <1> QED BY <1>1, <1>2, NewSampleTyped DEF Reqs

\* An idle request that starts at a step.
LEMMA FreshTyped ==
    ASSUME NEW v, NEW pc \in Pcs \ {"write"}, NEW kind \in Kinds, NEW s \in Samples
    PROVE  /\ [IdleRequest EXCEPT !.pc = pc] \in Reqs
           /\ [IdleRequest EXCEPT !.pc = pc, !.read = s] \in Reqs
           /\ [IdleRequest EXCEPT !.kind = kind, !.pc = pc, !.read = s] \in Reqs
           /\ [IdleRequest EXCEPT !.pc = pc, !.kind = kind, !.read = s] \in Reqs
           /\ RequestOK([IdleRequest EXCEPT !.pc = pc], v)
           /\ RequestOK([IdleRequest EXCEPT !.pc = pc, !.read = s], v)
           /\ RequestOK([IdleRequest EXCEPT !.kind = kind, !.pc = pc, !.read = s], v)
           /\ RequestOK([IdleRequest EXCEPT !.pc = pc, !.kind = kind, !.read = s], v)
  <1> DEFINE i == IdleRequest
  <1>1. i \in Reqs /\ i.outcome = "none" BY IdleTyped
  <1> HIDE DEF i
  <1>2. /\ [i EXCEPT !.pc = pc] \in Reqs
        /\ [i EXCEPT !.pc = pc, !.read = s] \in Reqs
        /\ [i EXCEPT !.kind = kind, !.pc = pc, !.read = s] \in Reqs
        /\ [i EXCEPT !.pc = pc, !.kind = kind, !.read = s] \in Reqs
    BY <1>1 DEF Reqs
  <1>3. /\ RequestOK([i EXCEPT !.pc = pc], v)
        /\ RequestOK([i EXCEPT !.pc = pc, !.read = s], v)
        /\ RequestOK([i EXCEPT !.kind = kind, !.pc = pc, !.read = s], v)
        /\ RequestOK([i EXCEPT !.pc = pc, !.kind = kind, !.read = s], v)
    BY <1>1 DEF Reqs, RequestOK
  <1> QED BY <1>2, <1>3 DEF i

\* The step after a synchronisation.
LEMMA WentTyped ==
    ASSUME NEW v, NEW q \in Requests, NEW s \in Samples
    PROVE  Went(q, s) \in Reqs /\ RequestOK(Went(q, s), v)
  <1> DEFINE pc == AfterSync(request[q].kind, s)
             r == [IdleRequest EXCEPT !.pc = pc, !.read = Kept(pc, s)]
  <1>1. pc \in {"stop", "check", "submit", "idle"} BY DEF AfterSync
  <1>2. Kept(pc, s) \in Samples BY KeptTyped
  <1>3. Went(q, s) = IF pc = "idle" THEN IdleRequest ELSE r BY DEF Went
  <1>4. pc \in Pcs \ {"write"} /\ "poll" \in Kinds BY <1>1 DEF Pcs, Kinds
  <1> HIDE DEF pc
  <1>5. r \in Reqs /\ RequestOK(r, v) BY <1>2, <1>4, FreshTyped
  <1> HIDE DEF r
  <1> QED BY <1>3, <1>5, IdleTyped, NothingConcluded

-----------------------------------------------------------------------------
(* What a step has to show *)

VoicesKept == \A t \in Tasks : record[t] = "voice" => record'[t] = "voice"

ProviderOK == ProviderTyped' /\ UnusedInv' /\ VoicesKept

LEMMA ProviderKept == ASSUME VoiceInv, UNCHANGED Provider PROVE ProviderOK
  BY Types DEF VoiceInv, Provider, ProviderOK, ProviderTyped, UnusedInv, VoicesKept

\* A task that is given out has no record yet.
LEMMA TaskGiven ==
    ASSUME VoiceInv, NEW t \in Unused, validate' = [validate EXCEPT ![t] = "generating"],
           record' = record
    PROVE  ProviderOK
  <1>1. ProviderTyped /\ UnusedInv BY Types DEF VoiceInv
  <1>2. ProviderTyped' BY <1>1 DEF ProviderTyped, ValidateStates
  <1>3. UnusedInv' BY <1>1 DEF ProviderTyped, UnusedInv
  <1> QED BY <1>2, <1>3 DEF ProviderOK, VoicesKept

LEMMA SampleKept ==
    ASSUME VoiceInv, sample' = sample, VoicesKept
    PROVE  sample' \in Samples /\ SampleOK(sample', record')
  <1>1. sample \in Samples /\ SampleOK(sample, record) BY Types DEF VoiceInv
  <1> QED BY <1>1 DEF SampleOK, VoicesKept, Samples, TaskIds

\* A sample that is not ready needs no voice.
LEMMA NotReady ==
    ASSUME NEW s, NEW v, s.status # "ready" PROVE SampleOK(s, v)
  BY DEF SampleOK

LEMMA RequestsKept ==
    ASSUME VoiceInv, VoicesKept, request' = request
    PROVE  request' \in [Requests -> Reqs] /\ RequestsInv'
  <1>1. request \in [Requests -> Reqs] /\ RequestsInv BY Types DEF VoiceInv
  <1> QED BY <1>1 DEF RequestsInv, RequestOK, VoicesKept, Reqs, TaskIds

LEMMA RequestMoves ==
    ASSUME VoiceInv, VoicesKept, NEW q \in Requests, NEW r \in Reqs, RequestOK(r, record'),
           request' = [request EXCEPT ![q] = r]
    PROVE  request' \in [Requests -> Reqs] /\ RequestsInv'
  <1>1. request \in [Requests -> Reqs] /\ RequestsInv BY Types DEF VoiceInv
  <1>2. request' \in [Requests -> Reqs] BY <1>1
  <1>3. ASSUME NEW p \in Requests PROVE RequestOK(request'[p], record')
    <2>1. CASE p = q
      <3>1. request'[p] = r BY <1>1, <2>1
      <3> QED BY <3>1
    <2>2. CASE p # q
      <3>1. request'[p] = request[p] /\ request[p] \in Reqs BY <1>1, <2>2
      <3>2. RequestOK(request[p], record) BY <1>1 DEF RequestsInv
      <3>3. RequestOK(request[p], record')
        BY <3>1, <3>2 DEF RequestOK, VoicesKept, Reqs, TaskIds
      <3> QED BY <3>1, <3>3
    <2> QED BY <2>1, <2>2
  <1> QED BY <1>2, <1>3 DEF RequestsInv

LEMMA Assembled ==
    ASSUME ProviderOK, CountsTyped', sample' \in Samples, SampleOK(sample', record'),
           request' \in [Requests -> Reqs], RequestsInv'
    PROVE  VoiceInv'
  <1>1. TypeOK'
    BY DEF ProviderOK, TypeOK, ProviderTyped, CountsTyped, Reqs, Pcs, Kinds, ValidateStates,
           RecordStates
  <1> QED BY <1>1 DEF VoiceInv, ProviderOK

LEMMA FailsTyped ==
    ASSUME VoiceInv, Fails \/ UNCHANGED failures PROVE failures' \in 0 .. MaxFailures
  BY VoiceAssumption, Types DEF VoiceInv, CountsTyped, Fails

\* A request that goes from one step to another and writes nothing.
LEMMA Goes1 ==
    ASSUME VoiceInv, ProviderOK, CountsTyped', sample' = sample,
           NEW q \in Requests, NEW r \in Reqs, RequestOK(r, record'),
           request' = [request EXCEPT ![q] = r]
    PROVE  VoiceInv'
  <1>1. VoicesKept BY DEF ProviderOK
  <1> QED BY <1>1, SampleKept, RequestMoves, Assembled

\* A request that writes the sample.
LEMMA Writes ==
    ASSUME VoiceInv, UNCHANGED <<Provider, uses>>, age' \in 0 .. 2, Fails \/ UNCHANGED failures,
           sample' \in Samples, SampleOK(sample', record'),
           NEW q \in Requests, NEW r \in Reqs, RequestOK(r, record'),
           request' = [request EXCEPT ![q] = r]
    PROVE  VoiceInv'
  <1>1. ProviderOK BY ProviderKept DEF Provider
  <1>2. VoicesKept BY <1>1 DEF ProviderOK
  <1>3. CountsTyped' BY FailsTyped, Types DEF VoiceInv, CountsTyped
  <1> QED BY <1>1, <1>2, <1>3, RequestMoves, Assembled

-----------------------------------------------------------------------------
(* The initial states and the provider *)

LEMMA VoiceInit == Init => VoiceInv
  <1> SUFFICES ASSUME Init PROVE VoiceInv OBVIOUS
  <1>1. sample \in Samples /\ sample.status # "ready"
    <2>1. CASE sample = NewSample BY <2>1, NewSampleTyped
    <2>2. CASE \E asked \in Tasks :
                 sample = [NewSample EXCEPT !.status = "awaiting", !.task = asked, !.phrase = TRUE]
      <3> DEFINE n == NewSample
      <3>1. n \in Samples BY NewSampleTyped
      <3> HIDE DEF n
      <3>2. PICK asked \in Tasks :
              sample = [n EXCEPT !.status = "awaiting", !.task = asked, !.phrase = TRUE]
        BY <2>2 DEF n
      <3> QED BY <3>1, <3>2 DEF Samples, Statuses, TaskIds
    <2>3. \/ sample = NewSample
          \/ \E asked \in Tasks :
                sample = [NewSample EXCEPT !.status = "awaiting", !.task = asked, !.phrase = TRUE]
      BY Zenon DEF Init
    <2> QED BY <2>1, <2>2, <2>3, Zenon
  <1>2. ProviderTyped BY DEF Init, ProviderTyped, ValidateStates, RecordStates
  <1>a. age = 0 /\ uses = 0 /\ failures = 0 BY Zenon DEF Init
  <1>3. CountsTyped BY <1>a, VoiceAssumption DEF CountsTyped
  <1>4. request = [q \in Requests |-> IdleRequest] BY DEF Init
  <1>5. request \in [Requests -> Reqs] BY <1>4, IdleTyped
  <1>6. RequestsInv BY <1>4, IdleTyped, NothingConcluded DEF RequestsInv
  <1>7. UnusedInv BY DEF Init, UnusedInv
  <1>8. SampleOK(sample, record) BY <1>1, NotReady
  <1> QED BY <1>1, <1>2, <1>3, <1>5, <1>6, <1>7, <1>8, Types DEF VoiceInv

LEMMA ProviderMoves ==
    ASSUME VoiceInv, NEW t \in Tasks, ValidateMoves(t) \/ VoiceMoves(t)
    PROVE  VoiceInv'
  <1>1. ProviderTyped /\ UnusedInv /\ CountsTyped BY Types DEF VoiceInv
  <1>2. ProviderOK
    <2>1. CASE ValidateMoves(t)
      <3>1. record' = record /\ ProviderTyped' 
        BY <1>1, <2>1 DEF ValidateMoves, ProviderTyped, ValidateStates
      <3>2. UnusedInv' BY <1>1, <2>1 DEF ValidateMoves, UnusedInv, ProviderTyped
      <3> QED BY <3>1, <3>2 DEF ProviderOK, VoicesKept
    <2>2. CASE VoiceMoves(t)
      <3>1. validate' = validate /\ ProviderTyped'
        BY <1>1, <2>2 DEF VoiceMoves, ProviderTyped, RecordStates
      <3>2. UnusedInv' /\ VoicesKept
        BY <1>1, <2>2 DEF VoiceMoves, UnusedInv, ProviderTyped, VoicesKept
      <3> QED BY <3>1, <3>2 DEF ProviderOK
    <2> QED BY <2>1, <2>2
  <1>3. VoicesKept BY <1>2 DEF ProviderOK
  <1>4. UNCHANGED <<sample, age, request, uses, failures>> BY DEF ValidateMoves, VoiceMoves
  <1>5. CountsTyped' BY <1>1, <1>4 DEF CountsTyped
  <1> QED BY <1>2, <1>3, <1>4, <1>5, SampleKept, RequestsKept, Assembled

LEMMA AgesKeeps == ASSUME VoiceInv, Ages PROVE VoiceInv'
  <1>1. ProviderOK BY ProviderKept DEF Ages, Provider
  <1>2. VoicesKept BY <1>1 DEF ProviderOK
  <1>3. sample' = sample /\ request' = request BY DEF Ages
  <1>4. CountsTyped' BY Types DEF VoiceInv, Ages, CountsTyped
  <1> QED BY <1>1, <1>2, <1>3, <1>4, SampleKept, RequestsKept, Assembled

-----------------------------------------------------------------------------
(* The requests *)

\* A request that starts: it keeps of the sample what it uses.
LEMMA GotoKeeps ==
    ASSUME VoiceInv, NEW q \in Requests, NEW kind \in Kinds, NEW pc \in Pcs \ {"write"},
           Goto(q, kind, pc), uses' \in 0 .. MaxUses
    PROVE  VoiceInv'
  <1> DEFINE k == Kept(pc, sample)
             r == [IdleRequest EXCEPT !.kind = kind, !.pc = pc, !.read = k]
  <1>1. sample \in Samples BY Types DEF VoiceInv
  <1>2. k \in Samples BY <1>1, KeptTyped
  <1>3. request' = [request EXCEPT ![q] = r] BY Zenon DEF Goto
  <1>4. UNCHANGED <<sample, age, Provider, failures>> BY Zenon DEF Goto
  <1> HIDE DEF k
  <1>5. r \in Reqs /\ RequestOK(r, record') BY <1>2, FreshTyped
  <1> HIDE DEF r
  <1>6. ProviderOK BY <1>4, ProviderKept
  <1>7. CountsTyped' BY <1>4, Types DEF VoiceInv, CountsTyped
  <1> QED BY <1>3, <1>4, <1>5, <1>6, <1>7, Goes1

LEMMA UsesTyped == ASSUME VoiceInv, NEW q, Uses(q) PROVE uses' \in 0 .. MaxUses
  BY VoiceAssumption, Types DEF VoiceInv, CountsTyped, Uses

LEMMA StartsKeep ==
    ASSUME VoiceInv, NEW q \in Requests,
           StartPoll(q) \/ StartPrepare(q) \/ StartRestart(q) \/ StartCancel(q) \/ StartSubmit(q)
    PROVE  VoiceInv'
  <1>1. \A kind, pc : Goto(q, kind, pc) /\ kind \in Kinds /\ pc \in Pcs \ {"write"}
                          /\ (Uses(q) \/ UNCHANGED uses) => VoiceInv'
    <2> SUFFICES ASSUME NEW kind \in Kinds, NEW pc \in Pcs \ {"write"}, Goto(q, kind, pc),
                        Uses(q) \/ UNCHANGED uses
                 PROVE  VoiceInv'
      OBVIOUS
    <2>1. uses' \in 0 .. MaxUses BY UsesTyped, Types DEF VoiceInv, CountsTyped
    <2> QED BY <2>1, GotoKeeps
  <1>2. {"poll", "prepare", "restart", "cancel", "submit"} \subseteq Kinds BY DEF Kinds
  <1>3. {"sync", "persona", "claim", "check", "stop"} \subseteq Pcs \ {"write"} BY DEF Pcs
  <1>4. CASE StartPoll(q) BY <1>1, <1>2, <1>3, <1>4 DEF StartPoll
  <1>5. CASE StartPrepare(q) BY <1>1, <1>2, <1>3, <1>5 DEF StartPrepare
  <1>6. CASE StartRestart(q) BY <1>1, <1>2, <1>3, <1>6 DEF StartRestart
  <1>7. CASE StartCancel(q) BY <1>1, <1>2, <1>3, <1>7 DEF StartCancel
  <1>8. CASE StartSubmit(q) BY <1>1, <1>2, <1>3, <1>8 DEF StartSubmit
  <1> QED BY <1>4, <1>5, <1>6, <1>7, <1>8

\* A request that ends without a word.
LEMMA DiesKeeps == ASSUME VoiceInv, NEW q \in Requests, Dies(q) PROVE VoiceInv'
  <1>1. ProviderOK BY ProviderKept DEF Dies, Provider
  <1>2. CountsTyped' BY FailsTyped, Types DEF VoiceInv, CountsTyped, Dies
  <1>3. sample' = sample /\ request' = [request EXCEPT ![q] = IdleRequest] BY DEF Dies
  <1> QED BY <1>1, <1>2, <1>3, Goes1, IdleTyped, NothingConcluded

LEMMA ThrowsKeeps == ASSUME VoiceInv, NEW q \in Requests, Throws(q) PROVE VoiceInv'
  <1> DEFINE r == [IdleRequest EXCEPT !.pc = "release"]
  <1>1. ProviderOK BY ProviderKept DEF Throws, Provider
  <1>2. CountsTyped' BY FailsTyped, Types DEF VoiceInv, CountsTyped, Throws
  <1>3. sample' = sample /\ request' = [request EXCEPT ![q] = r] BY Zenon DEF Throws
  <1>4. "release" \in Pcs \ {"write"} BY DEF Pcs
  <1>5. r \in Reqs /\ RequestOK(r, record') BY <1>4, NewSampleTyped, FreshTyped DEF Kinds
  <1> HIDE DEF r
  <1> QED BY <1>1, <1>2, <1>3, <1>5, Goes1

\* What a request concludes from the sample it read and the provider's answer.
LEMMA ConclusionTyped ==
    ASSUME NEW s, NEW v, NEW r, NEW c, c = Conclusion(s, v, r)
    PROVE  /\ c \in Outcomes
           /\ c # "none" => s.task # NoTask
           /\ c = "ready" => r = "voice"
           /\ c \in {"refresh", "regenerate"} => s.regens < MaxRegens
  BY DEF Conclusion, Outcomes, CanSync, MayRegenerate

\* The request writes an outcome that needs no proof.
LEMMA WillWrite ==
    ASSUME NEW r \in Reqs, NEW c \in Outcomes \ {"none"}, NEW t \in TaskIds, NEW v,
           c = "ready" => t # NoTask /\ v[t] = "voice",
           c \in {"regenerate", "refresh"} => r.read.regens < MaxRegens
    PROVE  LET x == [r EXCEPT !.pc = "write", !.outcome = c, !.task = t]
           IN  x \in Reqs /\ RequestOK(x, v)
  <1> DEFINE x == [r EXCEPT !.pc = "write", !.outcome = c, !.task = t]
  <1>1. x \in Reqs BY DEF Reqs, Pcs
  <1>2. x.pc = "write" /\ x.outcome = c /\ x.task = t /\ x.read = r.read BY DEF Reqs
  <1>3. RequestOK(x, v) BY <1>2 DEF RequestOK
  <1> QED BY <1>1, <1>3

LEMMA SyncKeeps == ASSUME VoiceInv, NEW q \in Requests, Sync(q) PROVE VoiceInv'
  <1> DEFINE s == request[q].read
             c == IF s.task = NoTask THEN "none"
                  ELSE Conclusion(s, validate[s.task], record[s.task])
             old == request[q]
  <1>1. old \in Reqs /\ s \in Samples BY Types DEF VoiceInv, Reqs
  <1>2. /\ c \in Outcomes
        /\ c # "none" => s.task # NoTask
        /\ c = "ready" => record[s.task] = "voice"
        /\ c \in {"refresh", "regenerate"} => s.regens < MaxRegens
    BY ConclusionTyped DEF Outcomes
  <1>3. s.task \in TaskIds BY <1>1 DEF Samples
  <1>4. UNCHANGED <<sample, age, record, uses>> BY Zenon DEF Sync
  <1>5. ASSUME NEW r \in Reqs, RequestOK(r, record), request' = [request EXCEPT ![q] = r],
               ProviderOK, Fails \/ UNCHANGED failures
        PROVE  VoiceInv'
    <2>1. CountsTyped' BY <1>4, <1>5, FailsTyped, Types DEF VoiceInv, CountsTyped
    <2> QED BY <2>1, <1>4, <1>5, Goes1
  <1>6. Went(q, s) \in Reqs /\ RequestOK(Went(q, s), record) BY <1>1, WentTyped
  <1>7. validate' = validate => ProviderOK BY <1>4, ProviderKept DEF Provider
  <1>8. CASE /\ c \in {"none", "fail", "expire", "ready", "cloning", "promote"}
             /\ request' = [request EXCEPT ![q] =
                               IF c = "none" THEN Went(q, s)
                               ELSE [@ EXCEPT !.pc = "write", !.outcome = c, !.task = s.task]]
             /\ UNCHANGED <<validate, failures>>
    <2> DEFINE w == Went(q, s)
               x == [old EXCEPT !.pc = "write", !.outcome = c, !.task = s.task]
    <2>1. c \in Outcomes /\ c \notin {"refresh", "regenerate"} BY <1>2, <1>8
    <2>2. request' = [request EXCEPT ![q] = IF c = "none" THEN w ELSE x]
      BY <1>8, Types DEF VoiceInv
    <2>3. w \in Reqs /\ RequestOK(w, record) BY <1>6
    <2> HIDE DEF c
    <2>4. c = "ready" => s.task # NoTask /\ record[s.task] = "voice" BY <1>2
    <2>5. c # "none" => x \in Reqs /\ RequestOK(x, record) BY <1>1, <1>3, <2>1, <2>4, WillWrite
    <2> HIDE DEF w, x
    <2> QED BY <2>2, <2>3, <2>5, <1>5, <1>7, <1>8
  <1>9. CASE /\ c = "ready" /\ Fails
             /\ request' = [request EXCEPT ![q].pc = "write", ![q].outcome = "fail"]
             /\ UNCHANGED validate
    <2> DEFINE x == [old EXCEPT !.pc = "write", !.outcome = "fail", !.task = old.task]
    <2>1. old.task \in TaskIds /\ "fail" \in Outcomes \ {"none"} BY <1>1 DEF Reqs, Outcomes
    <2>2. x \in Reqs /\ RequestOK(x, record) BY <1>1, <2>1, WillWrite
    <2>3. x = [old EXCEPT !.pc = "write", !.outcome = "fail"] BY <1>1 DEF Reqs
    <2>4. request' = [request EXCEPT ![q] = [old EXCEPT !.pc = "write", !.outcome = "fail"]]
      BY <1>9, <1>1, Types DEF VoiceInv, Reqs
    <2> HIDE DEF x
    <2> QED BY <2>2, <2>3, <2>4, <1>5, <1>7, <1>9
  <1>10. CASE /\ c \in {"refresh", "regenerate"}
              /\ \E t \in Unused :
                    /\ validate' = [validate EXCEPT ![t] = "generating"]
                    /\ request' = [request EXCEPT ![q].pc = "write", ![q].outcome = c,
                                                  ![q].task = t]
              /\ UNCHANGED failures
    <2>1. PICK t \in Unused :
              /\ validate' = [validate EXCEPT ![t] = "generating"]
              /\ request' = [request EXCEPT ![q].pc = "write", ![q].outcome = c, ![q].task = t]
      BY <1>10
    <2>2. ProviderOK BY <2>1, <1>4, TaskGiven
    <2>3. t \in TaskIds BY DEF Unused, TaskIds
    <2> DEFINE x == [old EXCEPT !.pc = "write", !.outcome = c, !.task = t]
    <2>4. x \in Reqs /\ RequestOK(x, record) BY <1>1, <1>2, <2>3, <1>10, WillWrite
    <2> HIDE DEF c
    <2>5. request' = [request EXCEPT ![q] = x] BY <2>1, <1>1, Types DEF VoiceInv, Reqs
    <2> HIDE DEF x
    <2> QED BY <2>2, <2>4, <2>5, <1>5, <1>10
  <1>11. CASE /\ c \in {"refresh", "regenerate"}
              /\ Unused = {} \/ failures < MaxFailures
              /\ failures' = IF Unused = {} THEN failures ELSE failures + 1
              /\ request' = [request EXCEPT ![q] =
                                IF c = "regenerate" THEN Went(q, s)
                                ELSE [@ EXCEPT !.pc = "write", !.outcome = "expire"]]
              /\ UNCHANGED validate
    <2> DEFINE w == Went(q, s)
               x == [old EXCEPT !.pc = "write", !.outcome = "expire", !.task = old.task]
    <2>1. old.task \in TaskIds /\ "expire" \in Outcomes \ {"none"} BY <1>1 DEF Reqs, Outcomes
    <2>2. x \in Reqs /\ RequestOK(x, record) BY <1>1, <2>1, WillWrite
    <2>3. x = [old EXCEPT !.pc = "write", !.outcome = "expire"] BY <1>1 DEF Reqs
    <2>4. request' = [request EXCEPT ![q] =
              IF c = "regenerate" THEN w ELSE [old EXCEPT !.pc = "write", !.outcome = "expire"]]
      BY <1>11, Types DEF VoiceInv
    <2>5. w \in Reqs /\ RequestOK(w, record) BY <1>6
    <2>6. Fails \/ UNCHANGED failures BY <1>11 DEF Fails
    <2> HIDE DEF w, x, c
    <2> QED BY <2>2, <2>3, <2>4, <2>5, <2>6, <1>5, <1>7, <1>11
  <1> QED BY <1>8, <1>9, <1>10, <1>11, Zenon DEF Sync

\* The fields a conclusion sets make a sample, with a voice if it is ready.
LEMMA ConcludedTyped ==
    ASSUME VoiceInv, NEW o \in Reqs, RequestOK(o, record), o.pc = "write"
    PROVE  LET s == Concluded(o.outcome, o.task, o.read.regens)
           IN  s \in Samples /\ SampleOK(s, record)
  <1> DEFINE c == o.outcome
             n == Concluded(c, o.task, o.read.regens)
  <1>1. sample \in Samples /\ SampleOK(sample, record) BY Types DEF VoiceInv
  <1>2. o.task \in TaskIds /\ o.read.regens \in 0 .. MaxRegens BY DEF Reqs, Samples
  <1>3. CASE c \in {"fail", "expire"}
    <2>1. n = [sample EXCEPT !.status = "failed", !.phrase = FALSE, !.stopped = FALSE]
      BY <1>3 DEF Concluded
    <2>2. n \in Samples /\ n.status = "failed" BY <1>1, <2>1 DEF Samples, Statuses
    <2> QED BY <2>2, NotReady
  <1>4. CASE c = "ready"
    <2>1. n = [sample EXCEPT !.status = "ready", !.voice = o.task, !.stopped = FALSE]
      BY <1>4 DEF Concluded
    <2>2. n \in Samples /\ n.voice = o.task BY <1>1, <1>2, <2>1 DEF Samples, Statuses
    <2> QED BY <1>4, <2>2 DEF RequestOK, SampleOK
  <1>5. CASE c = "cloning"
    <2>1. n = [sample EXCEPT !.status = "cloning", !.stopped = FALSE] BY <1>5 DEF Concluded
    <2>2. n \in Samples /\ n.status = "cloning" BY <1>1, <2>1 DEF Samples, Statuses
    <2> QED BY <2>2, NotReady
  <1>6. CASE c = "promote"
    <2>1. n = [sample EXCEPT !.status = "awaiting", !.phrase = TRUE, !.stopped = FALSE,
                             !.regens = 0]
      BY <1>6 DEF Concluded
    <2>2. 0 \in 0 .. MaxRegens BY DEF MaxRegens
    <2>3. n \in Samples /\ n.status = "awaiting" BY <1>1, <2>1, <2>2 DEF Samples, Statuses
    <2> QED BY <2>3, NotReady
  <1>7. CASE c = "regenerate"
    <2>1. n = [sample EXCEPT !.task = o.task, !.regens = o.read.regens + 1, !.phrase = FALSE,
                             !.stopped = FALSE]
      BY <1>7 DEF Concluded
    <2>2. o.read.regens + 1 \in 0 .. MaxRegens BY <1>2, <1>7 DEF RequestOK, MaxRegens
    <2>3. n \in Samples BY <1>1, <1>2, <2>1, <2>2 DEF Samples
    <2>4. n.status = sample.status /\ n.voice = sample.voice BY <1>1, <2>1 DEF Samples
    <2> QED BY <1>1, <2>3, <2>4 DEF SampleOK
  <1>8. CASE c = "refresh"
    <2>1. n = [sample EXCEPT !.task = o.task, !.regens = o.read.regens + 1, !.phrase = FALSE,
                             !.status = "preparing", !.stopped = FALSE]
      BY <1>8 DEF Concluded
    <2>2. o.read.regens + 1 \in 0 .. MaxRegens BY <1>2, <1>8 DEF RequestOK, MaxRegens
    <2>3. n \in Samples /\ n.status = "preparing"
      BY <1>1, <1>2, <2>1, <2>2 DEF Samples, Statuses
    <2> QED BY <2>3, NotReady
  <1>9. c \in Outcomes /\ c # "none" BY DEF Reqs, RequestOK
  <1> QED BY <1>3, <1>4, <1>5, <1>6, <1>7, <1>8, <1>9 DEF Outcomes

LEMMA WriteKeeps == ASSUME VoiceInv, NEW q \in Requests, Write(q) PROVE VoiceInv'
  <1> DEFINE o == request[q]
             n == Concluded(o.outcome, o.task, o.read.regens)
             w == Went(q, n)
             x == [o EXCEPT !.pc = "sync", !.read = n, !.outcome = "none"]
  <1>1. /\ o \in Reqs /\ RequestOK(o, record) /\ o.pc = "write"
        /\ request \in [Requests -> Reqs]
    BY Types DEF VoiceInv, RequestsInv, Write
  <1>2. n \in Samples /\ SampleOK(n, record) BY <1>1, ConcludedTyped
  <1>3. /\ sample' = n /\ age' = 0 /\ UNCHANGED <<Provider, uses, failures>>
        /\ request' = [request EXCEPT ![q] =
                          IF o.outcome \in {"regenerate", "refresh", "expire"}
                          THEN [@ EXCEPT !.pc = "sync", !.read = sample', !.outcome = "none"]
                          ELSE Went(q, sample')]
    BY Zenon DEF Write
  <1>4. w \in Reqs /\ RequestOK(w, record) BY <1>2, WentTyped
  <1> HIDE DEF n
  <1>5. x \in Reqs /\ RequestOK(x, record)
    <2>1. x \in Reqs /\ x.outcome = "none" /\ x.pc = "sync"
      BY <1>1, <1>2 DEF Reqs, Pcs, Outcomes
    <2> QED BY <2>1, NothingConcluded
  <1>6. request' \in {[request EXCEPT ![q] = x], [request EXCEPT ![q] = w]}
    BY <1>1, <1>3
  <1>7. record' = record BY <1>3 DEF Provider
  <1> HIDE DEF w, x
  <1>8. sample' \in Samples /\ SampleOK(sample', record') BY <1>2, <1>3, <1>7
  <1>9. age' \in 0 .. 2 /\ UNCHANGED <<Provider, uses>> /\ UNCHANGED failures BY <1>3
  <1> QED BY <1>4, <1>5, <1>6, <1>7, <1>8, <1>9, Writes

\* A request that ends, or goes on to claim the sample or to give up.
LEMMA EndsTyped ==
    ASSUME NEW v
    PROVE  /\ IdleRequest \in Reqs /\ RequestOK(IdleRequest, v)
           /\ [IdleRequest EXCEPT !.pc = "claim"] \in Reqs
           /\ RequestOK([IdleRequest EXCEPT !.pc = "claim"], v)
  <1>1. "claim" \in Pcs \ {"write"} /\ "poll" \in Kinds BY DEF Pcs, Kinds
  <1> QED BY <1>1, IdleTyped, NothingConcluded, FreshTyped, NewSampleTyped

\* The same request at another step, with nothing concluded; its task may change.
LEMMA StepTyped ==
    ASSUME NEW o \in Reqs, o.outcome = "none", NEW v, NEW pc \in Pcs \ {"write"},
           NEW t \in TaskIds
    PROVE  /\ [o EXCEPT !.pc = pc] \in Reqs /\ RequestOK([o EXCEPT !.pc = pc], v)
           /\ [o EXCEPT !.pc = pc, !.task = t] \in Reqs
           /\ RequestOK([o EXCEPT !.pc = pc, !.task = t], v)
  <1>1. /\ [o EXCEPT !.pc = pc] \in Reqs
        /\ [o EXCEPT !.pc = pc, !.task = t] \in Reqs
    BY DEF Reqs
  <1>2. /\ RequestOK([o EXCEPT !.pc = pc], v)
        /\ RequestOK([o EXCEPT !.pc = pc, !.task = t], v)
    BY DEF Reqs, RequestOK
  <1> QED BY <1>1, <1>2

LEMMA StopKeeps == ASSUME VoiceInv, NEW q \in Requests, Stop(q) PROVE VoiceInv'
  <1> DEFINE n == NewSample
             s == [n EXCEPT !.status = "failed", !.stopped = TRUE]
  <1>1. sample' = s /\ age' = 0 /\ UNCHANGED <<Provider, uses, failures>>
        /\ request' = [request EXCEPT ![q] = IdleRequest]
    BY Zenon DEF Stop
  <1>2. n \in Samples BY NewSampleTyped
  <1> HIDE DEF n
  <1>3. s \in Samples /\ s.status = "failed" BY <1>2 DEF Samples, Statuses
  <1>4. SampleOK(s, record') BY <1>3, NotReady
  <1> HIDE DEF s
  <1>5. sample' \in Samples /\ SampleOK(sample', record') BY <1>1, <1>3, <1>4
  <1>6. age' \in 0 .. 2 /\ UNCHANGED <<Provider, uses>> /\ UNCHANGED failures BY <1>1
  <1> QED BY <1>1, <1>5, <1>6, EndsTyped, Writes

LEMMA CheckKeeps == ASSUME VoiceInv, NEW q \in Requests, Check(q) PROVE VoiceInv'
  <1> DEFINE x == [IdleRequest EXCEPT !.pc = "claim"]
  <1>1. UNCHANGED <<Provider, uses>> BY Zenon DEF Check
  <1>2. \/ /\ request' = [request EXCEPT ![q] = IdleRequest]
           /\ UNCHANGED <<sample, age, failures>>
        \/ /\ Fails \/ UNCHANGED failures
           /\ sample' = NewSample /\ age' = 0
           /\ request' = [request EXCEPT ![q] = x]
    BY Zenon DEF Check
  <1>3. x \in Reqs /\ RequestOK(x, record') BY EndsTyped
  <1> HIDE DEF x
  <1>4. ProviderOK /\ VoicesKept BY <1>1, ProviderKept DEF ProviderOK
  <1>5. age \in 0 .. 2 BY Types DEF VoiceInv, CountsTyped
  <1>6. sample \in Samples /\ (sample' = sample => SampleOK(sample', record'))
    BY <1>4, SampleKept, Types DEF VoiceInv
  <1> QED BY <1>1, <1>2, <1>3, <1>5, <1>6, EndsTyped, NewSampleTyped, NotReady, Writes

\* A request that leaves the sample alone, or writes it and the age.
LEMMA Settles ==
    ASSUME VoiceInv, UNCHANGED <<Provider, uses>>, Fails \/ UNCHANGED failures,
           age' = 0 \/ age' = age,
           sample' = sample \/ (sample' \in Samples /\ SampleOK(sample', record)),
           NEW q \in Requests, NEW r \in Reqs, RequestOK(r, record),
           request' = [request EXCEPT ![q] = r]
    PROVE  VoiceInv'
  <1>1. record' = record BY DEF Provider
  <1>2. age' \in 0 .. 2 BY Types DEF VoiceInv, CountsTyped
  <1>3. sample \in Samples /\ SampleOK(sample, record) BY Types DEF VoiceInv
  <1>4. sample' \in Samples /\ SampleOK(sample', record') BY <1>1, <1>3
  <1>5. RequestOK(r, record') BY <1>1
  <1> QED BY <1>2, <1>4, <1>5, Writes

LEMMA PersonaKeeps == ASSUME VoiceInv, NEW q \in Requests, Persona(q) PROVE VoiceInv'
  <1> DEFINE s == request[q].read
             corrected == s.task # NoTask /\ s.task # s.voice /\ record[s.task] = "voice"
             n == [sample EXCEPT !.status = "ready", !.voice = s.task, !.stopped = FALSE]
             g == [sample EXCEPT !.status = "failed", !.voice = NoTask, !.phrase = FALSE,
                                 !.stopped = FALSE]
             x == [IdleRequest EXCEPT !.pc = "claim"]
  <1>1. UNCHANGED <<Provider, uses>> /\ (age' = 0 \/ age' = age) BY Zenon DEF Persona
  <1>2. \/ /\ sample' = IF corrected THEN n ELSE sample
           /\ request' = [request EXCEPT ![q] = IdleRequest]
           /\ UNCHANGED failures
        \/ /\ Fails /\ sample' = g
           /\ request' = [request EXCEPT ![q] = IdleRequest]
        \/ /\ Fails /\ sample' = NewSample
           /\ request' = [request EXCEPT ![q] = x]
    BY Zenon DEF Persona
  <1>3. sample \in Samples /\ s.task \in TaskIds BY Types DEF VoiceInv, Reqs, Samples
  <1>4. corrected => n \in Samples /\ SampleOK(n, record)
    <2>1. n \in Samples /\ n.voice = s.task BY <1>3 DEF Samples, Statuses
    <2> QED BY <2>1 DEF SampleOK
  <1>5. g \in Samples /\ SampleOK(g, record)
    <2>1. g \in Samples /\ g.status = "failed" BY <1>3 DEF Samples, Statuses, TaskIds
    <2> QED BY <2>1, NotReady
  <1>6. NewSample \in Samples /\ SampleOK(NewSample, record) BY NewSampleTyped, NotReady
  <1> HIDE DEF corrected, n, g, x
  <1>7. \/ request' = [request EXCEPT ![q] = IdleRequest]
        \/ request' = [request EXCEPT ![q] = x]
    BY <1>2
  <1>8. sample' = sample \/ (sample' \in Samples /\ SampleOK(sample', record))
    BY <1>2, <1>4, <1>5, <1>6
  <1>9. Fails \/ UNCHANGED failures BY <1>2
  <1>10. x \in Reqs /\ RequestOK(x, record) BY EndsTyped DEF x
  <1> QED BY <1>1, <1>7, <1>8, <1>9, <1>10, EndsTyped, Settles

LEMMA ClaimKeeps == ASSUME VoiceInv, NEW q \in Requests, Claim(q) PROVE VoiceInv'
  <1> DEFINE o == request[q]
             n == [sample EXCEPT !.status = "preparing", !.stopped = FALSE]
             x == [o EXCEPT !.pc = "upload"]
             y == [IdleRequest EXCEPT !.pc = "sync", !.read = sample]
  <1>1. /\ request \in [Requests -> Reqs] /\ o \in Reqs /\ o.outcome = "none"
        /\ sample \in Samples
    BY Types DEF VoiceInv, RequestsInv, RequestOK, Claim
  <1>2. UNCHANGED <<Provider, uses, failures>> BY Zenon DEF Claim
  <1>3. \/ /\ sample' = n /\ age' = 0
           /\ request' = [request EXCEPT ![q].pc = "upload"]
        \/ /\ \/ request' = [request EXCEPT ![q] = y]
              \/ request' = [request EXCEPT ![q] = IdleRequest]
           /\ UNCHANGED <<sample, age>>
    BY Zenon DEF Claim
  <1>4. n \in Samples /\ SampleOK(n, record)
    <2>1. n \in Samples /\ n.status = "preparing" BY <1>1 DEF Samples, Statuses
    <2> QED BY <2>1, NotReady
  <1>5. {"upload", "sync"} \subseteq Pcs \ {"write"} /\ "poll" \in Kinds BY DEF Pcs, Kinds
  <1>6. x \in Reqs /\ RequestOK(x, record) BY <1>1, <1>5, StepTyped DEF Reqs
  <1>7. y \in Reqs /\ RequestOK(y, record) BY <1>1, <1>5, FreshTyped
  <1> HIDE DEF n, y
  <1>8. \/ request' = [request EXCEPT ![q] = x]
        \/ request' = [request EXCEPT ![q] = y]
        \/ request' = [request EXCEPT ![q] = IdleRequest]
    BY <1>1, <1>3
  <1>9. sample' = sample \/ (sample' \in Samples /\ SampleOK(sample', record)) BY <1>3, <1>4
  <1>10. age' = 0 \/ age' = age BY <1>3
  <1> HIDE DEF x
  <1> QED BY <1>2, <1>6, <1>7, <1>8, <1>9, <1>10, EndsTyped, Settles

LEMMA UploadKeeps == ASSUME VoiceInv, NEW q \in Requests, Upload(q) PROVE VoiceInv'
  <1> DEFINE o == request[q]
             x == [o EXCEPT !.pc = "release"]
  <1>1. /\ request \in [Requests -> Reqs] /\ o \in Reqs /\ o.outcome = "none"
    BY Types DEF VoiceInv, RequestsInv, RequestOK, Upload
  <1>2. {"release", "save"} \subseteq Pcs \ {"write"} BY DEF Pcs
  <1>3. UNCHANGED <<sample, age, record, uses>> BY DEF Upload
  <1>4. CASE /\ \E t \in Unused :
                   /\ validate' = [validate EXCEPT ![t] = "generating"]
                   /\ request' = [request EXCEPT ![q].pc = "save", ![q].task = t]
             /\ UNCHANGED failures
    <2>1. PICK t \in Unused :
              /\ validate' = [validate EXCEPT ![t] = "generating"]
              /\ request' = [request EXCEPT ![q].pc = "save", ![q].task = t]
      BY <1>4
    <2> DEFINE y == [o EXCEPT !.pc = "save", !.task = t]
    <2>2. t \in TaskIds BY DEF Unused, TaskIds
    <2>3. ProviderOK BY <1>3, <2>1, TaskGiven
    <2>4. y \in Reqs /\ RequestOK(y, record') BY <1>1, <1>2, <2>2, StepTyped
    <2>5. request' = [request EXCEPT ![q] = y] BY <1>1, <2>1 DEF Reqs
    <2>6. CountsTyped' BY <1>3, <1>4, Types DEF VoiceInv, CountsTyped
    <2> HIDE DEF y
    <2> QED BY <1>3, <2>3, <2>4, <2>5, <2>6, Goes1
  <1>5. CASE /\ Fails \/ UNCHANGED failures
             /\ request' = [request EXCEPT ![q].pc = "release"]
             /\ UNCHANGED validate
    <2>1. x \in Reqs /\ RequestOK(x, record) BY <1>1, <1>2, StepTyped DEF Reqs
    <2>2. request' = [request EXCEPT ![q] = x] BY <1>1, <1>5
    <2>3. UNCHANGED <<Provider, uses>> BY <1>3, <1>5 DEF Provider
    <2> HIDE DEF x
    <2> QED BY <1>3, <1>5, <2>1, <2>2, <2>3, Settles
  <1> QED BY <1>4, <1>5 DEF Upload, Fails

LEMMA SaveTaskKeeps == ASSUME VoiceInv, NEW q \in Requests, SaveTask(q) PROVE VoiceInv'
  <1> DEFINE m == NewSample
             t == request[q].task
             n == [m EXCEPT !.status = "preparing", !.task = t]
             x == [IdleRequest EXCEPT !.pc = "sync", !.kind = "prepare", !.read = n]
  <1>1. m \in Samples /\ t \in TaskIds BY NewSampleTyped, Types DEF VoiceInv, Reqs
  <1>2. sample' = n /\ age' = 0 /\ UNCHANGED <<Provider, uses, failures>> BY Zenon DEF SaveTask
  <1>3. request' = [request EXCEPT ![q] = [IdleRequest EXCEPT !.pc = "sync",
                                              !.kind = "prepare", !.read = sample']]
    BY Zenon DEF SaveTask
  <1> HIDE DEF m, t
  <1>4. n \in Samples /\ n.status = "preparing" BY <1>1 DEF Samples, Statuses
  <1>5. SampleOK(n, record) BY <1>4, NotReady
  <1> HIDE DEF n
  <1>6. "sync" \in Pcs \ {"write"} /\ "prepare" \in Kinds BY DEF Pcs, Kinds
  <1>7. x \in Reqs /\ RequestOK(x, record) BY <1>4, <1>6, FreshTyped
  <1>8. request' = [request EXCEPT ![q] = x] BY <1>2, <1>3, Zenon
  <1> HIDE DEF x
  <1> QED BY <1>2, <1>4, <1>5, <1>7, <1>8, Settles

LEMMA ReleaseKeeps == ASSUME VoiceInv, NEW q \in Requests, Release(q) PROVE VoiceInv'
  <1> DEFINE o == request[q]
             n == [sample EXCEPT !.status = "pending", !.stopped = FALSE]
             x == [o EXCEPT !.pc = "giveup"]
  <1>1. /\ request \in [Requests -> Reqs] /\ o \in Reqs /\ o.outcome = "none"
        /\ sample \in Samples
    BY Types DEF VoiceInv, RequestsInv, RequestOK, Release
  <1>2. /\ sample' = n \/ sample' = sample
        /\ age' = 0 \/ age' = age
        /\ request' = [request EXCEPT ![q].pc = "giveup"]
        /\ UNCHANGED <<Provider, uses, failures>>
    BY Zenon DEF Release
  <1>3. n \in Samples /\ n.status = "pending" BY <1>1 DEF Samples, Statuses
  <1>4. SampleOK(n, record) BY <1>3, NotReady
  <1>5. "giveup" \in Pcs \ {"write"} BY DEF Pcs
  <1>6. x \in Reqs /\ RequestOK(x, record) BY <1>1, <1>5, StepTyped DEF Reqs
  <1>7. request' = [request EXCEPT ![q] = x] BY <1>1, <1>2
  <1> HIDE DEF n, x
  <1> QED BY <1>2, <1>3, <1>4, <1>6, <1>7, Settles

LEMMA GiveUpKeeps == ASSUME VoiceInv, NEW q \in Requests, GiveUp(q) PROVE VoiceInv'
  <1> DEFINE n == [sample EXCEPT !.status = "failed", !.stopped = FALSE]
  <1>1. /\ sample' = n /\ age' = 0 /\ UNCHANGED <<Provider, uses, failures>>
        /\ request' = [request EXCEPT ![q] = IdleRequest]
    BY Zenon DEF GiveUp
  <1>2. sample \in Samples BY Types DEF VoiceInv
  <1>3. n \in Samples /\ n.status = "failed" BY <1>2 DEF Samples, Statuses
  <1>4. SampleOK(n, record) BY <1>3, NotReady
  <1> HIDE DEF n
  <1> QED BY <1>1, <1>3, <1>4, EndsTyped, Settles

\* The recording's task is one that nobody used, so no voice is lost.
LEMMA SubmitKeeps == ASSUME VoiceInv, NEW q \in Requests, Submit(q) PROVE VoiceInv'
  <1> DEFINE o == request[q]
             used == o.read.task
  <1>1. /\ request \in [Requests -> Reqs] /\ o \in Reqs /\ o.outcome = "none"
    BY Types DEF VoiceInv, RequestsInv, RequestOK, Submit
  <1>2. UNCHANGED <<sample, age, uses, failures>> BY Zenon DEF Submit
  <1>3. ProviderTyped /\ UnusedInv /\ CountsTyped BY Types DEF VoiceInv
  <1>4. CASE \E t \in Unused :
                /\ validate[used] \in {"asking", "silent"}
                /\ validate' = [validate EXCEPT ![used] = "success", ![t] = "success"]
                /\ record' = [record EXCEPT ![t] = "pending"]
                /\ request' = [request EXCEPT ![q].pc = "submitted", ![q].task = t]
    <2>1. PICK t \in Unused :
              /\ validate' = [validate EXCEPT ![used] = "success", ![t] = "success"]
              /\ record' = [record EXCEPT ![t] = "pending"]
              /\ request' = [request EXCEPT ![q].pc = "submitted", ![q].task = t]
      BY <1>4
    <2> DEFINE y == [o EXCEPT !.pc = "submitted", !.task = t]
    <2>2. t \in Tasks /\ validate[t] = "none" /\ t \in TaskIds BY DEF Unused, TaskIds
    <2>3. record[t] = "none" BY <1>3, <2>2 DEF UnusedInv
    <2>4. ProviderTyped'
      BY <1>3, <2>1, <2>2 DEF ProviderTyped, ValidateStates, RecordStates
    <2>5. UnusedInv' BY <1>3, <2>1, <2>2 DEF ProviderTyped, UnusedInv
    <2>6. VoicesKept BY <1>3, <2>1, <2>3 DEF ProviderTyped, VoicesKept
    <2>7. ProviderOK BY <2>4, <2>5, <2>6 DEF ProviderOK
    <2>8. "submitted" \in Pcs \ {"write"} BY DEF Pcs
    <2>9. y \in Reqs /\ RequestOK(y, record') BY <1>1, <2>2, <2>8, StepTyped
    <2>10. request' = [request EXCEPT ![q] = y] BY <1>1, <2>1 DEF Reqs
    <2>11. CountsTyped' BY <1>2, <1>3 DEF CountsTyped
    <2> HIDE DEF y
    <2> QED BY <1>2, <2>7, <2>9, <2>10, <2>11, Goes1
  <1>5. CASE /\ request' = [request EXCEPT ![q] = IdleRequest]
             /\ UNCHANGED Provider
    <2>1. RequestOK(IdleRequest, record) /\ IdleRequest \in Reqs BY EndsTyped
    <2>2. UNCHANGED <<Provider, uses>> BY <1>2, <1>5
    <2> QED BY <1>2, <1>5, <2>1, <2>2, Settles
  <1>6. CASE /\ request' = [request EXCEPT ![q].pc = "write", ![q].outcome = "fail",
                                           ![q].kind = "poll"]
             /\ UNCHANGED Provider
    <2> DEFINE x == [o EXCEPT !.pc = "write", !.outcome = "fail", !.kind = "poll"]
    <2>1. x \in Reqs /\ x.pc = "write" /\ x.outcome = "fail"
      BY <1>1 DEF Reqs, Pcs, Outcomes, Kinds
    <2>2. RequestOK(x, record) BY <2>1 DEF RequestOK
    <2>3. request' = [request EXCEPT ![q] = x] BY <1>1, <1>6 DEF Reqs
    <2>4. UNCHANGED <<Provider, uses>> BY <1>2, <1>6
    <2> HIDE DEF x
    <2> QED BY <1>2, <2>1, <2>2, <2>3, <2>4, Settles
  <1> QED BY <1>4, <1>5, <1>6 DEF Submit

LEMMA SaveVoiceTaskKeeps ==
    ASSUME VoiceInv, NEW q \in Requests, SaveVoiceTask(q) PROVE VoiceInv'
  <1> DEFINE t == request[q].task
             n == [sample EXCEPT !.status = "cloning", !.task = t, !.stopped = FALSE]
             x == [IdleRequest EXCEPT !.pc = "sync", !.read = n]
  <1>1. sample \in Samples /\ t \in TaskIds BY Types DEF VoiceInv, Reqs
  <1>2. sample' = n /\ age' = 0 /\ UNCHANGED <<Provider, uses, failures>>
    BY Zenon DEF SaveVoiceTask
  <1>3. request' = [request EXCEPT ![q] = [IdleRequest EXCEPT !.pc = "sync", !.read = sample']]
    BY Zenon DEF SaveVoiceTask
  <1>4. n \in Samples /\ n.status = "cloning" BY <1>1 DEF Samples, Statuses
  <1>5. SampleOK(n, record) BY <1>4, NotReady
  <1> HIDE DEF n
  <1>6. "sync" \in Pcs \ {"write"} /\ "poll" \in Kinds BY DEF Pcs, Kinds
  <1>7. x \in Reqs /\ RequestOK(x, record) BY <1>4, <1>6, FreshTyped
  <1>8. request' = [request EXCEPT ![q] = x] BY <1>2, <1>3, Zenon
  <1> HIDE DEF x
  <1> QED BY <1>2, <1>4, <1>5, <1>7, <1>8, Settles

-----------------------------------------------------------------------------
LEMMA StutterKeeps == ASSUME VoiceInv, UNCHANGED vars PROVE VoiceInv'
  <1>1. /\ UNCHANGED <<sample, age, request, uses, failures>> /\ UNCHANGED Provider
    BY DEF vars, Provider
  <1>2. ProviderOK BY <1>1, ProviderKept
  <1>3. VoicesKept BY <1>2 DEF ProviderOK
  <1>4. CountsTyped' BY <1>1, Types DEF VoiceInv, CountsTyped
  <1> QED BY <1>1, <1>2, <1>3, <1>4, SampleKept, RequestsKept, Assembled

\* Every step of a request, of the provider and of the clock keeps the types,
\* and keeps a voice behind every sample that is ready or about to be
\* (syncSunoVoiceTaskStatus and its callers).
THEOREM VoiceInvariant == Spec => []VoiceInv
  <1>1. Init => VoiceInv BY VoiceInit
  <1>2. VoiceInv /\ [Next]_vars => VoiceInv'
    <2> SUFFICES ASSUME VoiceInv, [Next]_vars PROVE VoiceInv' OBVIOUS
    <2>1. ASSUME NEW q \in Requests,
                 \/ StartPoll(q) \/ StartPrepare(q) \/ StartRestart(q)
                 \/ StartCancel(q) \/ StartSubmit(q)
                 \/ Goes(q) \/ Throws(q) \/ Dies(q)
          PROVE  VoiceInv'
      <3>1. CASE Goes(q)
        BY <3>1, SyncKeeps, WriteKeeps, StopKeeps, PersonaKeeps, CheckKeeps, ClaimKeeps,
           UploadKeeps, SaveTaskKeeps, ReleaseKeeps, GiveUpKeeps, SubmitKeeps,
           SaveVoiceTaskKeeps DEF Goes
      <3> QED BY <2>1, <3>1, StartsKeep, ThrowsKeeps, DiesKeeps
    <2>2. ASSUME NEW t \in Tasks, ValidateMoves(t) \/ VoiceMoves(t) PROVE VoiceInv'
      BY <2>2, ProviderMoves
    <2>3. CASE Ages BY <2>3, AgesKeeps
    <2>4. CASE UNCHANGED vars BY <2>4, StutterKeeps
    <2> QED BY <2>1, <2>2, <2>3, <2>4 DEF Next
  <1> QED BY <1>1, <1>2, PTL DEF Spec

\* The rows, the requests and the counters keep their types.
THEOREM TypeCorrect == Spec => []TypeOK
  <1>1. VoiceInv => TypeOK BY DEF VoiceInv
  <1> QED BY <1>1, VoiceInvariant, PTL

\* A sample that is ready has a voice the provider says it has made, whatever
\* was written by requests that read the sample before.
THEOREM ReadyIsFound == Spec => []ReadyHasVoice
  <1>1. VoiceInv => ReadyHasVoice BY DEF VoiceInv, SampleOK, ReadyHasVoice
  <1> QED BY <1>1, VoiceInvariant, PTL
-----------------------------------------------------------------------------
(* The request that asks for a song *)

\* A request as it can be while N songs are there.
AskRecords(n) ==
    [pc : {"new", "find", "begin", "lock", "recheck", "create", "answered", "refused"},
     key : Keys \cup {NoKey}, body : Bodies, got : 0 .. n]

SongRecords(n) == [id : 1 .. n, key : Keys \cup {NoKey}, body : Bodies]

\* Every song is paid for, and has an id and, if it has one, a key of its own.
SongsInv ==
    /\ credits \in Nat /\ IsFiniteSet(songs) /\ Cardinality(songs) \in Nat
    /\ Cardinality(songs) + credits = Credits
    /\ songs \subseteq SongRecords(Cardinality(songs))
    /\ \A s, t \in songs : s.id = t.id => s = t
    /\ \A s, t \in songs : s.key = t.key /\ s.key # NoKey => s = t

\* The song that answers X.
Answers(x) == \E s \in songs : s.id = x.got /\ s.key = x.key /\ s.body = x.body

\* A request R, being X, relies on the lock from its second look on; and what
\* it has not found is not there until it makes it.
AskOK(r, x) ==
    /\ x.pc \in {"recheck", "create"} => lock = {r}
    /\ x.pc = "create" => Named(x.key) = {}
    /\ x.pc = "answered" => Answers(x)

AskInv ==
    /\ SongsInv
    /\ lock \in {{}} \cup {{r} : r \in Askers}
    /\ ask \in [Askers -> AskRecords(Cardinality(songs))]
    /\ \A r \in Askers : AskOK(r, ask[r])

\* Nobody has asked.
LEMMA AskBegins == AskInit => AskInv
  <1> SUFFICES ASSUME AskInit PROVE AskInv OBVIOUS
  <1>1. credits = Credits /\ songs = {} /\ lock = {} /\ ask = [r \in Askers |-> NewAsk]
    BY DEF AskInit
  <1>2. IsFiniteSet({}) /\ Cardinality({}) = 0 BY FS_EmptySet
  <1>3. SongsInv BY <1>1, <1>2, AskAssumption DEF SongsInv
  <1>4. (CHOOSE b \in Bodies : TRUE) \in Bodies BY AskAssumption
  <1>5. NewAsk \in AskRecords(0) /\ NewAsk.pc = "new"
    BY <1>4 DEF NewAsk, AskRecords, NoSong
  <1>6. ask \in [Askers -> AskRecords(Cardinality(songs))] BY <1>1, <1>2, <1>5
  <1>7. \A r \in Askers : AskOK(r, ask[r]) BY <1>1, <1>5 DEF AskOK
  <1> QED BY <1>1, <1>3, <1>6, <1>7 DEF AskInv

\* A request that becomes X while the songs stay as they are and the lock is
\* taken from nobody else.
LEMMA AskMoves ==
    ASSUME AskInv, UNCHANGED <<credits, songs>>, NEW r \in Askers,
           NEW x \in AskRecords(Cardinality(songs)), ask' = [ask EXCEPT ![r] = x],
           lock' = lock \/ lock' = lock \ {r} \/ (lock = {} /\ lock' = {r}),
           x.pc \in {"recheck", "create"} => lock' = {r},
           x.pc = "create" => Named(x.key) = {},
           x.pc = "answered" => Answers(x)
    PROVE  AskInv'
  <1>1. ask \in [Askers -> AskRecords(Cardinality(songs))] BY DEF AskInv
  <1>2. SongsInv' BY DEF AskInv, SongsInv
  <1>3. lock' \in {{}} \cup {{q} : q \in Askers} BY DEF AskInv
  <1>4. ask' \in [Askers -> AskRecords(Cardinality(songs))] BY <1>1
  <1>5. ASSUME NEW q \in Askers PROVE AskOK(q, ask[q])'
    <2>1. CASE q = r
      <3>1. ask'[q] = x BY <1>1, <2>1
      <3>2. (x.pc = "create" => Named(x.key)' = {}) /\ (x.pc = "answered" => Answers(x)')
        BY DEF Named, Answers
      <3> QED BY <2>1, <3>1, <3>2 DEF AskOK, Named, Answers
    <2>2. CASE q # r
      <3>1. ask'[q] = ask[q] BY <1>1, <2>2
      <3>2. AskOK(q, ask[q]) BY DEF AskInv
      <3>3. lock = {q} => lock' = {q} BY <2>2
      <3> QED BY <3>1, <3>2, <3>3 DEF AskOK, Named, Answers
    <2> QED BY <2>1, <2>2
  <1> QED BY <1>2, <1>3, <1>4, <1>5 DEF AskInv

\* What a request is, by type.
LEMMA AskTyped ==
    ASSUME AskInv, NEW r \in Askers
    PROVE  /\ ask[r] \in AskRecords(Cardinality(songs))
           /\ ask[r].key \in Keys \cup {NoKey} /\ ask[r].body \in Bodies
  <1>1. ask[r] \in AskRecords(Cardinality(songs)) BY DEF AskInv
  <1> QED BY <1>1 DEF AskRecords

\* Going on to PC.
LEMMA GoOnMoves ==
    ASSUME AskInv, UNCHANGED <<credits, songs>>, NEW r \in Askers,
           NEW pc \in {"find", "begin", "lock", "recheck", "create", "refused"}, GoOn(r, pc),
           lock' = lock \/ lock' = lock \ {r} \/ (lock = {} /\ lock' = {r}),
           pc \in {"recheck", "create"} => lock' = {r},
           pc = "create" => Named(ask[r].key) = {}
    PROVE  AskInv'
  <1> DEFINE x == [ask[r] EXCEPT !.pc = pc]
  <1>1. ask[r] \in AskRecords(Cardinality(songs)) BY AskTyped
  <1>2. x \in AskRecords(Cardinality(songs)) /\ x.pc = pc /\ x.key = ask[r].key
    BY <1>1 DEF AskRecords
  <1>3. ask \in [Askers -> AskRecords(Cardinality(songs))] BY DEF AskInv
  <1>4. ask' = [ask EXCEPT ![r] = x] BY <1>3 DEF GoOn
  <1> HIDE DEF x
  <1>5. pc # "answered" OBVIOUS
  <1> QED BY <1>2, <1>4, <1>5, AskMoves

\* The answer is a song of the same key and body.
LEMMA AnsweredMoves ==
    ASSUME AskInv, UNCHANGED <<credits, songs>>, NEW r \in Askers, NEW s \in songs,
           s.key = ask[r].key, s.body = ask[r].body, Answered(r, s.id),
           lock' = lock \/ lock' = lock \ {r}
    PROVE  AskInv'
  <1> DEFINE x == [ask[r] EXCEPT !.pc = "answered", !.got = s.id]
  <1>1. ask[r] \in AskRecords(Cardinality(songs)) BY AskTyped
  <1>2. s.id \in 0 .. Cardinality(songs) BY DEF AskInv, SongsInv, SongRecords
  <1>3. /\ x \in AskRecords(Cardinality(songs)) /\ x.pc = "answered" /\ x.key = ask[r].key
        /\ x.body = ask[r].body /\ x.got = s.id
    BY <1>1, <1>2 DEF AskRecords
  <1>4. ask \in [Askers -> AskRecords(Cardinality(songs))] BY DEF AskInv
  <1>5. ask' = [ask EXCEPT ![r] = x] BY <1>1, <1>4 DEF Answered, AskRecords
  <1> HIDE DEF x
  <1>6. Answers(x) BY <1>3 DEF Answers
  <1> QED BY <1>3, <1>5, <1>6, AskMoves

\* A look for the song of the key, before the lock or with it.
LEMMA LookKeeps ==
    ASSUME AskInv, UNCHANGED <<credits, songs>>, NEW r \in Askers,
           NEW pc \in {"begin", "lock", "create"}, FoundOr(r, pc),
           lock' = lock \/ (lock' = lock \ {r} /\ ask'[r].pc # "create"),
           pc = "create" => lock = {r}
    PROVE  AskInv'
  <1>1. CASE Named(ask[r].key) = {} /\ GoOn(r, pc)
    <2>1. pc = "create" => lock' = {r}
      <3>1. ask \in [Askers -> AskRecords(Cardinality(songs))] /\ ask[r] \in AskRecords(Cardinality(songs))
        BY AskTyped DEF AskInv
      <3>2. ask'[r].pc = pc BY <1>1, <3>1 DEF GoOn, AskRecords
      <3> QED BY <3>2
    <2>2. pc # "recheck" OBVIOUS
    <2> QED BY <1>1, <2>1, <2>2, GoOnMoves
  <1>2. CASE GoOn(r, "refused") BY <1>2, GoOnMoves
  <1>3. CASE \E s \in Named(ask[r].key) : s.body = ask[r].body /\ Answered(r, s.id)
    <2>1. PICK s \in Named(ask[r].key) : s.body = ask[r].body /\ Answered(r, s.id) BY <1>3
    <2>2. s \in songs /\ s.key = ask[r].key BY <2>1 DEF Named
    <2> QED BY <2>1, <2>2, AnsweredMoves
  <1> QED BY <1>1, <1>2, <1>3 DEF FoundOr

\* Asking, looking, the lock and the end of a transaction that is given up.
LEMMA AskStepsKeep ==
    ASSUME AskInv, NEW r \in Askers,
           Ask(r) \/ Find(r) \/ Begin(r) \/ TryLock(r) \/ LookAgain(r) \/ RolledBack(r)
    PROVE  AskInv'
  <1>1. UNCHANGED <<credits, songs>> BY DEF Ask, Find, Begin, TryLock, LookAgain, RolledBack
  <1>2. CASE Ask(r)
    <2>1. PICK key \in Keys \cup {NoKey}, body \in Bodies :
              ask' = [ask EXCEPT ![r] = [@ EXCEPT !.pc = "find", !.key = key, !.body = body]]
      BY <1>2 DEF Ask
    <2> DEFINE x == [ask[r] EXCEPT !.pc = "find", !.key = key, !.body = body]
    <2>2. ask[r] \in AskRecords(Cardinality(songs)) BY AskTyped
    <2>3. x \in AskRecords(Cardinality(songs)) /\ x.pc = "find" BY <2>2 DEF AskRecords
    <2>4. ask' = [ask EXCEPT ![r] = x] BY <2>1, Zenon
    <2>5. lock' = lock BY <1>2 DEF Ask
    <2> HIDE DEF x
    <2>6. x.pc \notin {"recheck", "create", "answered"} BY <2>3
    <2> QED BY <1>1, <2>3, <2>4, <2>5, <2>6, AskMoves
  <1>3. CASE Find(r)
    <2>1. lock' = lock /\ (FoundOr(r, "begin") \/ GoOn(r, "refused")) BY <1>3 DEF Find
    <2> QED BY <1>1, <2>1, LookKeeps, GoOnMoves
  <1>4. CASE Begin(r)
    <2>1. lock' = lock /\ FoundOr(r, "lock") BY <1>4 DEF Begin
    <2> QED BY <1>1, <2>1, LookKeeps
  <1>5. CASE TryLock(r)
    <2>1. \/ lock = {} /\ lock' = {r} /\ GoOn(r, "recheck")
          \/ lock' = lock /\ (GoOn(r, "begin") \/ GoOn(r, "refused"))
      BY <1>5 DEF TryLock, Locked, AgainOrBusy
    <2> QED BY <1>1, <2>1, GoOnMoves
  <1>6. CASE LookAgain(r)
    <2>1. /\ ask[r].pc = "recheck" /\ FoundOr(r, "create")
          /\ lock' = lock \/ (lock' = lock \ {r} /\ ask'[r].pc # "create")
      BY <1>6 DEF LookAgain
    <2>2. lock = {r} BY <2>1 DEF AskInv, AskOK
    <2> QED BY <1>1, <2>1, <2>2, LookKeeps
  <1>7. CASE RolledBack(r)
    <2>1. lock' = lock \ {r} /\ (GoOn(r, "begin") \/ GoOn(r, "refused"))
      BY <1>7 DEF RolledBack, AgainOrBusy, Unlock
    <2> QED BY <1>1, <2>1, GoOnMoves
  <1> QED BY <1>2, <1>3, <1>4, <1>5, <1>6, <1>7

\* The song is made under the lock, when there is none of the key.
LEMMA CreateKeeps == ASSUME AskInv, NEW r \in Askers, Create(r) PROVE AskInv'
  <1> DEFINE n == Cardinality(songs)
  <1>1. ask[r].pc = "create" /\ lock' = lock \ {r} BY DEF Create, Unlock
  <1>2. lock = {r} /\ Named(ask[r].key) = {} BY <1>1 DEF AskInv, AskOK
  <1>3. CASE GoOn(r, "refused") /\ UNCHANGED <<credits, songs>>
    BY <1>1, <1>3, GoOnMoves
  <1>4. CASE /\ credits > 0 /\ credits' = credits - 1
             /\ songs' = songs \cup {[id |-> n + 1, key |-> ask[r].key, body |-> ask[r].body]}
             /\ Answered(r, n + 1) \/ AgainOrBusy(r)
    <2> DEFINE new == [id |-> n + 1, key |-> ask[r].key, body |-> ask[r].body]
    <2>1. /\ SongsInv /\ ask \in [Askers -> AskRecords(n)] /\ n \in Nat
          /\ ask[r].key \in Keys \cup {NoKey} /\ ask[r].body \in Bodies
      BY AskTyped DEF AskInv, SongsInv
    <2>2. /\ new \in SongRecords(n + 1) /\ new.id = n + 1 /\ new.key = ask[r].key
          /\ new.body = ask[r].body
      BY <2>1 DEF SongRecords
    <2>3. songs' = songs \cup {new} BY <1>4
    <2>4. \A s \in songs : s.id \in 1 .. n BY <2>1 DEF SongsInv, SongRecords
    <2>5. new \notin songs BY <2>1, <2>2, <2>4
    <2> HIDE DEF new
    <2>6. IsFiniteSet(songs') /\ Cardinality(songs') = n + 1
      BY <2>1, <2>3, <2>5, FS_AddElement DEF SongsInv
    <2>7. SongRecords(n) \subseteq SongRecords(n + 1) BY <2>1 DEF SongRecords
    <2>8. songs' \subseteq SongRecords(n + 1) BY <2>1, <2>2, <2>3, <2>7 DEF SongsInv
    <2>9. \A s, t \in songs' : s.id = t.id => s = t
      BY <2>1, <2>2, <2>3, <2>4 DEF SongsInv
    <2>10. new.key # NoKey => \A s \in songs : s.key # new.key BY <1>2, <2>2 DEF Named
    <2>11. \A s, t \in songs' : s.key = t.key /\ s.key # NoKey => s = t
      BY <2>1, <2>3, <2>10 DEF SongsInv
    <2>12. SongsInv'
      <3>1. /\ credits \in Nat /\ credits > 0 /\ credits' = credits - 1 /\ Credits \in Nat
            /\ n + credits = Credits
        BY <1>4, <2>1, AskAssumption DEF SongsInv
      <3>2. Cardinality(songs') \in Nat /\ Cardinality(songs') = n + 1 BY <2>1, <2>6
      <3> HIDE DEF n
      <3>3. credits' \in Nat /\ Cardinality(songs') + credits' = Credits BY <2>1, <3>1, <3>2
      <3>4. songs' \subseteq SongRecords(Cardinality(songs')) BY <2>8, <3>2
      <3> QED BY <2>6, <2>9, <2>11, <3>2, <3>3, <3>4 DEF SongsInv
    <2>13. lock' = {} BY <1>1, <1>2
    <2>14. AskRecords(n) \subseteq AskRecords(n + 1) BY <2>1 DEF AskRecords
    <2>15. PICK x : /\ x \in AskRecords(n + 1) /\ ask' = [ask EXCEPT ![r] = x]
                    /\ x.pc \notin {"recheck", "create"}
                    /\ x.pc = "answered" => x.got = n + 1 /\ x.key = new.key /\ x.body = new.body
      <3>1. ask[r] \in AskRecords(n) BY <2>1
      <3>2. CASE Answered(r, n + 1)
        <4> DEFINE y == [ask[r] EXCEPT !.pc = "answered", !.got = n + 1]
        <4>1. ask' = [ask EXCEPT ![r] = y] BY <2>1, <3>1, <3>2 DEF Answered, AskRecords
        <4>2. n + 1 \in 0 .. n + 1 /\ 0 .. n \subseteq 0 .. n + 1 BY <2>1
        <4>3. ask[r] \in AskRecords(n + 1) BY <2>14, <3>1
        <4> HIDE DEF n
        <4>4. /\ y \in AskRecords(n + 1) /\ y.pc = "answered" /\ y.got = n + 1
              /\ y.key = ask[r].key /\ y.body = ask[r].body
          BY <4>2, <4>3 DEF AskRecords
        <4> HIDE DEF y
        <4> QED BY <2>2, <4>1, <4>4
      <3>3. CASE AgainOrBusy(r)
        <4>1. PICK pc \in {"begin", "refused"} : GoOn(r, pc) BY <3>3 DEF AgainOrBusy
        <4> DEFINE y == [ask[r] EXCEPT !.pc = pc]
        <4>2. ask' = [ask EXCEPT ![r] = y] BY <2>1, <4>1 DEF GoOn
        <4>3. y \in AskRecords(n + 1) /\ y.pc = pc BY <2>1, <3>1 DEF AskRecords
        <4> HIDE DEF y
        <4> QED BY <4>1, <4>2, <4>3
      <3> QED BY <1>4, <3>2, <3>3
    <2>16. ask' \in [Askers -> AskRecords(n + 1)] BY <2>1, <2>15, <2>14
    <2>17. ASSUME NEW q \in Askers PROVE AskOK(q, ask[q])'
      <3>1. CASE q = r
        <4>1. ask'[q] = x BY <2>1, <2>15, <3>1
        <4>2. x.pc = "answered" => Answers(x)' BY <2>2, <2>3, <2>15 DEF Answers
        <4> QED BY <2>15, <4>1, <4>2 DEF AskOK, Answers
      <3>2. CASE q # r
        <4>1. ask'[q] = ask[q] /\ AskOK(q, ask[q]) BY <2>1, <2>15, <3>2 DEF AskInv
        <4>2. lock # {q} BY <1>2, <3>2
        <4>3. ask[q].pc = "answered" => Answers(ask[q])' BY <2>3, <4>1 DEF AskOK, Answers
        <4> QED BY <4>1, <4>2, <4>3 DEF AskOK, Answers
      <3> QED BY <3>1, <3>2
    <2> QED BY <2>6, <2>12, <2>13, <2>16, <2>17 DEF AskInv
  <1> QED BY <1>3, <1>4 DEF Create

\* The songs, the lock and what every request may rely on.
THEOREM AskInvariant == AskSpec => []AskInv
  <1>1. AskInit => AskInv BY AskBegins
  <1>2. AskInv /\ [AskNext]_askVars => AskInv'
    <2> SUFFICES ASSUME AskInv, [AskNext]_askVars PROVE AskInv' OBVIOUS
    <2>1. CASE AskNext BY <2>1, AskStepsKeep, CreateKeeps DEF AskNext
    <2>2. CASE UNCHANGED askVars
      <3>1. UNCHANGED <<credits, songs, lock, ask>> BY <2>2 DEF askVars
      <3> QED BY <3>1 DEF AskInv, SongsInv, AskOK, Answers, Named
    <2> QED BY <2>1, <2>2
  <1> QED BY <1>1, <1>2, PTL DEF AskSpec

\* The rows, the lock and the requests have their types; in particular no more
\* songs are made than the user can pay for.
THEOREM AskTypes == AskSpec => []AskTypeOK
  <1>1. AskInv => AskTypeOK
    <2> SUFFICES ASSUME AskInv PROVE AskTypeOK OBVIOUS
    <2>1. /\ credits \in Nat /\ Cardinality(songs) \in Nat /\ Credits \in Nat
          /\ Cardinality(songs) + credits = Credits
      BY AskAssumption DEF AskInv, SongsInv
    <2>2. Cardinality(songs) <= Credits BY <2>1
    <2>3. SongRecords(Cardinality(songs)) \subseteq Songs BY <2>1, <2>2 DEF SongRecords, Songs
    <2>4. songs \subseteq Songs BY <2>3 DEF AskInv, SongsInv
    <2>5. AskRecords(Cardinality(songs)) \subseteq AskRecords(Credits)
      BY <2>1, <2>2 DEF AskRecords
    <2>6. ask \in [Askers -> AskRecords(Credits)] BY <2>5 DEF AskInv
    <2>7. credits \in 0 .. Credits BY <2>1
    <2> QED BY <2>4, <2>6, <2>7 DEF AskTypeOK, AskInv, AskRecords
  <1> QED BY <1>1, AskInvariant, PTL

\* A key names one song and pays for one, and a request is answered with the
\* song of its own key and body (findIdempotentMusicGeneration, the advisory
\* lock and runWithCommitTransactionRetry).
THEOREM OneSongOfAKey == AskSpec => []KeyNamesOneSong
  <1>1. AskInv => KeyNamesOneSong
    BY DEF AskInv, SongsInv, AskOK, Answers, KeyNamesOneSong
  <1> QED BY <1>1, AskInvariant, PTL
=============================================================================
