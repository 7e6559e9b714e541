# Formal models of AI Music

AI Music sells credit packs, spends credits on songs that paid vendors make, and
gives credits or money back when something goes wrong. Every step of that is a row
in PostgreSQL, a BullMQ job in Redis or a call of a company that may answer late,
badly, twice or never. This directory keeps TLA+ models of that system, the TLC
configurations that check them and proofs of the properties that matter most.

All paths below are relative to `src/`.

## 1. The system and its parts

| Part | State it keeps | Operations | What is hard | What makes it correct |
|---|---|---|---|---|
| **Credit ledger** `packages/db/src/credits-ledger.ts`, `credit-grant-lots.ts`, `spend-credit-compensation.ts` | ledger rows, one lot per grant, allocations of spends to lots | grant, spend, refund a spend, restore its lots | grants do not take the user lock that spends take; two ways to give one spend back | lots are backed by the balance, no unit is in two places, oldest lot first, no spend compensated twice |
| **Cash refund requests** `packages/db/src/cash-refund-entitlement.ts`, `cash-refund-finalize.ts`, `apps/api/.../billing/refund.service.ts` | `RefundRequest` rows, stamps on allocations | create, approve, reject, finalize | check-then-insert without a lock; entitlement priced long before it is applied | what is monetized fits the purchase |
| **Cash refund workers** `packages/flitt-checkout`, `packages/tbc-checkout`, `refund-recovery.service.ts` | request status, attempt marker, BullMQ job | claim, read the bank, reverse or cancel, settle, park | lost answers, a cancel that is not idempotent, one running total for several refunds | no row says more money went back than did, no second cancel, approved requests finish |
| **Purchase and fulfilment** `apps/api/.../billing` | `CreditPackPurchase`, the bank's order | checkout, bank callback, grant | repeated, late and failing callbacks; unlocked status writes | a paid order is granted, once |
| **Suno songs: API and callbacks** `apps/api/src/modules/music` | `MusicGeneration` status, task id, tracks | create and charge under an idempotency key, enqueue, remix, callback, poll, refund | callbacks before the answer they belong to, late, twice; status races | one song per key, terminal statuses are final, charge/work/refund contract |
| **Suno submit guard and queue** `apps/worker/src/processors/process-provider-job.ts`, `provider-job-reconciler.ts` | `submissionState`, `submitAttemptId`, the job | claim, POST once, persist, release, give up, reconcile | redelivery while a worker runs on, crashes around the POST | at most one paid task, unknown outcomes are left alone, every charge is decided |
| **Mureka songs** `process-mureka-provider-job.ts`, `mureka-provider-job-reconciler.ts` | the same row, poll jobs | submit, poll, complete, fail, refund pass | status writes without conditions, two reconcilers over one table | as above, and failed means refunded |
| **Texts and karaoke** `music/service.ts`, `timed-lyrics.service.ts` | a record per text, cached words per track | request, poll, moderate, refund | overlapping polls and requests, two refund keys | paid is shown or given back |
| **Track persistence** `persist-music-track.ts`, `music-track-persistence-queue.ts` | claim and heartbeat per track, the object | upsert, claim, upload, takeover, save, delete | two uploads of one track | a key has its audio, a track with an address is decided |
| **Music editor** `apps/api/src/modules/music-editor`, `apps/web/src/features/music-editor` | regions, operations, versions, stems; the page's copy and its timeline | edit, undo, redo, render, separate; select, drag, trim | replay backwards on changed regions; a charge beside an asynchronous task; edits inferred from the timeline, sent late | undo inverts, a charged separation is delivered or refunded, the page asks for what was meant |
| **Voices** `voice-profiles`, `voice-samples`, `process-mureka-vocal-clone.ts` | `VoiceProfile`, `VoiceSample`, vocals at Mureka, voices at Suno | create, clone, poll, restart, cancel, delete | writes by id from stale reads, deletion against a clone under way | ready has a voice, a made voice is found, paid or refunded |
| **Account deletion, tickets** `account-deletion`, `provider-data-deletion` | user, tickets, e-mail jobs | ask, Clerk's event, finalize, clean up | no locks between three rows; a worker that dies between claim and e-mail | final only after Mureka confirmed; deletions end |
| **Rate limiters** `packages/ai-providers/.../suno-rate-limiter.ts`, `mureka-rate-limiter.ts` | sorted sets in Redis | acquire, release, expire | clocks of several workers | never above the limit |
| **Inbound mail** `apps/api/src/modules/resend-inbound`, `webhook-event.service.ts`, `packages/shared/.../inbound-forward.ts` | an event row per environment | gates, fetch, forward | repeated and overlapping webhooks in two environments | forwarded, once |
| Plans and free tier, older voice-sample pipeline, the rest of the web client, mappers, storage, deployment | small or none | | | section 5 |

How they interact: the API commits a record and its spend in one transaction and then
adds a job with a deterministic id to Redis (`provider:music_generate:<id>`,
`flitt-refund-<id>`). Workers read the row, not the job, to decide what to do. The
vendor answers the POST, calls the API back, and is polled. Timers look for rows whose
job was lost: the reconcilers of `apps/worker` (records 30 s in the queue) and the refund
sweep of the API. A failure gives the charge back through the ledger; a cash refund ends
in the ledger's finalization. The ledger is where all the parts meet: the other modules
keep of it the rows under their own keys (`spend`, `refund`), which the ledger makes idempotent.

## 2. Modules

| Module | Models | Run |
|---|---|---|
| `CreditLedger` | ledger and cash refund requests of one user | `credit_ledger` |
| `CashRefund` | the refunds of one purchase, with Flitt or TBC | `refund_money`, `settlement` |
| `PurchaseFulfilment` | one purchase of a credit pack | `settlement` |
| `SunoGeneration` | one Suno song: API, job, workers, vendor, callbacks, polls, reconciler | `suno_generation`, `settlement` |
| `GenerationContract` | the abstract promise: charge, work, refund, tracks | refined in `suno_generation` |
| `GenerateRequest` | requests that carry one idempotency key | `settlement` |
| `LyricsText`, `TimedLyrics` | a paid text; the words of a track | `settlement` |
| `MurekaGeneration` | one Mureka song and all sweeps over its row | `mureka` |
| `SunoVoice` | a voice sample on its way to a voice at Suno | `creation` |
| `AccountDeletion` | a voice at Mureka, its clone, and the deletion of its user | `account_deletion` |
| `InboundMail` | a mail to a support address | `account_deletion` |
| `RateLimiter` | both limiters of the providers | `media` |
| `TrackPersistence` | a track from the vendor's address to storage | `media` |
| `StemSeparation` | the editor's stems | `media` |
| `Arrangement` | the regions of a song, and what each operation makes of them | in the next two |
| `SongEditor` | the operations of a song, their undo and redo, its versions | `media` |
| `EditorTimeline` | the editor's page, and the operations it asks for | `creation` |
| `FiniteSums` | sums over finite sets, and their lemmas | proved |
| `CreditLedgerProofs`, `SunoGenerationProofs`, `MurekaGenerationProofs` | theorems about the module they are named for | proved |
| `SettlementProofs` | about `PurchaseFulfilment` and `CashRefund` | proved |
| `CreationProofs` | about `SunoVoice` and `GenerateRequest` | proved |
| `AccountDeletionProofs` | about `AccountDeletion` and `InboundMail` | proved |
| `MediaProofs` | about `RateLimiter`, `TrackPersistence`, `SongEditor` and `EditorTimeline` | proved |
| `MC*` | values of the constants, and compositions | |

Components that share state are one module (`SunoGeneration` holds API, queue,
worker and vendor; `AccountDeletion` holds voice, user, tickets and mail). Components that do
not are checked side by side in one run: `MCSettlement`, `MCMedia`, `MCCreation` and
`MCAccountDeletion` put several modules together and choose in `Init` which one runs
(`part`, never changed afterwards), so that the states add up instead of multiplying; their properties
say of which part they speak. Such a run extends the modules whose invariants are also proved, so that
it checks the very definition the theorem is about, and instantiates the others; that is why
`PurchaseFulfilment`, `GenerateRequest`, `InboundMail`, `RateLimiter`, `SongEditor` and `EditorTimeline` prefix their `Init` and `Next`.

In all modules a step is one database statement or transaction, one vendor call or one queue call.
`pc` names the next statement of a handler, and its other fields hold what it read before.

### CreditLedger

A user's operations are serialized by `pg_advisory_xact_lock` on the user id, and users
share nothing, so one user is modelled, and a transaction under the lock is one action.
The exception is deliberate. `grantCredits` takes no lock, and `spendCredits` sums the
ledger first and reads the lots afterwards: `SpendBegin` and `SpendCommit` are two steps
and a `Grant` may commit between them (`txn` carries the balance that was read).
`Lots` are ledger rows of grants; a lot in `Paid` stands for a credit pack purchase.
`FifoDraws` is `planFifoLotConsumption` step by step: the sort (`Sorted`, every order the comparator allows), the
loop that takes from each lot what it holds or what is left to draw (`LeftToDraw`), the draws it returns (`DrawsOf`), and
nothing where the lots hold too little. That no younger lot is touched before the older ones are empty (`OldestLotFirst`) is what must
follow, in TLC and in the proof; its mutant turns the comparator round. `LegacyUnits` is balance from before lots existed ("unlotted").

Refund requests go through create (a check and an insert as two steps), approval, the
worker's statuses, and the finalization of either scope: stamps on the allocations of an
operation, or a clawback of what is left of a purchase. `attempt` on a request is the
marker that the bank may have been asked; `Park` may lose it, as the code does. Money is
left out: the units decide what the amounts are computed from.

### CashRefund

One purchase, whose bank and faults are chosen in `Init` (`env`) and never change, so that
one run covers several environments without their product. The two processors share their
structure, and where they differ (`Applied`, `Decide`, `Recheck`, `Statuses`) the difference
is a condition on the bank. `asked[r]` counts refunds the bank accepted for a request,
`shown[r]` those its status already reports. `note` abstracts `providerError` to what
`hasRefundProviderAttemptMarker` can tell: a marker ("attempt"), another text, nothing.
Repeating a `reverse_id` at Flitt is answered as before; TBC has no such key. What
the settlement does to credits is in `CreditLedger`; here it succeeds or finds
the units spent.

### PurchaseFulfilment

Checkouts that the client repeats (a slot is an API process, since requests of one process share one
promise), Flitt's order, and its callbacks: read the purchase, verify with the bank, write
the status, grant. Only the grant locks the row (`FOR UPDATE` and the ledger's key); the other status writes go by
id. `right` is whether the order has the amount and currency of the purchase. A refund
overwrites the status too. TBC orders of before exist as an initial state, because new
checkouts are Flitt's.

### SunoGeneration and GenerationContract

One generation; generations share only the ledger, whose rows are keyed by generation.
`rec` is the row, `spend` and `refund` the two ledger rows by key, `job` the BullMQ job,
`exec[e]` an execution with what it read or claimed,
`hand[h]` a callback or status handler, `vendor[a]` what became of the POST of attempt `a`.
An execution that lost its lock runs on while another one starts; `Ended` ignores it.

Attempts stand for the UUIDs of `submitAttemptId`, and a task id is named by the attempt
whose POST started it. The POST of `Post` may have started a task unless the answer is a
refusal (`terminal`, `capacity`). `Persistable` is the where clause of
`persistProviderTaskId`. `Callback` binds early callbacks as
`resolveRecordForCallback` does; `Apply`, `UpsertTracks` and `RefundFailed` are the three
statements that follow. `Reconcile` is `reconcileRecord`; its 30 s are modelled as
`~MidRequest`: a request that is still creating its record is younger than that. `RefundOrSwallow`
is `.catch(() => undefined)`.

A behaviour runs in one environment (`env`, a set of faults chosen in `Init`). `Undisturbed` are those
in which executions do not overlap (no `lock_loss`) and the queue does not lose the reply to an
enqueue it has taken (no `lost_reply`).

`SubmitUnknownOnlyBinds` says of a submit of unknown outcome, in every environment, that its row is neither taken back nor marked failed by its
submit status. That it also keeps its generation status, gets no refund and nothing more is posted is claimed of
`Undisturbed` behaviours, because the code does otherwise in the rest: see "Met while modelling".

`GenerationContract` forgets everything but the money, the vendor's work and whether
tracks are shown: work starts at most once and only while the charge stands; a refund
needs that no task runs or is complete. `KeepsContract` is the refinement, with
`Work` reading the one accepted POST. It is claimed of undisturbed behaviours; a disturbed one is mapped to the contract's
initial state for good, so that nothing is claimed of it.

Left out: the legacy unsigned callback, album covers; the
branch of `reconcileRecord` for a record without `providerRequestJson` and the
`SyntaxError` branch of the job, since every creator of a record stores the request it
has itself serialized; the moderation and storage calls inside preflight (they succeed or
fail as one).

### GenerateRequest, LyricsText, TimedLyrics

`GenerateRequest` is the way to that one record: requests look for the song of
their `Idempotency-Key`, try the user's advisory lock (`pg_try_advisory_xact_lock`), look again inside it,
and create song and spend together, or give up the transaction and begin anew. The unique
index on `(userId, clientRequestId)` is left out on purpose, so that
`KeyNamesOneSong` shows that lock and second look suffice. A commit may take place although its answer is lost.

`LyricsText` is a text from Suno: spend, submit, record, and polls that ask, moderate and
overwrite the record by id. `TimedLyrics` is the karaoke of one track: one spend key
for all requests, `:refund` for a failure, `:refund:duplicate` where another request was faster.

### MurekaGeneration

The same `MusicGeneration` row with other writers: the job posts under the same kind
of guard, then a chain of delayed poll jobs asks Mureka, writes tracks and
completes or fails the record without a condition. `late` is ten minutes gone by.
Three sweeps read the table: `ReconcileQueued`/`ReconcileSubmitted`, the refund pass
(`FindFailed`, `RefundFound`, which lists rows before it refunds), and Suno's reconciler (`SunoReconcile`), which does
not ask for the provider. A behaviour has one of four environments: `backlog` (a row
waits 30 s although its job is still to run), crashes with failing statements, redelivered jobs with failing
statements, and `full_batch` with failing statements. The last is there because the refund pass reads one batch of failed rows in no order, those already
refunded among them, so that with more failed rows than a batch holds it may never come to this one: it then has no fairness, and
`FailedIsRefunded` leaves out the charges that only the pass could give back (`LeftBehind`). `RefundedOrDelivered` is claimed only where neither jobs overlap nor rows wait: under
the others the unconditional writes do complete what was refunded.

### SunoVoice

No worker: a validation phrase is asked for, the user reads it, the provider makes a
voice, and every request (poll, restart, cancel, submit, check of the persona) reads the
sample, asks the provider and writes by id what it concluded. `docs/suno-voice-persona-source-of-truth.md`
calls the flow legacy, but its routes are live. `age` is what the time limits of the code
distinguish. Nobody but the page looks at a sample, and its polls end: after 120 of them (6 minutes, while a clone may take ten), at the
first error, and at a failed sample. So polls are owed nothing in `Fairness`, and `CloneEnds` and `VoiceIsFound` are claimed of a
sample that is looked at again and again (`LookedAt`: the user opens the page where its polls have ended).

### AccountDeletion

One user with one voice at Mureka. The profile and its clone job; the deletion asked for by the user (`AskDeletion`) or
by Clerk (`DeletedAtClerk`, whose event is repeated), each a handler in `eraser` that
lists, deletes, un-queues, purges, refunds and counts; the ticket of every vocal with its claim, e-mail and retries; the
operators' two marks; finalization with the clean-up of the identity; and a sign-in that writes the address back. `world` chooses
one circumstance per behaviour: a clone begun after the deletion, both deletions at once, operators that do not wait, a mishap (a
process that dies, a call that fails), a sign-in, or failing calls while the refund pass may not come to this profile (`full_batch`: like
Mureka's songs, it reads one unordered batch of failed profiles, refunded ones included). `ChargedVoiceIsSettled` excuses a charge in that last world once
something failed, since only the pass would pay it back.

### TrackPersistence, StemSeparation, Arrangement, SongEditor, RateLimiter

`TrackPersistence` follows one track: upserts by callbacks and polls, the job, the claim
(the only conditional write) with its heartbeat, the takeover of a stale claim, upload,
save, failure, the reconciler, and the user's deletion. `StemSeparation` is the claim of a
song by a click, the charge, the provider's task and the polls that fetch it or put the song back. Any call or statement of a request may fail, and the API may die
at any of them (`Breaks`); the refund's error is swallowed (`Refund`), and the original audio that is to replace stems may be missing
(`NoOriginal`). Nothing retries what such a fault leaves: `forsaken` marks a charge that was left behind and `NothingToPlay` the missing original. `ChargedIsSettled` says that
there is no other way to lose a charge, for a song that is looked at (`LookedAt`); leaving out any one of the excuses makes TLC find the loss.
`Arrangement` has the regions as a function from ids to start, end and index. Its
operators (`Reindexings`, `Moved`, `Splits`, `RangeDeletions`, `Applications`) are the mutation functions of
`operation.service.ts`; they return sets where the database breaks ties. A sort of regions is written as a count of the regions
before each one. In `SongEditor` the operations of a version are a set: an operation is found by its id, the last one by its times. `RateLimiter` has
both Lua scripts over a sorted set; a client reads its clock, which may be off by `Skew`, and its script runs up to `Late` later.

### EditorTimeline

The page keeps a copy of the song and draws a clip per region and track from it (`Drawn`), with the
edits of one track laid over the regions. Selections and the playhead are places in a clip;
`SplitAt` and `SourceRange` turn them into places in the audio. A drag or trim comes as a whole timeline, from which
`Resolved` infers the operation; it waits for a timer (`pending`), which any later drag overwrites and a changed
layout clears. Bounds closer than `Epsilon` are taken for the noise of converting samples (`Apart`; 20 ms in the code), so a trim that is `Slight`
is drawn and not saved. While the tracks are built again, 400 ms after the page opened or the layout changed, the page does not listen (`syncing`, ended by
`Settle`) and a drag is drawn and not saved either; `DragsKept` is claimed of a page that listens, and says of a slight trim that it asks for nothing. A selection draws the
timeline again (`Select`), and with it what was dragged but not saved. The server is `Arrangement`, with the edits of one track kept beside it (`mix`). `Slots` are the requests of the page under way: the
timer can send beside the toolbar, an answer replaces the copy, a request may fail before or after it was served.
Places are whole numbers, an edge and the shortest region (100 ms both) are 2, the tolerance is 1.

### InboundMail

Resend announces a mail to every environment that shares the account; the
environment it is addressed to fetches and forwards it. `mail` is what the webhook shows of it: if it shows recipients, it
shows all of them. Where both addresses are recipients, one environment forwards, because the idempotency key of the
forward is shared. Each environment's event row is read and created but not claimed.

## 3. Runs

| Run | Question | Result |
|---|---|---|
| `credit_ledger` | do grants, spends, credit refunds and both cash refunds keep every unit in one place? | holds (1.15 M states) |
| `refund_money` | six environments: is Flitt money covered, is TBC asked to cancel once? | holds (2.65 M) |
| `suno_generation` | five environments: one task, unknown submits not taken back? where executions do not overlap: unknown submits left alone, terminal statuses final, contract kept? | holds (1.84 M) |
| `mureka` | four environments: one submit, decided, refunded when failed (unless only a refund pass that does not come to it could), not refunded and delivered? | holds (0.2 M) |
| `account_deletion` | is a usable voice paid and unreported, an account final only when Mureka confirmed, and does each of clone, ticket and deletion end? is a mail forwarded, once? | holds (0.2 M) |
| `creation` | is a ready voice real, does a clone that is looked at end? does the editor's page keep regions that can be used, ask for nothing that is refused and keep what is dragged? | holds (0.24 M) |
| `settlement` | is a paid order granted once, an approved refund finished, a charged song decided and settled? is an idempotency key one song? is a paid text or karaoke shown or given back? | holds (0.17 M) |
| `media` | limits, tracks with keys, undo; do regions keep a length? are charged stems delivered or refunded, save for five named faults? | holds (0.28 M) |
| `suno_refund_lost` | `docs/music-generation-queue-load-control.md:130`: failed means refunded | **violated** |
| `refund_without_cancel` | `process-tbc-refund.ts:249`: refunded only after a cancel | **violated** |
| `mureka_called_unpaid` | `provider-job-reconciler.ts:130`: failed as unpaid means never paid | **violated** |
| `karaoke_refunded_twice` | `docs/security-design.md:20`: refunds are idempotent | **violated** |

What the violations show:

- **`suno_refund_lost`.** `transitionFailed` writes `failed`, the refund is a later
  statement. A worker that dies in between leaves a charged failed record; the
  redelivered job, the reconciler and the poll all return on `failed`.
- **`refund_without_cancel`.** TBC's `PartialReturned` says nothing of which refund it
  belongs to; the second partial refund is marked refunded at its first status read.
- **`mureka_called_unpaid`.** The sweep of Suno's jobs has no filter on the provider and looks for the
  spend under Suno's key. A paid Mureka song that waits 30 s is failed as never paid.
- **`karaoke_refunded_twice`.** One request fails and refunds under `:refund`, a second saves
  the words, a third that began before finds them and refunds under `:refund:duplicate`:
  one credit spent, two returned.

Met while modelling and part of the models, but not stated as a property of a run:

- Parking a refund replaces `providerError`, which may have held the only attempt marker
  (`CreditLedger.Park`; `NoDoubleCompensation` counts a parked request only while its marker is kept).
- `markMusicGenerateFailed` has no `submitAttemptId` in its where clause: an execution that lost its lock in
  preflight can fail the claim of its successor. That is why the contract is stated without overlap.
- The same execution refunds whatever the row says (`process-provider-job.ts:493`): if it was on its last attempt, a submit of unknown outcome is
  refunded while its task may run. And where the queue took a job but lost the reply, the remix handler
  marks the generation failed and refunds it (`remix.service.ts:257`) while the job runs, and it may be waiting for an unknown submit by then. Both need an environment
  outside `Undisturbed`; `docs/music-generation-queue-load-control.md:141` promises no refund.
- The refund passes for Mureka's songs and voices (`mureka-provider-job-reconciler.ts:202`, `:224`) read one batch of failed rows without an order and
  without leaving out those refunded before: past one batch a charge may never be looked at.
- The page stops polling a cloning sample after 6 minutes or at the first error (`suno-voice-verify-flow.tsx:31`, `:287`, `use-polling-query.ts:37`), before the
  clone's ten minutes are over; it then stays so until somebody opens it.
- A charge for stems is lost where the refund fails (`song-editor.service.ts:402`), where the task's id cannot be stored (`:289`), where the originals
  are stored and the last update fails, which leaves the song to be found ready (`stem-separation.ts:61`, `song-editor.service.ts:298`), or where there is no original to
  store (`stem-separation.ts:21`).
- A drag that repeats the last one sent is ignored (`waveform-timeline.tsx:583`), as is one within 400 ms of a layout change; a trim of 20 ms or less is not saved.
- A job whose attempts are used up keeps its id; the reconciler's enqueue is refused
  (`already_finished`) and a charged record stays pending while the job is retained.
- Five failing attempts leave a refund in `processing`, which the sweep does not read.
- A worker that dies between the claim of a ticket and its e-mail leaves it in `submitting` until an
  operator marks it; `FinalIsConfirmed` shows that the account is not final before.
- An undo reads its operation (`operation.service.ts:666`) before its transaction. A range that trimmed the start of a region is to
  be undone, a resize of the region to the part before it commits in between, and the undo writes the start it noted, where the
  region now ends. `RegionsProper` is claimed, and proved, for one request at a time; with `Slots` of two, `RegionsHaveLength` fails in
  five states (`Cuts = {0, 2, 8}`, `Edge = 1`, `MinRange = 2`, two operations, one undo).
- Two clicks on stem separation around a poll that puts the song back start two tasks for one charge.
- A faded clip has audio of its own from 0 (`waveform-playlist-utils.ts:263`), but `resolveTimelineOperation` compares its
  offset with the region's start: after a fade of the vocal, a drag of the instrumental is sent as a trim of the
  vocal, while `apps/web/messages/en.json:764` says "Independent mode: drag and trim apply only to the track you edit."
- In linked mode `mirrorRegionClipEdits` takes the geometry of the last track for both, so a drag of the vocal is lost
  (line 763: "Linked mode: drag and trim apply to Vocal and Instrumental together.").
- A drag taken back within 450 ms is still sent, since no operation does not clear the pending one; the same trim after a
  failed request or an undo is not sent again, since its key is remembered.
- The layout for the playhead takes the edits of both tracks for one, so after an edit of one track a split is not at the playhead.
- The server's split asks for no shortest part, only the page does: `RegionsUsable` promises the length while requests do not
  overlap, and otherwise only that every region can be heard.

### Bounds and why they are enough

- *Ledger*: three lots (two paid, one free), two operations of one or two units, two requests, one
  unlotted unit: a spend over three lots, a remainder and an operation
  refund of the same purchase at a time, and a credit refund that races with either.
- *Suno*: three claims, `MaxAttempts` 2 (3 in the code: what differs is first, last,
  exhausted), `MaxStalls` 1, `MaxLosses` 2, two executions, two handlers (a late
  callback meets a poll). The undisturbed environment has crashes of worker and API, failing statements, swallowed refunds and evicted
  jobs together; four others combine lost locks and lost replies with what can meet them. The theorems hold for any number and any environment.
- *Refunds*: two requests of a purchase of price 2 (each half, or one all of it), two
  executions, `MaxTries` 2 (5 in the code), one lost lock or crash per job. The six environments
  combine the faults that can meet in one history.
- *Mureka*: six attempts (as many claims as the losses and retries allow), two executions, two poll jobs (two chains of one record), `MaxLosses` 2, four environments.
- *Account*: two vocals and two tickets (a repeated clone), two attempts of each job, one mishap, six worlds. *Mail*:
  two environments, two requests at a time, three deliveries each, one fault, nine mails.
- *Settlement*: two checkouts, two callbacks at a time, one failure; one refund request with either bank and one crash; one
  song with one crash; karaoke with two requests at a time and three in all, which the finding needs; text with
  two polls; three requests with one key or none, two bodies, credits for two songs.
- *Media*: limiter with 2 clients, limit 2, span 3, skew 1, lateness 1, three grants (one more than the limit); track with 2 workers, two
  attempts, two callbacks and two failures (a takeover and then a failure); stems with two clicks, a retry and two failures; editor with
  two regions of length 2 and 1, so that every edge case of a range deletion exists, two operations and two undos or redos.
- *Creation*: voice with two tasks, two requests of which one is the page's, two user actions, one
  failure; the editor's page with two regions, one that can be split and one too short, two requests and operations, one drag and one
  failing request, a tolerance of 1 where the shortest clip is 2, a mode that is chosen before anything is dragged or lost (`ModeFirst`); what the
  properties ask of selections and drags, they ask at every place.
- All `CHECK_DEADLOCK FALSE`: the modelled request ends and nothing is left to do.
- Symmetry is used only in `credit_ledger`, `suno_generation` and `refund_money`, which check safety. `creation` and `settlement` check liveness: there the tasks
  of the voice, the requests with a key and their bodies, which nothing tells apart, are used in a fixed order instead (`InOrder`).

### Assumptions about the outside

- A vendor never reports one task both complete and failed, and starts no task for a
  request it refused with a 4xx or a capacity answer.
- Flitt honours `reverse_id`. TBC reports a cancel it took as
  `CancelPaymentProcessing` or later, unless `status_lag` is chosen. That fault is not combined with the
  faults that lose the marker after the call (`worker_crash`, `db_error`): `CancelledOnce` does
  not hold there, because the marker is written only after the cancel was sent.
  It does not claim anything under `lock_loss` either, where two executions may both pass the
  status read before either cancels.
- A BullMQ job that stalls does not use up an attempt; beyond `maxStalledCount` it fails.
- Resend keeps the idempotency key of a forward, and lists all recipients where it lists any.
- Storage reads what was written.

### Fairness

Weak, unless said otherwise; crashes, failures, users and operators have none.

- Handlers and workers that began go on: their processes are restarted and a statement ends or throws.
- Timers: the reconcilers of songs and tracks, the refund sweep, the refund pass (nothing is owed where other failed rows can fill its batch),
  the sweep of stuck clones; and the time limits themselves (`TimeOut`, `Ages`, `FiveMinutes`, `HeartbeatAges`).
- Vendors and banks finish what they accepted, except Mureka, whose tasks are given up after ten minutes, and Suno's voices.
- Clerk and Resend repeat a webhook until it was answered with success.
- The page of a text polls until it is there. The pages of a voice and of stems owe nothing, since their polls end; that they are opened again is a condition of
  the properties (`LookedAt`). Suno's status poll has strong fairness, since its
  handler slots are shared with callbacks, which can disable it again and again.
- Suno's callbacks have none: they may all be lost. The API's enqueue after a commit has none either: the process may die, or the
  client may never repeat its request. A reconciler must do it.

## 4. Proofs

The theorems hold for all values of the constants that satisfy the named assumptions of their module
(`LotsAssumption`, `PurchaseAssumption`, `AskAssumption` ...), which TLC evaluates in every run that extends the
module. They say little: bounds are natural numbers, a null is no member of its set, the sets whose members are
counted or whose amounts are added are finite, prices and grants are positive, an environment's faults are faults. Two fill a set that an initial
state chooses from: there is a request body (`AskAssumption`) and an environment that gets mail (`PostAssumption`). `ArrangementAssumption`
says what `buildDefaultRegions` and the constants of the editor give: the default regions lie end to end from 0 to the song's length, none is shorter
than a part may be (100 ms; the shortest is a tenth of a song of whole seconds), and the padding at an edge is no less than that
shortest part minus one (both are 100 ms). `TimelineAssumption`: the page's tolerance is less than the shortest clip (20 ms and 100 ms).

The shape is the same everywhere: types first (`TypeCorrect`, `PurchaseTypes`, `LimiterTypes`, `TrackTypes`, `AskTypes`), then an inductive invariant with
one lemma per action or kind of action, then the property. Every proof covers all faults of its module,
overlapping executions included, except where the property names the circumstances under which it is claimed.

| Module | Inductive invariant, and why it is needed | Properties |
|---|---|---|
| `CreditLedgerProofs` | `LedgerInv`: an approval looks at allocations and not at refund rows, so it adds that a credited operation was spent and has all its allocations restored, that a spend under way has no row yet, and which requests name an operation. `LotsInv`: what single lots and allocations hold before a grant, after a clawback. `BackedInv`: the lots stay within the balance because the balance that a spend under way has read can only have grown since (`TxnBacked`): grants commit beside it, other spends do not. `OldestLotFirst` follows from the loop (`LoopTurns`, `LoopShrinks`, `DrawBounds`): what is left to draw only falls, a turn leaves some only where it emptied its lot, and older lots come first in the sort | `NoDoubleCompensation`, `LotsBackedByBalance`, `LotConservation`, `MonetizedWithinGrant`, `OldestLotFirst` |
| `SettlementProofs` | `PurchaseInv`: what a callback verified stays true of the order; credited and granted go together | `GrantedOnce` |
| | `RefundInv`, `FlittInv`: Flitt reports one running total for all refunds, so no request can be matched with a payment. `Covered` says, for every sum `x` that the bank has not yet passed, that the requests settled, or to be settled on seeing `x`, are worth no more than `x` | `MoneyCovered` |
| | `TbcInv`: while one execution has the job, the row or the execution that will still write to it carries a mark from the moment the bank took the cancel (`Noted`), and nobody sends a marked one (`Once`). It holds under the conditions that the property names, `OneExecution` and `MarkerKept` | `CancelledOnce` |
| `SunoGenerationProofs` | `GuardInv`: a started task belongs to the attempt on the row and the row is not back in the queue; an execution that may post holds an attempt the vendor has not seen; no two hold the same. A claim needs `queued`, so once a task was started nobody claims again | `AtMostOneTask` |
| | `AloneInv`, for `Undisturbed` behaviours: before the POST the execution is the only one that can move the row (`Owned`, `UnsentAlone`), after it the row can only be bound, and who still has a failure to report has it from the vendor (`NewsAlone`). With `ClaimInv` (a claimed row is pending, and nothing is claimed while the request is under way) it gives the half of `SubmitUnknownOnlyBinds` about status, refund and POST; the other half needs no invariant but the types | `FinalStatuses`, `SubmitUnknownOnlyBinds`, `KeepsContract` |
| `MurekaGenerationProofs` | `AcceptedOnRow`, `HeldUnsent`, `HeldOnce`: the guard again, over other writers, poll chains and three sweeps | `AtMostOneTask` |
| | `CalmInv`, where neither jobs overlap nor rows wait: an execution has the song to itself, then one poll chain has it, and only a failed song is given back, which stays failed although completion is written without a condition | `RefundedOrDelivered` |
| `CreationProofs` | `VoiceInv`: a stale request carries an outcome that was true of its own task | `ReadyHasVoice` |
| | `AskInv`: a request may believe what it has looked up only while it holds the user's lock, and the second look is inside it | `KeyNamesOneSong` |
| `MediaProofs` | `LimiterInv`: what still counts by true time still counts for every script, however its clock is off; so the set holds all fresh grants and is never larger than the limit | `WithinLimit` |
| | `KeyInv`: a worker about to save has uploaded, and only a deletion that began takes the object away | `KeyHasObject` |
| | `EditorInv`: an arrangement is compact (`Compact`: indexes are 0, 1, 2, ...) and its ids are below the next one, so that regions, bounds and order determine it; what a version stores can be undone into any arrangement | `UndoInverts` |
| | `DraftInv`: the history of each region. An undo writes bounds that were noted many edits before, so it says of every two operations that follow each other on a region that the later noted what the earlier leaves, undone or not (`Chained`), and that the region is as the last one left it and as the first undone one found it (`Present`) | `RegionsProper` |
| | `PageInv`: the song is well formed, and so is every copy of it that the page has or that an answer brings (`ServerInv`, `TimelineInv`, `RequestsInv`); what waits for the timer fits an arrangement, perhaps an older one. `AloneInv`: while requests do not overlap and none was lost, the page's copy is the song unless an answer is under way, which is; so what the page checked of a split is still true when it is served | `PageMatchesSong` and in it `RegionsUsable` |
| `AccountDeletionProofs` | `AccountInv`: what a handler saw of the profile bounds what it may do to the vocal and the charge | `ReadyIsKept` |
| | `FinalInv`: once a deletion has begun the vocal does not change any more, and every way to finalization leads past its ticket. It holds for a voice that was not being made when the deletion began, as the property says | `FinalIsConfirmed` |
| | `PostInv`: who is about to forward has looked at all recipients and may; the key they share admits one | `ForwardedOnce` |

`KeepsContract` is a refinement: `ImplementsContract` shows that `Init` implies the contract's `Init` and that every
step is one of the contract or leaves it alone. `StepsAlone` is its core, a list of what a step can do to charge, refund,
task and tracks, from which `ContractStep` picks the contract's action.

`UndoInverts` compares whole arrangements. `Reindexed` and `MovedCompact` say what a reindexing and a move make of the order of the
regions, `ReindexingRestores` and `MovedBack` that the same regions in the same order give the compact arrangement
back; `AppliedAndUndone` collects the seven operations. A range inside a region splits twice and deletes (`RangeInside`), and its undo finds the
tail by the id that was noted.

`RegionsProper` is about bounds only. `AppliedSpans` and `ReversedSpans` say what an operation and an undo do to the bounds of
every region; `StoryApplied`, `StoryUndone` and `StoryRedone` that they keep the history. What is undone was done after the rest and
undone the other way round (`Ordered`), so the undo of the last operation and the redo of the first undone one meet the region they expect,
also where a region was deleted and is not there. That a request still has the last operation when it commits (`Due`) is
where one request at a time is needed, and a rendered song is left out because copies of a version carry no notes.

`PageMatchesSong` has two halves. That the server accepts what the toolbar asks for (`AskAccepted`) is arithmetic about rounding: `RangeOfSource` and `SplitAsked` show
that a place in a clip, turned into a place of the audio, keeps the distances the server asks for. A drag (`DragsKept`) is followed in three steps. `GestureForms`: a drag
carries one clip to another place or gives one clip other bounds. A slight trim is taken for nothing (`SlightTrimmed`, `SlightResolved`). Any other trim has an end apart from the old one (`TrimSeen`), and so:
`TrimResolved`, `MoveResolved`: from the
clips of both tracks alone, `Resolved` finds the clip that was trimmed, or a region and a place that
give the same order; `MovedRegion` takes the first region that does, and of two neighbours that change places it is the other one, so the proof
is about the orders and not about the region. `TrimKept`, `MoveKept`: what the server does with the operation found, on one track (`TrackOutcome`) or on the arrangement
(`BothOutcome`, `ResizedBase`, `MovedBase`), draws the dragged clips again. The fold over the remembered edits is a
recursive function; `TableOfEdits` shows that it exists, `EditedNone` and `EditedMore` state its equation, and `UpTo` is the induction over the set of its arguments that both need.

`FiniteSums` carries the ledger and the refunds. `SumFunctionOnSet` is defined by a recursive
function over subsets, of which the module shows that it exists and obeys its equation; then how a sum changes with
a term or with the set. `SubsetInduction` states induction over a set of subsets instead of a
predicate, so that no operator has to be instantiated. Its last part, on ranks in a finite order, carries the editor.

Only model-checked:

- everything temporal under fairness;
- of `TypesOK` of `media` the types of the stems: its other parts are proved one by one (`LimiterTypes`, `TrackTypes`, `EditorTypes`, `RegionsHeard`),
  of each component's own specification and for all its constants, since `MCMedia` only puts them side by side;
- the properties of `LyricsText`, `TimedLyrics` and `StemSeparation`, which are temporal.

## 5. What is not modelled

- **The rest of the web client.** Screens, forms, players, and of the editor's page undo, redo, volume, mute, presets and playback; what the server sees of it, repeated requests
  and polls, is in the models. A repeated click makes a new idempotency key, so a lost
  answer can be paid twice by the user's own second request; that is the client's choice of key, not a step of the server.
- **Older voice-sample pipeline.** Its job ids (`generation:<id>`) are a form that BullMQ 5 refuses, so
  nothing can be queued, and its steps are placeholders.
- **Album covers and WAV export.** They cost nothing; their selection races are last-write-wins.
- **Plans and free tier.** Reads and limit checks over constants; what they grant is a `Grant` of `CreditLedger`.
- **Pure I/O and data mapping**: vendor payloads, moderation verdicts, exchange rates, e-mail texts, storage drivers, ffmpeg,
  configuration, metrics, route schemas, worker start-up. They keep no state the properties depend on, and appear as
  outcomes of the calls that use them.
- **Reservations of legacy lots**: `credit-grant-lots.ts` keeps the fields but calls them inert; spends do not read them.
- **In-memory fallback of the limiters**, one process without Redis in development.

What would come next: overlapping clicks in `StemSeparation`, where one charge can start two tasks, and undo and redo on the page.
