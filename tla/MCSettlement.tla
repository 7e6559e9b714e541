------------------------------ MODULE MCSettlement ------------------------------
(***************************************************************************)
(* What a customer pays for comes about, and is paid once: the credits of  *)
(* a purchase, the refund of one, the request for a song, the song, its    *)
(* karaoke, and a written text.  The six do not share state; they are      *)
(* checked side by side, one of them in each behaviour.                    *)
(***************************************************************************)
EXTENDS PurchaseFulfilment, CashRefund, GenerateRequest

CONSTANTS
    c1, c2, h1, h2, r1, e1, e2,
    a1, a2, a3, h3, NoAttempt,
    q1, q2, p1, p2,
    s1, s2, s3, k1, b1, b2

VARIABLES
    part, \* the component that runs; never changes
    world, api, rec, spend, given, tracks, sjob, sexec, hand, vendor,
    cache, lyricsPaid, refunds, reader, asks, lyricsLosses,
    maker, textPaid, textRefund, task, textRec, text, poll, textLosses

songVars == <<world, api, rec, spend, given, tracks, sjob, sexec, hand, vendor>>
lyricsVars == <<cache, lyricsPaid, refunds, reader, asks, lyricsLosses>>
textVars == <<maker, textPaid, textRefund, task, textRec, text, poll, textLosses>>
allVars == <<part, purchaseVars, vars, askVars, songVars, lyricsVars, textVars>>

\* Both banks, one worker crash.
Behind(b) == [bank |-> b, faults |-> {"worker_crash"}]
MCEnvironments == {Behind("flitt"), Behind("tbc")}

\* One song, one worker crash.
Song == INSTANCE SunoGeneration WITH
    Attempts <- {a1, a2, a3}, Execs <- {e1}, Handlers <- {h3},
    MaxAttempts <- 2, MaxStalls <- 1, MaxLosses <- 1, Environments <- {{"worker_crash"}},
    env <- world, refund <- given, job <- sjob, exec <- sexec

\* Two requests for one track at a time, three in all, one fault.
Karaoke == INSTANCE TimedLyrics WITH
    Requests <- {q1, q2}, MaxCalls <- 3, MaxLosses <- 1,
    Faults <- {"api_crash", "refund_error"},
    spend <- lyricsPaid, request <- reader, calls <- asks, losses <- lyricsLosses

\* Two polls at a time, one fault.
Text == INSTANCE LyricsText WITH
    Polls <- {p1, p2}, MaxLosses <- 1, Faults <- {"api_crash", "db_error", "refund_error"},
    spend <- textPaid, refund <- textRefund, rec <- textRec, shown <- text,
    losses <- textLosses

\* The initial states of a part that does not run are one state.
Quiet(p, state) == part # p => state

MCInit ==
    /\ part \in {"purchase", "refund", "ask", "song", "karaoke", "text"}
    /\ PurchaseInit /\ Quiet("purchase", bank = "flitt" /\ right)
    /\ Init /\ Quiet("refund", env.bank = "flitt")
    /\ AskInit /\ Song!Init /\ Karaoke!Init /\ Text!Init

\* The requests of one user and their bodies are interchangeable: s1 asks first
\* and s2 next, and the body of s1 is the one it has before it asks.
InOrder ==
    /\ ask'[s2].pc # "new" => ask'[s1].pc # "new"
    /\ ask'[s3].pc # "new" => ask'[s2].pc # "new"
    /\ ask'[s1].body = NewAsk.body

OnlyPurchase ==
    part = "purchase" /\ UNCHANGED <<part, vars, askVars, songVars, lyricsVars, textVars>>
OnlyRefund ==
    part = "refund" /\ UNCHANGED <<part, purchaseVars, askVars, songVars, lyricsVars, textVars>>
OnlyAsk ==
    part = "ask" /\ UNCHANGED <<part, purchaseVars, vars, songVars, lyricsVars, textVars>>
OnlySong ==
    part = "song" /\ UNCHANGED <<part, purchaseVars, vars, askVars, lyricsVars, textVars>>
OnlyKaraoke ==
    part = "karaoke" /\ UNCHANGED <<part, purchaseVars, vars, askVars, songVars, textVars>>
OnlyText ==
    part = "text" /\ UNCHANGED <<part, purchaseVars, vars, askVars, songVars, lyricsVars>>

MCNext ==
    \/ OnlyPurchase /\ PurchaseNext
    \/ OnlyRefund /\ Next
    \/ OnlyAsk /\ AskNext /\ InOrder
    \/ OnlySong /\ Song!Next
    \/ OnlyKaraoke /\ Karaoke!Next
    \/ OnlyText /\ Text!Next

\* The fairness of each component, while it runs.
MCFairness ==
    /\ \A h \in Handlers : WF_purchaseVars(part = "purchase" /\ HandlerStep(h))
    /\ \A r \in Requests : WF_vars(part = "refund" /\ Recover(r))
    /\ \A e \in Execs : WF_vars(part = "refund" /\ Work(e))
    /\ WF_vars(part = "refund" /\ BankSettles)
    /\ WF_songVars(part = "song" /\ Song!Exec(e1))
    /\ WF_songVars(part = "song" /\ Song!Reconcile)
    /\ WF_songVars(part = "song" /\ Song!SpendRemix) /\ WF_songVars(part = "song" /\ Song!EnqueueRemix)
    /\ WF_songVars(part = "song" /\ Song!FailRemix) /\ WF_songVars(part = "song" /\ Song!RefundRemix)
    /\ \A a \in {a1, a2, a3} : WF_songVars(part = "song" /\ Song!VendorFinish(a))
    /\ SF_songVars(part = "song" /\ Song!Poll(h3)) /\ WF_songVars(part = "song" /\ Song!Handle(h3))
    /\ \A q \in {q1, q2} : WF_lyricsVars(part = "karaoke" /\ Karaoke!Goes(q))
    /\ WF_textVars(part = "text" /\ Text!Makes /\ maker # "idle")
    /\ WF_textVars(part = "text" /\ Text!TaskEnds)
    /\ \A p \in {p1, p2} : /\ WF_textVars(part = "text" /\ Text!Query(p))
                           /\ WF_textVars(part = "text" /\ Text!Polling(p))

MCSpec == MCInit /\ [][MCNext]_allVars /\ MCFairness

-----------------------------------------------------------------------------
\* SunoGeneration: a song that was charged reaches a final state, although a
\* worker dies.
ChargedIsDecided == Song!ChargedIsDecided

\* SunoGeneration: unless a worker is lost on the way it is also settled, that
\* is delivered with its tracks, or refunded, or parked for an operator.
ChargedIsSettled == Song!ChargedIsSettled

\* TimedLyrics: karaoke that was paid for is there or is given back, however
\* requests for one track overlap, unless a process dies or a refund is
\* swallowed.
KaraokeIsSettled == Karaoke!PaidIsSettled

\* LyricsText: a text that was paid is shown or given back, and never both,
\* for good, whatever polls overlap, unless a process dies or a statement fails.
TextIsSettled == Text!PaidIsSettled
=============================================================================
