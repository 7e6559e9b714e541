--------------------------- MODULE SettlementProofs ---------------------------
(***************************************************************************)
(* Proofs about the money of a purchase, for every number of processes and *)
(* of requests and for every price: PurchaseFulfilment first, CashRefund   *)
(* after it.                                                               *)
(*                                                                         *)
(* A purchase is granted at most once and only when its order was paid.    *)
(* The status of its row says nothing that can be relied on: any callback  *)
(* or checkout may write over it.  What carries the argument is the order, *)
(* which never becomes unpaid again, and the key of the ledger's entry.    *)
(*                                                                         *)
(* Refunds of a Flitt purchase that count as settled are covered by money  *)
(* that went back.  The bank reports a sum, not requests, so no request    *)
(* can be matched with a payment: the invariant (Covered) says, of every   *)
(* sum x that the bank could have reached, that the requests which are     *)
(* settled or would be settled on seeing x are worth no more than x.       *)
(*                                                                         *)
(* A tbc request is cancelled once, as long as one worker at a time holds  *)
(* its job and the marker of an attempt is not lost: from the moment the   *)
(* bank accepted, the row, or the worker that will still write to it,      *)
(* carries a mark (Noted), and no marked request is sent again.            *)
(***************************************************************************)
EXTENDS PurchaseFulfilment, CashRefund, FiniteSums, FiniteSetTheorems, TLAPS

-----------------------------------------------------------------------------
(* The purchase *)

\* The customer has paid, whatever was refunded since.
PaidOrder == order \in {"approved", "returned", "part_returned"}

\* Nothing is paid, due or being handled before the bank has an order.
OrderInv ==
    /\ payable \/ calls # {} => order # "absent"
    /\ \A c \in Checkouts : checkout[c] = "save" => order # "absent"

\* What a callback has learnt of the order stays true of it.
HandlerInv ==
    \A h \in Handlers :
        /\ handler[h].pc # "idle" => order # "absent"
        /\ handler[h].pc = "note" =>
              /\ handler[h].got # "absent"
              /\ handler[h].got = "approved" => PaidOrder
        /\ handler[h].pc = "status" => handler[h].got \notin {"absent", "approved"}
        /\ handler[h].pc = "grant" => right /\ PaidOrder

\* The inductive invariant of a purchase.
PurchaseInv == PurchaseTypeOK /\ OrderInv /\ HandlerInv /\ GrantedOnce

\* What a callback's handler may be.
Handlings ==
    [pc : {"idle", "fetch", "note", "status", "mismatch", "grant"},
     for : OrderStatuses, known : BOOLEAN, got : OrderStatuses]

\* Where a checkout may be.
CheckoutPcs == {"idle", "create", "probe", "submit", "save", "unheard", "refused"}

\* A handler starts with a type.
LEMMA IdleHandlerType == IdleHandler \in Handlings
  BY DEF IdleHandler, Handlings, OrderStatuses

\* So do the rows a purchase may begin with.
LEMMA NoRowType == NoRow \in PurchaseRows /\ OldTbcRow \in PurchaseRows
  <1>1. NoRow \in PurchaseRows BY DEF NoRow, PurchaseRows, PurchaseStatuses
  <1>2. OldTbcRow \in PurchaseRows BY <1>1 DEF OldTbcRow, PurchaseRows, PurchaseStatuses
  <1> QED BY <1>1, <1>2

\* A purchase begins in the invariant.
LEMMA PurchaseBegins == PurchaseInit => PurchaseInv
  <1> SUFFICES ASSUME PurchaseInit PROVE PurchaseInv OBVIOUS
  <1>1. row \in PurchaseRows BY NoRowType DEF PurchaseInit
  <1>2. handler \in [Handlers -> Handlings] BY IdleHandlerType DEF PurchaseInit
  <1>3. PurchaseTypeOK
    BY <1>1, <1>2, PurchaseAssumption
      DEF PurchaseInit, PurchaseTypeOK, Handlings, OrderStatuses
  <1>4. OrderInv BY DEF PurchaseInit, OrderInv
  <1>5. HandlerInv BY DEF PurchaseInit, HandlerInv, IdleHandler
  <1>6. GrantedOnce BY DEF PurchaseInit, GrantedOnce
  <1> QED BY <1>3, <1>4, <1>5, <1>6 DEF PurchaseInv

\* The steps of a checkout do not touch what the grant depends on, except that
\* the order may come to be.
LEMMA CheckoutKeeps ==
    ASSUME PurchaseInv, NEW c \in Checkouts, CheckoutStep(c)
    PROVE  PurchaseInv'
  <1>a. PurchaseTypeOK /\ OrderInv /\ HandlerInv /\ GrantedOnce BY DEF PurchaseInv
  <1>b. /\ row \in PurchaseRows /\ order \in OrderStatuses
        /\ checkout \in [Checkouts -> CheckoutPcs]
    BY <1>a DEF PurchaseTypeOK, CheckoutPcs
  <1>1. CASE StartCheckout(c)
    <2>1. PurchaseTypeOK'
      BY <1>a, <1>1, PurchaseAssumption DEF StartCheckout, PurchaseTypeOK
    <2>2. OrderInv' BY <1>a, <1>b, <1>1 DEF StartCheckout, OrderInv
    <2>3. HandlerInv' /\ GrantedOnce'
      BY <1>a, <1>1 DEF StartCheckout, HandlerInv, GrantedOnce, PaidOrder
    <2> QED BY <2>1, <2>2, <2>3 DEF PurchaseInv
  <1>2. CASE CreateRow(c)
    <2>1. row' \in PurchaseRows
      BY <1>b, <1>2, NoRowType DEF CreateRow, PurchaseRows, PurchaseStatuses
    <2>2. PurchaseTypeOK' BY <1>a, <1>2, <2>1 DEF CreateRow, PurchaseTypeOK
    <2>3. OrderInv' BY <1>a, <1>b, <1>2 DEF CreateRow, OrderInv
    <2>4. HandlerInv' /\ GrantedOnce'
      BY <1>a, <1>2 DEF CreateRow, HandlerInv, GrantedOnce, PaidOrder
    <2> QED BY <2>2, <2>3, <2>4 DEF PurchaseInv
  <1>3. CASE Probe(c)
    <2>1. row' \in PurchaseRows BY <1>b, <1>3 DEF Probe, PurchaseRows
    <2>2. PurchaseTypeOK' BY <1>a, <1>3, <2>1 DEF Probe, PurchaseTypeOK
    <2>3. OrderInv' BY <1>a, <1>b, <1>3 DEF Probe, OrderInv
    <2>4. HandlerInv' /\ GrantedOnce'
      BY <1>a, <1>3 DEF Probe, HandlerInv, GrantedOnce, PaidOrder
    <2> QED BY <2>2, <2>3, <2>4 DEF PurchaseInv
  <1>4. CASE CreateOrder(c)
    <2>1. PICK answer \in {"save", "unheard", "refused"} :
            /\ answer = "save" => order \in {"absent", "created"}
            /\ \/ /\ answer # "refused"
                  /\ order' = IF order = "absent" THEN "created" ELSE order
               \/ answer # "save" /\ UNCHANGED order
            /\ checkout' = [checkout EXCEPT ![c] = answer]
      BY <1>4 DEF CreateOrder
    <2>2. order' \in OrderStatuses BY <1>b, <2>1 DEF OrderStatuses
    <2>3. order # "absent" => order' = order BY <2>1
    <2>4. answer = "save" => order' # "absent" BY <2>1
    <2>5. PurchaseTypeOK' BY <1>a, <1>4, <2>1, <2>2 DEF CreateOrder, PurchaseTypeOK
    <2>6. OrderInv' BY <1>a, <1>b, <1>4, <2>1, <2>3, <2>4 DEF CreateOrder, OrderInv
    <2>7. PaidOrder => PaidOrder' BY <2>3 DEF PaidOrder
    <2>8. HandlerInv' BY <1>a, <1>4, <2>3, <2>7 DEF CreateOrder, HandlerInv
    <2>9. GrantedOnce' BY <1>a, <1>4, <2>7 DEF CreateOrder, GrantedOnce, PaidOrder
    <2> QED BY <2>5, <2>6, <2>8, <2>9 DEF PurchaseInv
  <1>5. CASE SaveOrder(c)
    <2>1. row' \in PurchaseRows
      BY <1>b, <1>5 DEF SaveOrder, PurchaseRows, PurchaseStatuses
    <2>2. PurchaseTypeOK' BY <1>a, <1>5, <2>1 DEF SaveOrder, PurchaseTypeOK
    <2>3. order # "absent" BY <1>a, <1>5 DEF SaveOrder, OrderInv
    <2>4. OrderInv' BY <1>5, <2>3 DEF SaveOrder, OrderInv
    <2>5. HandlerInv' /\ GrantedOnce'
      BY <1>a, <1>5 DEF SaveOrder, HandlerInv, GrantedOnce, PaidOrder
    <2> QED BY <2>2, <2>4, <2>5 DEF PurchaseInv
  <1>6. CASE SaveFailure(c)
    <2>1. row' \in PurchaseRows
      BY <1>b, <1>6 DEF SaveFailure, PurchaseRows, PurchaseStatuses
    <2>2. PurchaseTypeOK' BY <1>a, <1>6, <2>1 DEF SaveFailure, PurchaseTypeOK
    <2>3. OrderInv' BY <1>a, <1>b, <1>6 DEF SaveFailure, OrderInv
    <2>4. HandlerInv' /\ GrantedOnce'
      BY <1>a, <1>6 DEF SaveFailure, HandlerInv, GrantedOnce, PaidOrder
    <2> QED BY <2>2, <2>3, <2>4 DEF PurchaseInv
  <1>7. CASE CheckoutCrash(c)
    <2>1. PurchaseTypeOK'
      BY <1>a, <1>7, PurchaseAssumption DEF CheckoutCrash, PurchaseTypeOK
    <2>2. OrderInv' BY <1>a, <1>b, <1>7 DEF CheckoutCrash, OrderInv
    <2>3. HandlerInv' /\ GrantedOnce'
      BY <1>a, <1>7 DEF CheckoutCrash, HandlerInv, GrantedOnce, PaidOrder
    <2> QED BY <2>1, <2>2, <2>3 DEF PurchaseInv
  <1> QED
    BY <1>1, <1>2, <1>3, <1>4, <1>5, <1>6, <1>7 DEF CheckoutStep

\* The bank and the refund: an order that was paid stays one.
LEMMA BankKeeps ==
    ASSUME PurchaseInv, OrderMoves \/ AskRefund \/ BankReverses \/ SettleRefund
    PROVE  PurchaseInv'
  <1>a. PurchaseTypeOK /\ OrderInv /\ HandlerInv /\ GrantedOnce BY DEF PurchaseInv
  <1>b. row \in PurchaseRows /\ order \in OrderStatuses BY <1>a DEF PurchaseTypeOK
  <1>1. CASE OrderMoves
    <2>1. PICK status \in Following(order) : order' = status /\ calls' = calls \cup {status}
      BY <1>1 DEF OrderMoves
    <2>2. order \in {"created", "processing"} BY <2>1 DEF Following
    <2>3. status \in {"processing", "expired", "approved", "declined"}
      BY <2>1, <2>2 DEF Following
    <2>4. PurchaseTypeOK'
      BY <1>a, <1>1, <2>1, <2>3 DEF OrderMoves, PurchaseTypeOK, OrderStatuses
    <2>5. OrderInv' BY <2>1, <2>3 DEF OrderInv
    <2>6. ~PaidOrder BY <2>2 DEF PaidOrder
    <2>7. HandlerInv' BY <1>a, <1>1, <2>1, <2>3, <2>6 DEF OrderMoves, HandlerInv
    <2>8. GrantedOnce' BY <1>a, <1>1, <2>6 DEF OrderMoves, GrantedOnce, PaidOrder
    <2> QED BY <2>4, <2>5, <2>7, <2>8 DEF PurchaseInv
  <1>2. CASE AskRefund
    BY <1>a, <1>2
    DEF AskRefund, PurchaseInv, PurchaseTypeOK, OrderInv, HandlerInv, GrantedOnce, PaidOrder
  <1>3. CASE BankReverses
    <2>1. /\ order' \in {"returned", "part_returned", "approved"}
          /\ calls' = calls \cup {order'} /\ refund' \in {"full", "part"}
          /\ UNCHANGED <<bank, right, row, payable, checkout, handler, grants, failures,
                         requests>>
      BY <1>3 DEF BankReverses
    <2>2. PurchaseTypeOK' BY <1>a, <2>1 DEF PurchaseTypeOK, OrderStatuses
    <2>3. OrderInv' BY <2>1 DEF OrderInv
    <2>4. PaidOrder' BY <2>1 DEF PaidOrder
    <2>5. HandlerInv' BY <1>a, <2>1, <2>4 DEF HandlerInv
    <2>6. GrantedOnce' BY <1>a, <2>1, <2>4 DEF GrantedOnce, PaidOrder
    <2> QED BY <2>2, <2>3, <2>5, <2>6 DEF PurchaseInv
  <1>4. CASE SettleRefund
    <2>1. row' \in PurchaseRows
      BY <1>b, <1>4 DEF SettleRefund, PurchaseRows, PurchaseStatuses
    <2>2. PurchaseTypeOK' BY <1>a, <1>4, <2>1 DEF SettleRefund, PurchaseTypeOK
    <2>3. OrderInv' /\ HandlerInv' /\ GrantedOnce'
      BY <1>a, <1>4 DEF SettleRefund, OrderInv, HandlerInv, GrantedOnce, PaidOrder
    <2> QED BY <2>2, <2>3 DEF PurchaseInv
  <1> QED BY <1>1, <1>2, <1>3, <1>4

\* Every status of an order that is not granted has a name in the domain.
LEMMA DomainStatusType ==
    ASSUME NEW status \in OrderStatuses \ {"absent", "approved"}
    PROVE  DomainStatus(status) \in PurchaseStatuses
  <1>1. CASE status = "created" BY <1>1 DEF DomainStatus, PurchaseStatuses
  <1>2. CASE status = "processing" BY <1>2 DEF DomainStatus, PurchaseStatuses
  <1>3. CASE status = "declined" BY <1>3 DEF DomainStatus, PurchaseStatuses
  <1>4. CASE status = "expired" BY <1>4 DEF DomainStatus, PurchaseStatuses
  <1>5. CASE status = "returned" BY <1>5 DEF DomainStatus, PurchaseStatuses
  <1>6. CASE status = "part_returned" BY <1>6 DEF DomainStatus, PurchaseStatuses
  <1> QED BY <1>1, <1>2, <1>3, <1>4, <1>5, <1>6 DEF OrderStatuses

\* The end of a callback takes a due one away.
LEMMA AnswerKeeps ==
    ASSUME PurchaseInv, NEW h \in Handlers, Answer200(h)
    PROVE  /\ calls' \subseteq calls
           /\ handler' \in [Handlers -> Handlings]
           /\ \A k \in Handlers : handler'[k] = IF k = h THEN IdleHandler ELSE handler[k]
  <1>1. handler \in [Handlers -> Handlings]
    BY DEF PurchaseInv, PurchaseTypeOK, Handlings
  <1> QED BY <1>1, IdleHandlerType DEF Answer200

\* A callback that ended is idle; the others know what they knew.
LEMMA AnswerKeepsInv ==
    ASSUME PurchaseInv, NEW h \in Handlers, Answer200(h),
           UNCHANGED <<right, order, payable, checkout>>
    PROVE  OrderInv' /\ HandlerInv'
  <1>1. OrderInv' BY AnswerKeeps DEF PurchaseInv, OrderInv
  <1>2. HandlerInv'
    BY AnswerKeeps DEF PurchaseInv, HandlerInv, PaidOrder, IdleHandler
  <1> QED BY <1>1, <1>2

\* A callback keeps the invariant: what it has fetched of the order stays true
\* of it, and the key stops a second grant.
LEMMA HandlerKeeps ==
    ASSUME PurchaseInv, NEW h \in Handlers, HandlerStep(h) \/ HandlerFails(h)
    PROVE  PurchaseInv'
  <1>a. PurchaseTypeOK /\ OrderInv /\ HandlerInv /\ GrantedOnce BY DEF PurchaseInv
  <1>b. /\ row \in PurchaseRows /\ order \in OrderStatuses
        /\ handler \in [Handlers -> Handlings] /\ handler[h] \in Handlings
    BY <1>a DEF PurchaseTypeOK, Handlings
  <1>1. CASE ReadPurchase(h)
    <2>1. PICK status \in calls :
            IF row.status = "credited" /\ row.credited
            THEN calls' = calls \ {status} /\ UNCHANGED handler
            ELSE /\ handler' = [handler EXCEPT ![h] =
                                   [IdleHandler EXCEPT !.pc = "fetch", !.for = status,
                                                       !.known = row.payment]]
                 /\ UNCHANGED calls
      BY <1>1 DEF ReadPurchase
    <2>2. UNCHANGED <<bank, right, row, order, payable, checkout, grants, refund,
                      failures, requests>>
      BY <1>1 DEF ReadPurchase
    <2>3. order # "absent" /\ status \in OrderStatuses
      BY <1>a, <2>1 DEF OrderInv, PurchaseTypeOK
    <2>4. GrantedOnce' BY <1>a, <2>2 DEF GrantedOnce
    <2>5. CASE row.status = "credited" /\ row.credited
      <3>1. calls' \subseteq calls /\ handler' = handler BY <2>1, <2>5
      <3>2. PurchaseTypeOK' BY <1>a, <2>2, <3>1 DEF PurchaseTypeOK
      <3>3. OrderInv' /\ HandlerInv'
        BY <1>a, <2>2, <3>1 DEF OrderInv, HandlerInv, PaidOrder
      <3> QED BY <2>4, <3>2, <3>3 DEF PurchaseInv
    <2>6. CASE ~(row.status = "credited" /\ row.credited)
      <3> DEFINE begun == [IdleHandler EXCEPT !.pc = "fetch", !.for = status,
                                              !.known = row.payment]
      <3>1. handler' = [handler EXCEPT ![h] = begun] /\ calls' = calls BY <2>1, <2>6
      <3>2. begun \in Handlings /\ begun.pc = "fetch"
        BY <1>b, <2>3, IdleHandlerType DEF Handlings, PurchaseRows, IdleHandler
      <3> HIDE DEF begun
      <3>3. PurchaseTypeOK'
        BY <1>a, <1>b, <2>2, <3>1, <3>2 DEF PurchaseTypeOK, Handlings
      <3>4. OrderInv' BY <1>a, <2>2, <3>1 DEF OrderInv
      <3>5. HandlerInv' BY <1>a, <1>b, <2>2, <2>3, <3>1, <3>2 DEF HandlerInv, PaidOrder
      <3> QED BY <2>4, <3>3, <3>4, <3>5 DEF PurchaseInv
    <2> QED BY <2>5, <2>6
  <1>2. CASE FetchOrder(h)
    <2> DEFINE known == [handler[h] EXCEPT !.pc = "note", !.got = order]
    <2>1. handler' = [handler EXCEPT ![h] = known] BY <1>b, <1>2 DEF FetchOrder
    <2>2. known \in Handlings /\ known.pc = "note" /\ known.got = order
      BY <1>b DEF Handlings
    <2>3. order # "absent" BY <1>a, <1>2 DEF FetchOrder, HandlerInv
    <2> HIDE DEF known
    <2>a. /\ handler' \in [Handlers -> Handlings]
          /\ UNCHANGED <<bank, right, row, order, payable, calls, checkout, grants, refund,
                         failures, requests>>
      BY <1>b, <1>2, <2>1, <2>2 DEF FetchOrder
    <2>4. PurchaseTypeOK' BY <1>a, <2>a DEF PurchaseTypeOK, Handlings
    <2>5. OrderInv' BY <1>a, <1>2 DEF FetchOrder, OrderInv
    <2>6. HandlerInv'
      BY <1>a, <1>b, <1>2, <2>1, <2>2, <2>3 DEF FetchOrder, HandlerInv, PaidOrder
    <2>7. GrantedOnce' BY <1>a, <1>2 DEF FetchOrder, GrantedOnce
    <2> QED BY <2>4, <2>5, <2>6, <2>7 DEF PurchaseInv
  <1>3. CASE NoteStatus(h)
    <2> DEFINE pc == CASE handler[h].got # "approved" -> "status"
                       [] handler[h].got = "approved" /\ right -> "grant"
                       [] OTHER -> "mismatch"
               noted == [handler[h] EXCEPT !.pc = pc]
    <2>1. handler' = [handler EXCEPT ![h] = noted] BY <1>3 DEF NoteStatus
    <2>2. /\ pc \in {"status", "grant", "mismatch"}
          /\ pc = "status" => handler[h].got # "approved"
          /\ pc = "grant" => handler[h].got = "approved" /\ right
      BY <1>a DEF PurchaseTypeOK
    <2> HIDE DEF pc
    <2>3. noted \in Handlings /\ noted.pc = pc /\ noted.got = handler[h].got
      BY <1>b, <2>2 DEF Handlings
    <2>4. /\ order # "absent" /\ handler[h].got # "absent"
          /\ handler[h].got = "approved" => PaidOrder
      BY <1>a, <1>3 DEF NoteStatus, HandlerInv
    <2> HIDE DEF noted
    <2>5. row' \in PurchaseRows BY <1>b, <1>3 DEF NoteStatus, PurchaseRows
    <2>6. PurchaseTypeOK'
      BY <1>a, <1>b, <1>3, <2>1, <2>3, <2>5 DEF NoteStatus, PurchaseTypeOK, Handlings
    <2>7. OrderInv' BY <1>a, <1>3 DEF NoteStatus, OrderInv
    <2>8. HandlerInv'
      BY <1>a, <1>b, <1>3, <2>1, <2>2, <2>3, <2>4 DEF NoteStatus, HandlerInv, PaidOrder
    <2>9. GrantedOnce' BY <1>a, <1>3 DEF NoteStatus, GrantedOnce
    <2> QED BY <2>6, <2>7, <2>8, <2>9 DEF PurchaseInv
  <1>4. CASE WriteStatus(h)
    <2>1. handler[h].got \in OrderStatuses \ {"absent", "approved"}
      BY <1>a, <1>b, <1>4 DEF WriteStatus, HandlerInv, Handlings
    <2>2. DomainStatus(handler[h].got) \in PurchaseStatuses
      BY <2>1, DomainStatusType
    <2>3. row' \in PurchaseRows BY <1>b, <1>4, <2>2 DEF WriteStatus, PurchaseRows
    <2>a. /\ UNCHANGED <<bank, right, order, payable, checkout, grants, refund, failures,
                         requests>>
          /\ calls' \subseteq calls /\ handler' \in [Handlers -> Handlings]
      BY <1>4, AnswerKeeps DEF WriteStatus
    <2>4. PurchaseTypeOK' BY <1>a, <2>3, <2>a DEF PurchaseTypeOK, Handlings
    <2>5. OrderInv' /\ HandlerInv' BY <1>4, AnswerKeepsInv DEF WriteStatus
    <2>6. GrantedOnce' BY <1>a, <1>4 DEF WriteStatus, GrantedOnce
    <2> QED BY <2>4, <2>5, <2>6 DEF PurchaseInv
  <1>5. CASE VerificationFails(h)
    <2>1. row' \in PurchaseRows
      BY <1>b, <1>5 DEF VerificationFails, PurchaseRows, PurchaseStatuses
    <2>2. PurchaseTypeOK'
      BY <1>a, <1>5, <2>1, AnswerKeeps DEF VerificationFails, PurchaseTypeOK, Handlings
    <2>3. OrderInv' /\ HandlerInv' BY <1>5, AnswerKeepsInv DEF VerificationFails
    <2>4. GrantedOnce' BY <1>a, <1>5 DEF VerificationFails, GrantedOnce
    <2> QED BY <2>2, <2>3, <2>4 DEF PurchaseInv
  <1>6. CASE GrantCredits(h)
    <2>1. right /\ PaidOrder BY <1>a, <1>6 DEF GrantCredits, HandlerInv
    <2>2. grants' = grants \/ grants' = LedgerGrant(grants)
      BY <1>6 DEF GrantCredits
    <2>3. grants' \in Nat /\ grants' <= 1
      BY <1>a, <2>2 DEF PurchaseTypeOK, GrantedOnce, LedgerGrant
    <2>4. row' \in PurchaseRows
      BY <1>b, <1>6 DEF GrantCredits, PurchaseRows, PurchaseStatuses
    <2>5. PurchaseTypeOK'
      BY <1>a, <1>6, <2>3, <2>4, AnswerKeeps DEF GrantCredits, PurchaseTypeOK, Handlings
    <2>6. OrderInv' /\ HandlerInv' BY <1>6, AnswerKeepsInv DEF GrantCredits
    <2>7. GrantedOnce' BY <1>6, <2>1, <2>3 DEF GrantCredits, GrantedOnce, PaidOrder
    <2> QED BY <2>5, <2>6, <2>7 DEF PurchaseInv
  <1>7. CASE HandlerFails(h)
    <2>1. /\ handler' = [handler EXCEPT ![h] = IdleHandler]
          /\ failures < MaxFailures /\ failures' = failures + 1
          /\ UNCHANGED <<bank, right, row, order, payable, calls, checkout, grants, refund,
                         requests>>
      BY <1>7 DEF HandlerFails
    <2>2. PurchaseTypeOK'
      BY <1>a, <1>b, <2>1, IdleHandlerType, PurchaseAssumption
        DEF PurchaseTypeOK, Handlings
    <2>3. OrderInv' BY <1>a, <2>1 DEF OrderInv
    <2>4. HandlerInv' BY <1>a, <1>b, <2>1 DEF HandlerInv, PaidOrder, IdleHandler
    <2>5. GrantedOnce' BY <1>a, <2>1 DEF GrantedOnce
    <2> QED BY <2>2, <2>3, <2>4, <2>5 DEF PurchaseInv
  <1> QED
    BY <1>1, <1>2, <1>3, <1>4, <1>5, <1>6, <1>7 DEF HandlerStep

\* Every step of a purchase keeps its invariant.
LEMMA PurchaseStep == PurchaseInv /\ [PurchaseNext]_purchaseVars => PurchaseInv'
  <1> SUFFICES ASSUME PurchaseInv, [PurchaseNext]_purchaseVars PROVE PurchaseInv' OBVIOUS
  <1>1. CASE UNCHANGED purchaseVars
    BY <1>1
      DEF purchaseVars, PurchaseInv, PurchaseTypeOK, OrderInv, HandlerInv, GrantedOnce, PaidOrder
  <1> QED BY <1>1, CheckoutKeeps, BankKeeps, HandlerKeeps DEF PurchaseNext

\* The types, what the callbacks know of the order, and the grant.
THEOREM PurchaseInvariant == PurchaseSpec => []PurchaseInv
  BY PurchaseBegins, PurchaseStep, PTL DEF PurchaseSpec

\* Statuses of the row and of the order, and what is under way, keep their
\* shape: in particular a callback never asks for the domain's name of a
\* status that has none.
THEOREM PurchaseTypes == PurchaseSpec => []PurchaseTypeOK
  <1>1. PurchaseInv => PurchaseTypeOK BY DEF PurchaseInv
  <1> QED BY PurchaseInvariant, <1>1, PTL

\* However many callbacks and checkouts run side by side and overwrite the
\* status, a purchase is granted at most once, and only a paid one.
THEOREM GrantedAtMostOnce == PurchaseSpec => []GrantedOnce
  <1>1. PurchaseInv => GrantedOnce BY DEF PurchaseInv
  <1> QED BY PurchaseInvariant, <1>1, PTL

-----------------------------------------------------------------------------
(* Refunds *)

USE DEF apiVars, bankVars

\* Statuses before an approval.
Early == {"none", "creating", "requested", "rejected"}

\* Until a request is approved there is no job and no worker for it, and the
\* bank has not heard of it.
EarlyQuiet ==
    \A r \in Requests : req[r].status \in Early =>
        /\ asked[r] = 0 /\ r \notin due /\ job[r].state = "absent"
        /\ \A e \in Execs : exec[e].r # r

\* A worker that runs has a request.
HasRequest == \A e \in Execs : exec[e].pc # "idle" => exec[e].r \in Requests

\* The bank shows no refund it did not accept.
ShownAsked == \A r \in Requests : shown[r] <= asked[r]

\* Approvals fit beside each other into the price, and grant money.
CountedFits == MoneyIn(Counted) <= Price
\* A request that counts has an amount an approval may grant.
Amounted == \A r \in Requests : req[r].status \in Counted => req[r].amount \in Amounts

\* What holds of a refund at either bank.
RefundInv == TypeOK /\ EarlyQuiet /\ HasRequest /\ ShownAsked /\ CountedFits /\ Amounted

\* A worker that reads the bank has seen no more than went back.
SeenTrue ==
    \A e \in Execs : exec[e].pc = "decide" =>
        /\ exec[e].seen.reversed <= MoneyBack(asked)
        /\ exec[e].seen.status = "returned" => Price <= MoneyBack(asked)

\* A worker between its decision and the bank's verdict.
Asking == {"post", "record", "note", "recheck", "check"}

\* The requests that are refunded, or will be as soon as the bank has given x
\* back.
Members(x) ==
    {r \in Requests :
        \/ req[r].status = "refunded"
        \/ /\ req[r].status \in Running
           /\ \E e \in Execs :
                 /\ exec[e].r = r
                 /\ \/ exec[e].pc = "settle"
                    \/ exec[e].pc \in Asking /\ exec[e].expected <= x}

\* The money of each request.
Amount == [r \in Requests |-> req[r].amount]

\* As long as the bank gave back no more than x, they are worth no more.
Covered ==
    \A x \in Nat : MoneyBack(asked) <= x => SumFunctionOnSet(Amount, Members(x)) <= x

\* What holds of Flitt's refunds besides.
FlittInv == Flitt => SeenTrue /\ Covered

\* Amounts are numbers.
LEMMA AmountNat ==
    ASSUME NEW x \in Amounts \cup {0} PROVE x \in Nat
  BY ConstantsAssumption

\* The type of each variable at one request.
LEMMA TypeFields ==
    ASSUME TypeOK, NEW r \in Requests
    PROVE  /\ req[r] \in Rows /\ req[r].amount \in Nat
           /\ job[r] \in Jobs /\ asked[r] \in Nat /\ shown[r] \in Nat
  BY AmountNat DEF TypeOK, Rows

\* A change of one row, by a worker: only while the request runs, never of
\* the amount.
WorkStep(e) ==
    LET r == exec[e].r IN
    /\ exec[e].pc # "idle"
    /\ UNCHANGED <<env, due>>
    /\ purchase' \in {"credited", "partial_refunded", "refunded"}
    /\ req' \in [Requests -> Rows]
    /\ job' \in [Requests -> Jobs]
    /\ exec' \in [Execs -> Executions]
    /\ asked' \in [Requests -> Nat] /\ shown' \in [Requests -> Nat]
    /\ \A q \in Requests : q # r => /\ req'[q] = req[q] /\ job'[q] = job[q]
                                    /\ asked'[q] = asked[q]
    /\ \/ req'[r] = req[r]
       \/ /\ req[r].status \in Running
          /\ req'[r].status \in {"processing", "refunded", "needs_review", "failed"}
          /\ req'[r].amount = req[r].amount
    /\ asked[r] <= asked'[r]
    /\ shown' = shown \/ shown' = asked'
    /\ \A f \in Execs : f # e => exec'[f] = exec[f]
    /\ \/ exec'[e] = IdleExec
       \/ exec'[e].r = r /\ exec'[e].pc # "idle" /\ job' = job

\* What it adds to the sum of the refunds, flitt's way.
Advance(e) ==
    LET x == exec'[e]
        y == exec[e]
        asks == y.pc \in Asking /\ y.expected <= MoneyBack(asked)
    IN  /\ x.pc = "settle" =>
              \/ y.pc = "settle" \/ asks
              \/ Price <= MoneyBack(asked) \/ MoneyIn(Counted) <= MoneyBack(asked)
        /\ x.pc \in Asking =>
              \/ y.pc \in Asking /\ x.expected = y.expected
              \/ x.expected = MoneyIn(Counted)
        /\ req'[y.r].status = "refunded" =>
              \/ req[y.r].status = "refunded"
              \/ req[y.r].status \in Running /\ y.pc = "settle"
        /\ x.pc = "decide" =>
              \/ x = y
              \/ /\ x.seen.reversed = MoneyBack(shown)
                 /\ x.seen.status = "returned" => MoneyBack(shown) = Price

\* What everything starts as has a type.
LEMMA IdleType == IdleExec \in Executions /\ BlankJob \in Jobs /\ BlankRequest \in Rows
  BY ConstantsAssumption
     DEF IdleExec, Executions, Nothing, BlankJob, Jobs, BlankRequest, Rows

\* The end of an execution keeps the types.
LEMMA EndKeeps ==
    ASSUME TypeOK, NEW e \in Execs, NEW how, exec[e].r \in Requests, End(e, how)
    PROVE  /\ exec' = [exec EXCEPT ![e] = IdleExec]
           /\ job' \in [Requests -> Jobs]
           /\ \A q \in Requests : q # exec[e].r => job'[q] = job[q]
<1> DEFINE r == exec[e].r
           tries == IF job[r].tries < MaxTries THEN job[r].tries + 1 ELSE MaxTries
<1>1. /\ exec' = [exec EXCEPT ![e] = IdleExec]
      /\ job' = IF job[r].owner # e THEN job
                ELSE IF how = "ok"
                THEN [job EXCEPT ![r].state = "completed", ![r].owner = NoExec]
                ELSE [job EXCEPT ![r].tries = tries, ![r].owner = NoExec,
                                 ![r].state = IF tries < MaxTries
                                              THEN "waiting" ELSE "failed"]
  BY DEF End
<1>2. job[r] \in Jobs /\ job \in [Requests -> Jobs]
  BY DEF TypeOK
<1>3. tries \in 0 .. MaxTries
  BY <1>2, ConstantsAssumption DEF Jobs
<1> HIDE DEF tries, r
<1>4. r \in Requests
  BY DEF r
<1>5. CASE job[r].owner # e
  BY <1>1, <1>2, <1>5
<1>6. CASE job[r].owner = e /\ how = "ok"
  <2>1. job' = [job EXCEPT ![r].state = "completed", ![r].owner = NoExec]
    BY <1>1, <1>6
  <2> QED
    BY <1>1, <1>2, <1>4, <2>1 DEF Jobs, r
<1>7. CASE job[r].owner = e /\ how # "ok"
  <2> DEFINE s == IF tries < MaxTries THEN "waiting" ELSE "failed"
  <2>1. job' = [job EXCEPT ![r].tries = tries, ![r].owner = NoExec, ![r].state = s]
    BY <1>1, <1>7
  <2>2. s \in {"waiting", "failed"}
    OBVIOUS
  <2> HIDE DEF s
  <2> QED
    BY <1>1, <1>2, <1>3, <1>4, <2>1, <2>2 DEF Jobs, r
<1> QED
  BY <1>5, <1>6, <1>7

\* Where a worker may be.
PCs == {"idle", "done", "claim", "get", "decide", "post", "record", "note",
        "recheck", "check", "await", "settle", "park", "park_marked", "fail"}

\* So does a worker's next step.
LEMMA GotoKeeps ==
    ASSUME TypeOK, NEW e \in Execs, NEW pc \in PCs, Goto(e, pc)
    PROVE  /\ exec' \in [Execs -> Executions]
           /\ exec'[e].pc = pc /\ exec'[e].r = exec[e].r
           /\ exec'[e].expected = exec[e].expected
           /\ exec'[e].seen = exec[e].seen
           /\ exec'[e].attempted = exec[e].attempted
           /\ \A f \in Execs : f # e => exec'[f] = exec[f]
<1>1. exec[e] \in Executions /\ exec \in [Execs -> Executions]
  BY DEF TypeOK
<1>2. exec' = [exec EXCEPT ![e].pc = pc]
  BY DEF Goto
<1> QED
  BY <1>1, <1>2 DEF Executions, PCs

\* What the end of an execution leaves: an idle worker, and a job that was at
\* most its own.
LEMMA EndFields ==
    ASSUME TypeOK, NEW e \in Execs, NEW how, exec[e].r \in Requests, End(e, how)
    PROVE  /\ exec' \in [Execs -> Executions] /\ exec'[e] = IdleExec
           /\ exec'[e].pc = "idle" /\ exec'[e].r = NoRequest
           /\ \A f \in Execs : f # e => exec'[f] = exec[f]
           /\ job' \in [Requests -> Jobs]
           /\ \A q \in Requests : q # exec[e].r => job'[q] = job[q]
<1>1. exec \in [Execs -> Executions]
  BY DEF TypeOK
<1>2. /\ exec' = [exec EXCEPT ![e] = IdleExec]
      /\ job' \in [Requests -> Jobs]
      /\ \A q \in Requests : q # exec[e].r => job'[q] = job[q]
  BY EndKeeps
<1>3. IdleExec \in Executions /\ IdleExec.pc = "idle" /\ IdleExec.r = NoRequest
  BY IdleType DEF IdleExec
<1> HIDE DEF IdleExec
<1> QED
  BY <1>1, <1>2, <1>3

\* A row is written only while the request runs, and keeps its amount.
RowStep(r) ==
    /\ req' \in [Requests -> Rows]
    /\ \A q \in Requests : q # r => req'[q] = req[q]
    /\ \/ req'[r] = req[r]
       \/ /\ req[r].status \in Running
          /\ req'[r].status \in {"processing", "refunded", "needs_review", "failed"}
          /\ req'[r].amount = req[r].amount

\* A conditional update keeps the rows' type, and changes one row.
LEMMA UpdateKeeps ==
    ASSUME TypeOK, NEW r \in Requests, NEW from, from \subseteq Running,
           NEW new \in Rows, new.amount = req[r].amount,
           req[r].status \in from =>
               new.status \in {"processing", "refunded", "needs_review", "failed"},
           Update(r, from, new)
    PROVE  /\ RowStep(r)
           /\ \/ req'[r] = req[r]
              \/ req'[r] = new /\ req[r].status \in from
<1>1. req \in [Requests -> Rows]
  BY DEF TypeOK
<1>2. req' = IF req[r].status \in from THEN [req EXCEPT ![r] = new] ELSE req
  BY DEF Update
<1>3. CASE req[r].status \in from
  <2>1. req' = [req EXCEPT ![r] = new]
    BY <1>2, <1>3
  <2>2. /\ req' \in [Requests -> Rows] /\ req'[r] = new
        /\ \A q \in Requests : q # r => req'[q] = req[q]
    BY <1>1, <2>1
  <2>3. req[r].status \in Running
    BY <1>3
  <2> QED
    BY <1>3, <2>2, <2>3 DEF RowStep
<1>4. CASE req[r].status \notin from
  BY <1>1, <1>2, <1>4 DEF RowStep
<1> QED
  BY <1>3, <1>4

\* The bank accepts at most one refund more, of one request, and shows no
\* refund it did not accept.
LEMMA AcceptKeeps ==
    ASSUME TypeOK, NEW r \in Requests, Accept(r) \/ UNCHANGED bankVars
    PROVE  /\ asked' \in [Requests -> Nat] /\ shown' \in [Requests -> Nat]
           /\ \A q \in Requests : q # r => asked'[q] = asked[q]
           /\ asked[r] <= asked'[r]
           /\ shown' = shown \/ shown' = asked'
<1>1. asked \in [Requests -> Nat] /\ shown \in [Requests -> Nat]
  BY DEF TypeOK
<1>2. CASE UNCHANGED bankVars
  BY <1>1, <1>2
<1>3. CASE /\ asked' = [asked EXCEPT ![r] = @ + 1]
           /\ shown' = asked' \/ shown' = shown
  BY <1>1, <1>3
<1> QED
  BY <1>2, <1>3 DEF Accept

-----------------------------------------------------------------------------
(* Sums of money *)

\* The money that went back is a sum over the requests.
LEMMA MoneyBackSum ==
    ASSUME TypeOK, NEW count \in [Requests -> Nat]
    PROVE  /\ MoneyBack(count)
                = SumFunctionOnSet([r \in Requests |-> req[r].amount * count[r]],
                                   Requests)
           /\ MoneyBack(count) \in Nat
<1> DEFINE f == [r \in Requests |-> req[r].amount * count[r]]
<1>1. \A r \in Requests : f[r] \in Nat
  BY TypeFields
<1>2. DOMAIN f = Requests
  OBVIOUS
<1>3. MoneyBack(count) = SumFunction(f)
  BY Zenon DEF MoneyBack
<1> HIDE DEF f
<1>4. SumFunction(f) = SumFunctionOnSet(f, Requests)
  BY <1>2, Zenon DEF SumFunction
<1>5. SumFunctionOnSet(f, Requests) \in Nat
  BY <1>1, SumNat, ConstantsAssumption
<1> QED
  BY <1>3, <1>4, <1>5 DEF f

\* What the bank reports is at most what it gave back, and all of it only if
\* it gave back the price.
LEMMA ViewFields ==
    ASSUME TypeOK, NEW view \in Views
    PROVE  /\ view \in [status : {"held", "processing", "partial", "returned"},
                        reversed : Nat]
           /\ view.reversed = MoneyBack(shown)
           /\ view.status = "returned" => MoneyBack(shown) = Price
           /\ view.status = "held" =>
                \/ asked = shown /\ MoneyBack(shown) = 0
                \/ ~Flitt /\ asked # shown /\ Fault("status_lag")
                \/ Flitt
<1>1. MoneyBack(shown) \in Nat
  BY MoneyBackSum DEF TypeOK
<1>2. PICK s \in Statuses, b \in {MoneyBack(shown)} :
          view = [status |-> s, reversed |-> b]
  BY DEF Views
<1>3. view.status = s /\ view.reversed = MoneyBack(shown)
  BY <1>2
<1>4. /\ s \in {"held", "processing", "partial", "returned"}
      /\ s = "returned" => MoneyBack(shown) = Price
      /\ s = "held" => \/ asked = shown /\ MoneyBack(shown) = 0
                       \/ ~Flitt /\ asked # shown /\ Fault("status_lag")
                       \/ Flitt
  <2> HIDE DEF Flitt
  <2>1. CASE Flitt \/ asked = shown
    BY <2>1 DEF Statuses, Settled
  <2>2. CASE ~(Flitt \/ asked = shown)
    BY <2>2 DEF Statuses, Settled
  <2> QED
    BY <2>1, <2>2
<1> QED
  BY <1>1, <1>2, <1>3, <1>4

\* The money of some statuses is a sum over their requests.
LEMMA MoneyInSum ==
    ASSUME NEW statuses
    PROVE  MoneyIn(statuses)
             = SumFunctionOnSet(Amount, {r \in Requests : req[r].status \in statuses})
  BY Zenon DEF MoneyIn, Amount

\* Amounts are numbers, request by request.
LEMMA AmountsNat ==
    ASSUME TypeOK PROVE \A r \in Requests : Amount[r] \in Nat /\ Amount[r] = req[r].amount
  BY TypeFields DEF Amount

\* So is the money of some statuses.
LEMMA MoneyInNat ==
    ASSUME TypeOK, NEW statuses PROVE MoneyIn(statuses) \in Nat
<1> DEFINE S == {r \in Requests : req[r].status \in statuses}
<1>1. IsFiniteSet(S) /\ S \subseteq Requests
  BY FS_Subset, ConstantsAssumption
<1>2. \A r \in S : Amount[r] \in Nat
  BY <1>1, AmountsNat
<1>3. MoneyIn(statuses) = SumFunctionOnSet(Amount, S)
  BY MoneyInSum
<1> HIDE DEF S
<1> QED
  BY <1>1, <1>2, <1>3, SumNat

\* The bank shows no more money than it gave back.
LEMMA ShownBelow ==
    ASSUME TypeOK, ShownAsked PROVE MoneyBack(shown) <= MoneyBack(asked)
<1> DEFINE f == [r \in Requests |-> req[r].amount * shown[r]]
           g == [r \in Requests |-> req[r].amount * asked[r]]
<1>1. asked \in [Requests -> Nat] /\ shown \in [Requests -> Nat]
  BY DEF TypeOK
<1>2. ASSUME NEW r \in Requests PROVE f[r] \in Int /\ g[r] \in Int /\ f[r] <= g[r]
  <2>1. req[r].amount \in Nat /\ shown[r] \in Nat /\ asked[r] \in Nat
    BY TypeFields
  <2>2. shown[r] <= asked[r]
    BY DEF ShownAsked
  <2>3. \A a, b, c \in Nat : b <= c => a * b <= a * c /\ a * b \in Nat /\ a * c \in Nat
    OBVIOUS
  <2> QED
    BY <2>1, <2>2, <2>3
<1>3. /\ MoneyBack(shown) = SumFunctionOnSet(f, Requests)
      /\ MoneyBack(asked) = SumFunctionOnSet(g, Requests)
  BY <1>1, MoneyBackSum
<1> HIDE DEF f, g
<1> QED
  BY <1>2, <1>3, SumMonotone, ConstantsAssumption

-----------------------------------------------------------------------------
(* The steps of a worker *)

\* Where a worker neither asks the bank nor settles.
Quiet == {"idle", "done", "claim", "get", "await", "park", "park_marked", "fail"}

\* Types at one worker.
LEMMA WorkerTyped ==
    ASSUME RefundInv, NEW e \in Execs, exec[e].pc # "idle"
    PROVE  /\ exec[e].r \in Requests /\ req[exec[e].r] \in Rows
           /\ exec[e] \in Executions
           /\ TypeOK /\ exec \in [Execs -> Executions]
           /\ req \in [Requests -> Rows] /\ job \in [Requests -> Jobs]
           /\ asked \in [Requests -> Nat] /\ shown \in [Requests -> Nat]
           /\ purchase \in {"credited", "partial_refunded", "refunded"}
  BY DEF RefundInv, HasRequest, TypeOK

\* A worker that ends its execution and writes its row or leaves it.
LEMMA EndWorks ==
    ASSUME RefundInv, NEW e \in Execs, NEW how, exec[e].pc # "idle", End(e, how),
           UNCHANGED <<env, due, bankVars>>,
           purchase' \in {"credited", "partial_refunded", "refunded"},
           RowStep(exec[e].r),
           req'[exec[e].r].status = "refunded" =>
               \/ req[exec[e].r].status = "refunded"
               \/ req[exec[e].r].status \in Running /\ exec[e].pc = "settle"
    PROVE  WorkStep(e) /\ Advance(e)
<1>1. exec[e].r \in Requests /\ TypeOK
  BY WorkerTyped
<1>2. /\ exec' \in [Execs -> Executions] /\ exec'[e] = IdleExec
      /\ exec'[e].pc = "idle"
      /\ \A f \in Execs : f # e => exec'[f] = exec[f]
      /\ job' \in [Requests -> Jobs]
      /\ \A q \in Requests : q # exec[e].r => job'[q] = job[q]
  BY <1>1, EndFields
<1>3. /\ asked' = asked /\ shown' = shown
      /\ asked' \in [Requests -> Nat] /\ shown' \in [Requests -> Nat]
      /\ asked[exec[e].r] <= asked'[exec[e].r]
  BY <1>1 DEF TypeOK
<1>4. WorkStep(e)
  BY <1>2, <1>3 DEF WorkStep, RowStep
<1>5. Advance(e)
  BY <1>2 DEF Advance, Asking
<1> QED
  BY <1>4, <1>5

\* A worker that goes on, its job unchanged.
LEMMA GoWorks ==
    ASSUME RefundInv, NEW e \in Execs, NEW pc \in PCs, exec[e].pc # "idle",
           pc # "idle", Goto(e, pc), UNCHANGED <<env, due, purchase, job>>,
           RowStep(exec[e].r),
           req'[exec[e].r].status = "refunded" => req[exec[e].r].status = "refunded",
           Accept(exec[e].r) \/ UNCHANGED bankVars
    PROVE  /\ WorkStep(e)
           /\ exec'[e].pc = pc
           /\ \/ pc \in Quiet
              \/ pc \in Asking /\ exec[e].pc \in Asking
              \/ /\ pc = "settle"
                 /\ exec[e].pc \in Asking /\ exec[e].expected <= MoneyBack(asked)
              \/ pc = "settle" /\ Price <= MoneyBack(asked)
              => Advance(e)
<1>1. exec[e].r \in Requests /\ TypeOK
  BY WorkerTyped
<1>2. /\ exec' \in [Execs -> Executions]
      /\ exec'[e].pc = pc /\ exec'[e].r = exec[e].r
      /\ exec'[e].expected = exec[e].expected
      /\ \A f \in Execs : f # e => exec'[f] = exec[f]
  BY <1>1, GotoKeeps
<1>3. /\ asked' \in [Requests -> Nat] /\ shown' \in [Requests -> Nat]
      /\ \A q \in Requests : q # exec[e].r => asked'[q] = asked[q]
      /\ asked[exec[e].r] <= asked'[exec[e].r]
      /\ shown' = shown \/ shown' = asked'
  BY <1>1, AcceptKeeps
<1>4. /\ purchase \in {"credited", "partial_refunded", "refunded"}
      /\ job' = job /\ job \in [Requests -> Jobs]
  BY <1>1 DEF TypeOK
<1>5. WorkStep(e)
  BY <1>2, <1>3, <1>4 DEF WorkStep, RowStep
<1>6. ASSUME \/ pc \in Quiet
             \/ pc \in Asking /\ exec[e].pc \in Asking
             \/ /\ pc = "settle"
                /\ exec[e].pc \in Asking /\ exec[e].expected <= MoneyBack(asked)
             \/ pc = "settle" /\ Price <= MoneyBack(asked)
      PROVE  Advance(e)
  BY <1>2, <1>6 DEF Advance, Asking, Quiet
<1> QED
  BY <1>2, <1>5, <1>6

\* A row that is written back is unchanged.
LEMMA SameRow ==
    ASSUME TypeOK, req' = req, NEW r PROVE RowStep(r)
  BY DEF RowStep, TypeOK

\* Done, Claim, ... below: each step of a worker is a WorkStep, that is, it
\* changes the row, the job and the bank's count of its own request only, and
\* keeps what the invariants ask of a worker.
LEMMA DoneWorks ==
    ASSUME RefundInv, NEW e \in Execs, Done(e) PROVE WorkStep(e) /\ Advance(e)
<1>1. /\ exec[e].pc = "done" /\ End(e, "ok") /\ req' = req
      /\ UNCHANGED <<env, purchase, due, bankVars>>
  BY DEF Done
<1>2. RowStep(exec[e].r) /\ purchase \in {"credited", "partial_refunded", "refunded"}
  BY <1>1, WorkerTyped, SameRow
<1> QED
  BY <1>1, <1>2, EndWorks

\* Claim.
LEMMA ClaimWorks ==
    ASSUME RefundInv, NEW e \in Execs, Claim(e) PROVE WorkStep(e) /\ Advance(e)
<1> DEFINE r == exec[e].r
<1>1. exec[e].pc = "claim" /\ UNCHANGED <<env, purchase, due, bankVars>>
  BY DEF Claim
<1>2. /\ r \in Requests /\ TypeOK /\ req \in [Requests -> Rows]
      /\ purchase \in {"credited", "partial_refunded", "refunded"}
  BY <1>1, WorkerTyped
<1>3. CASE req[r].status = "approved"
  <2>1. req' = [req EXCEPT ![r].status = "processing"] /\ Goto(e, "get") /\ job' = job
    BY <1>3 DEF Claim
  <2>2. RowStep(r) /\ req'[r].status = "processing"
    BY <1>2, <1>3, <2>1 DEF RowStep, Rows, Running
  <2> QED
    BY <1>1, <2>1, <2>2, GoWorks DEF PCs, Quiet
<1>4. CASE req[r].status # "approved"
  <2>1. req' = req /\ RowStep(r)
    BY <1>2, <1>4, SameRow DEF Claim
  <2>2. CASE Goto(e, "get") /\ UNCHANGED job
    BY <1>1, <2>1, <2>2, GoWorks DEF PCs, Quiet
  <2>3. CASE \E how : End(e, how)
    BY <1>1, <1>2, <2>1, <2>3, EndWorks
  <2> QED
    BY <1>4, <2>2, <2>3 DEF Claim
<1> QED
  BY <1>3, <1>4

\* GetStatus.
LEMMA GetStatusWorks ==
    ASSUME RefundInv, NEW e \in Execs, GetStatus(e) PROVE WorkStep(e) /\ Advance(e)
<1> DEFINE r == exec[e].r
<1>1. /\ exec[e].pc = "get" /\ UNCHANGED <<env, purchase, due, bankVars>>
      /\ req' = req
  BY DEF GetStatus
<1>2. /\ r \in Requests /\ TypeOK /\ exec[e] \in Executions
      /\ exec \in [Execs -> Executions] /\ job \in [Requests -> Jobs]
      /\ purchase \in {"credited", "partial_refunded", "refunded"}
  BY <1>1, WorkerTyped
<1>3. RowStep(r)
  BY <1>1, <1>2, SameRow
<1>4. ASSUME NEW view \in Views, job' = job,
             exec' = [exec EXCEPT ![e].pc = "decide", ![e].seen = view]
      PROVE  WorkStep(e) /\ Advance(e)
  <2>1. /\ view \in [status : {"held", "processing", "partial", "returned"},
                      reversed : Nat]
        /\ view.reversed = MoneyBack(shown)
        /\ view.status = "returned" => MoneyBack(shown) = Price
    BY <1>2, ViewFields
  <2>2. /\ exec' \in [Execs -> Executions]
        /\ exec'[e].pc = "decide" /\ exec'[e].r = r /\ exec'[e].seen = view
        /\ \A f \in Execs : f # e => exec'[f] = exec[f]
    BY <1>2, <1>4, <2>1 DEF Executions
  <2>3. /\ asked' = asked /\ shown' = shown
        /\ asked' \in [Requests -> Nat] /\ shown' \in [Requests -> Nat]
        /\ asked[r] <= asked'[r]
    BY <1>1, <1>2 DEF TypeOK
  <2>4. WorkStep(e)
    BY <1>1, <1>2, <1>3, <1>4, <2>2, <2>3 DEF WorkStep, RowStep
  <2>5. Advance(e)
    BY <1>1, <2>1, <2>2 DEF Advance, Asking
  <2> QED
    BY <2>4, <2>5
<1>5. CASE End(e, "retry")
  BY <1>1, <1>2, <1>3, <1>5, EndWorks
<1>6. CASE Goto(e, "park") /\ UNCHANGED job
  BY <1>1, <1>3, <1>6, GoWorks DEF PCs, Quiet
<1> QED
  BY <1>4, <1>5, <1>6 DEF GetStatus

\* What flitt's answer must say before a request counts as refunded.
LEMMA AppliedMeans ==
    ASSUME Flitt, NEW r, NEW view, NEW expected, Applied(r, view, expected)
    PROVE  view.status = "returned" \/ view.reversed >= expected
  BY DEF Applied

\* Decide.
LEMMA DecideWorks ==
    ASSUME RefundInv, Flitt => SeenTrue, NEW e \in Execs, Decide(e)
    PROVE  WorkStep(e) /\ (Flitt => Advance(e))
<1> DEFINE r == exec[e].r
           view == exec[e].seen
           expected == IF Flitt THEN MoneyIn(Counted) ELSE 0
           short == Flitt /\ view.reversed < expected
           next(pc) == [IdleExec EXCEPT !.pc = pc, !.r = r, !.expected = expected]
<1>1. /\ exec[e].pc = "decide" /\ UNCHANGED <<env, purchase, due, bankVars>>
      /\ req' = req
  BY DEF Decide
<1>2. /\ r \in Requests /\ TypeOK /\ exec[e] \in Executions
      /\ exec \in [Execs -> Executions] /\ job \in [Requests -> Jobs]
      /\ purchase \in {"credited", "partial_refunded", "refunded"}
  BY <1>1, WorkerTyped
<1>3. RowStep(r)
  BY <1>1, <1>2, SameRow
<1>4. expected \in Nat /\ (Flitt => expected = MoneyIn(Counted))
  BY <1>2, MoneyInNat
<1>5. /\ Flitt => /\ view.reversed <= MoneyBack(asked)
                  /\ view.status = "returned" => Price <= MoneyBack(asked)
      /\ view.reversed \in Nat
  BY <1>1, <1>2 DEF SeenTrue, Executions
<1>6. MoneyBack(asked) \in Nat
  BY <1>2, MoneyBackSum DEF TypeOK
<1>7. Flitt /\ Applied(r, view, expected) =>
          Price <= MoneyBack(asked) \/ MoneyIn(Counted) <= MoneyBack(asked)
  <2> SUFFICES ASSUME Flitt, Applied(r, view, expected)
               PROVE  Price <= MoneyBack(asked) \/ MoneyIn(Counted) <= MoneyBack(asked)
    OBVIOUS
  <2>1. view.status = "returned" \/ view.reversed >= expected
    BY AppliedMeans
  <2> HIDE DEF expected, view
  <2> QED
    BY <1>4, <1>5, <1>6, <2>1
<1>8. ASSUME NEW pc \in {"settle", "park", "post"}, job' = job,
             exec' = [exec EXCEPT ![e] = next(pc)],
             pc = "settle" => Applied(r, view, expected)
      PROVE  WorkStep(e) /\ (Flitt => Advance(e))
  <2> DEFINE n == next(pc)
  <2>1. /\ n \in Executions /\ n.pc = pc /\ n.r = r /\ n.expected = expected
    BY <1>2, <1>4, IdleType DEF IdleExec, Executions
  <2> HIDE DEF n
  <2>2. /\ exec' \in [Execs -> Executions] /\ exec'[e] = n
        /\ \A f \in Execs : f # e => exec'[f] = exec[f]
    BY <1>2, <1>8, <2>1 DEF n
  <2>3. /\ asked' = asked /\ shown' = shown
        /\ asked' \in [Requests -> Nat] /\ shown' \in [Requests -> Nat]
        /\ asked[r] <= asked'[r]
    BY <1>1, <1>2 DEF TypeOK
  <2>4. WorkStep(e)
    BY <1>1, <1>2, <1>3, <1>8, <2>1, <2>2, <2>3 DEF WorkStep, RowStep
  <2>5. ASSUME Flitt PROVE Advance(e)
    <3> HIDE DEF expected, view, r
    <3>1. exec'[e].pc = pc /\ exec'[e].expected = MoneyIn(Counted)
      BY <1>4, <2>1, <2>2, <2>5
    <3>2. pc = "settle" =>
              Price <= MoneyBack(asked) \/ MoneyIn(Counted) <= MoneyBack(asked)
      BY <1>7, <1>8, <2>5
    <3> QED
      BY <1>1, <1>8, <3>1, <3>2 DEF Advance
  <2> QED
    BY <2>4, <2>5
<1>9. CASE End(e, "retry")
  BY <1>1, <1>2, <1>3, <1>9, EndWorks
<1> QED
  BY <1>8, <1>9 DEF Decide

\* AskBank.
LEMMA AskBankWorks ==
    ASSUME RefundInv, NEW e \in Execs, AskBank(e) PROVE WorkStep(e) /\ Advance(e)
<1>1. /\ exec[e].pc = "post" /\ UNCHANGED <<env, purchase, due, job>> /\ req' = req
  BY DEF AskBank
<1>2. RowStep(exec[e].r)
  BY <1>1, WorkerTyped, SameRow
<1>3. Accept(exec[e].r) \/ UNCHANGED bankVars
  BY DEF AskBank
<1>4. ASSUME NEW pc \in {"record", "note", "fail", "park"}, Goto(e, pc)
      PROVE  WorkStep(e) /\ Advance(e)
  <2>1. pc \in Quiet \/ (pc \in Asking /\ exec[e].pc \in Asking)
    BY <1>1 DEF Quiet, Asking
  <2> QED
    BY <1>1, <1>2, <1>3, <1>4, <2>1, GoWorks DEF PCs
<1> QED
  BY <1>4 DEF AskBank

\* RecordReference.
LEMMA RecordWorks ==
    ASSUME RefundInv, NEW e \in Execs, RecordReference(e)
    PROVE  WorkStep(e) /\ Advance(e)
<1> DEFINE new == [req[exec[e].r] EXCEPT !.reference = TRUE]
<1>1. /\ exec[e].pc = "record" /\ UNCHANGED <<env, purchase, due, job, bankVars>>
      /\ Goto(e, "check") /\ Update(exec[e].r, {"processing"}, new)
  BY DEF RecordReference
<1>2. exec[e].r \in Requests /\ req[exec[e].r] \in Rows /\ TypeOK
  BY <1>1, WorkerTyped
<1>3. /\ new \in Rows /\ new.amount = req[exec[e].r].amount
      /\ new.status = req[exec[e].r].status
  BY <1>2 DEF Rows
<1> HIDE DEF new
<1>4. RowStep(exec[e].r) /\ (\/ req'[exec[e].r] = req[exec[e].r]
                            \/ req'[exec[e].r] = new)
  BY <1>1, <1>2, <1>3, UpdateKeeps DEF Running
<1>5. req'[exec[e].r].status = "refunded" => req[exec[e].r].status = "refunded"
  BY <1>3, <1>4
<1> QED
  BY <1>1, <1>4, <1>5, GoWorks DEF PCs, Asking

\* NoteAttempt.
LEMMA NoteWorks ==
    ASSUME RefundInv, NEW e \in Execs, NoteAttempt(e)
    PROVE  WorkStep(e) /\ Advance(e)
<1> DEFINE new == [req[exec[e].r] EXCEPT !.note = "attempt"]
<1>1. /\ exec[e].pc = "note" /\ UNCHANGED <<env, purchase, due, job, bankVars>>
      /\ Goto(e, "recheck") /\ Update(exec[e].r, {"processing"}, new)
  BY DEF NoteAttempt
<1>2. exec[e].r \in Requests /\ req[exec[e].r] \in Rows /\ TypeOK
  BY <1>1, WorkerTyped
<1>3. /\ new \in Rows /\ new.amount = req[exec[e].r].amount
      /\ new.status = req[exec[e].r].status
  BY <1>2 DEF Rows
<1> HIDE DEF new
<1>4. RowStep(exec[e].r) /\ (\/ req'[exec[e].r] = req[exec[e].r]
                            \/ req'[exec[e].r] = new)
  BY <1>1, <1>2, <1>3, UpdateKeeps DEF Running
<1>5. req'[exec[e].r].status = "refunded" => req[exec[e].r].status = "refunded"
  BY <1>3, <1>4
<1> QED
  BY <1>1, <1>4, <1>5, GoWorks DEF PCs, Asking

\* A refund the bank shows to be enough, is.
LEMMA ViewCovers ==
    ASSUME RefundInv, Flitt, NEW e \in Execs, exec[e].pc # "idle",
           NEW view \in Views, Applied(exec[e].r, view, exec[e].expected)
    PROVE  exec[e].expected <= MoneyBack(asked) \/ Price <= MoneyBack(asked)
<1>1. TypeOK /\ ShownAsked /\ exec[e].expected \in Nat
  BY WorkerTyped DEF RefundInv, Executions
<1>2. /\ view.reversed = MoneyBack(shown)
      /\ view.status = "returned" => MoneyBack(shown) = Price
  BY <1>1, ViewFields
<1>3. MoneyBack(shown) <= MoneyBack(asked)
  BY <1>1, ShownBelow
<1>4. view.status = "returned" \/ view.reversed >= exec[e].expected
  BY AppliedMeans
<1>5. MoneyBack(asked) \in Nat /\ MoneyBack(shown) \in Nat
  BY <1>1, MoneyBackSum DEF TypeOK
<1> QED
  BY <1>1, <1>2, <1>3, <1>4, <1>5, ConstantsAssumption

\* Recheck and Check.
LEMMA ReadWorks ==
    ASSUME RefundInv, NEW e \in Execs, Recheck(e) \/ Check(e)
    PROVE  WorkStep(e) /\ (Flitt => Advance(e))
<1>1. /\ exec[e].pc \in {"recheck", "check"} /\ UNCHANGED <<env, purchase, due, bankVars>>
      /\ req' = req
  BY DEF Recheck, Check
<1>2. /\ exec[e].r \in Requests /\ TypeOK
      /\ purchase \in {"credited", "partial_refunded", "refunded"}
  BY <1>1, WorkerTyped
<1>3. RowStep(exec[e].r)
  BY <1>1, <1>2, SameRow
<1>4. ASSUME NEW view \in Views, Applied(exec[e].r, view, exec[e].expected),
             Goto(e, "settle"), UNCHANGED job
      PROVE  WorkStep(e) /\ (Flitt => Advance(e))
  <2>1. Flitt => exec[e].expected <= MoneyBack(asked) \/ Price <= MoneyBack(asked)
    BY <1>1, <1>4, ViewCovers
  <2> QED
    BY <1>1, <1>3, <1>4, <2>1, GoWorks DEF PCs, Asking
<1>5. ASSUME NEW pc \in {"park", "park_marked", "await"}, Goto(e, pc), UNCHANGED job
      PROVE  WorkStep(e) /\ Advance(e)
  BY <1>1, <1>3, <1>5, GoWorks DEF PCs, Quiet
<1>6. CASE End(e, "retry")
  BY <1>1, <1>2, <1>3, <1>6, EndWorks
<1>7. CASE Recheck(e)
  BY <1>4, <1>5, <1>6, <1>7 DEF Recheck
<1>8. CASE Check(e)
  BY <1>4, <1>5, <1>6, <1>8 DEF Check
<1> QED
  BY <1>7, <1>8

\* AwaitStatus.
LEMMA AwaitWorks ==
    ASSUME RefundInv, NEW e \in Execs, AwaitStatus(e)
    PROVE  WorkStep(e) /\ Advance(e)
<1> DEFINE new == [req[exec[e].r] EXCEPT !.reference = TRUE, !.note = "attempt"]
<1>1. /\ exec[e].pc = "await" /\ UNCHANGED <<env, purchase, due, bankVars>>
      /\ End(e, "retry") /\ Update(exec[e].r, {"processing"}, new)
  BY DEF AwaitStatus
<1>2. /\ exec[e].r \in Requests /\ req[exec[e].r] \in Rows /\ TypeOK
      /\ purchase \in {"credited", "partial_refunded", "refunded"}
  BY <1>1, WorkerTyped
<1>3. /\ new \in Rows /\ new.amount = req[exec[e].r].amount
      /\ new.status = req[exec[e].r].status
  BY <1>2 DEF Rows
<1> HIDE DEF new
<1>4. RowStep(exec[e].r) /\ (\/ req'[exec[e].r] = req[exec[e].r]
                            \/ req'[exec[e].r] = new)
  BY <1>1, <1>2, <1>3, UpdateKeeps DEF Running
<1>5. req'[exec[e].r].status = "refunded" => req[exec[e].r].status = "refunded"
  BY <1>3, <1>4
<1> QED
  BY <1>1, <1>2, <1>4, <1>5, EndWorks

\* MarkRefunded.
LEMMA RefundWorks ==
    ASSUME RefundInv, NEW e \in Execs, MarkRefunded(e)
    PROVE  WorkStep(e) /\ Advance(e)
<1> DEFINE new == [req[exec[e].r] EXCEPT !.status = "refunded",
                                         !.reference = TRUE, !.note = "none"]
<1>1. exec[e].pc = "settle" /\ UNCHANGED <<env, due, bankVars>>
  BY DEF MarkRefunded
<1>2. /\ exec[e].r \in Requests /\ req[exec[e].r] \in Rows /\ TypeOK
      /\ purchase \in {"credited", "partial_refunded", "refunded"}
  BY <1>1, WorkerTyped
<1>3. CASE Update(exec[e].r, Running, new) /\ End(e, "ok")
           /\ purchase' \in {"credited", "partial_refunded", "refunded"}
  <2>1. new \in Rows /\ new.amount = req[exec[e].r].amount /\ new.status = "refunded"
    BY <1>2 DEF Rows
  <2> HIDE DEF new
  <2>2. /\ RowStep(exec[e].r)
        /\ \/ req'[exec[e].r] = req[exec[e].r]
           \/ req[exec[e].r].status \in Running
    BY <1>2, <1>3, <2>1, UpdateKeeps
  <2> QED
    BY <1>1, <1>3, <2>2, EndWorks
<1>4. CASE Goto(e, "park") /\ UNCHANGED <<purchase, req, job>>
  <2>1. RowStep(exec[e].r)
    BY <1>2, <1>4, SameRow
  <2> QED
    BY <1>1, <1>4, <2>1, GoWorks DEF PCs, Quiet
<1>5. \/ Update(exec[e].r, Running, new) /\ End(e, "ok")
         /\ purchase' \in {"credited", "partial_refunded", "refunded"}
      \/ Goto(e, "park") /\ UNCHANGED <<purchase, req, job>>
  BY DEF MarkRefunded
<1> QED
  BY <1>3, <1>4, <1>5

\* MarkNeedsReview and MarkFailed.
LEMMA ParkWorks ==
    ASSUME RefundInv, NEW e \in Execs, MarkNeedsReview(e) \/ MarkFailed(e)
    PROVE  WorkStep(e) /\ Advance(e)
<1> DEFINE new(s, n) == [req[exec[e].r] EXCEPT !.status = s, !.note = n]
<1>1. /\ exec[e].pc \in {"park", "park_marked", "fail"}
      /\ UNCHANGED <<env, purchase, due, bankVars>> /\ End(e, "ok")
  BY DEF MarkNeedsReview, MarkFailed
<1>2. PICK s \in {"needs_review", "failed"}, n \in {"other", "attempt"} :
          Update(exec[e].r, Running, new(s, n))
  <2>1. CASE MarkNeedsReview(e) /\ exec[e].pc = "park"
    BY <2>1 DEF MarkNeedsReview
  <2>2. CASE MarkNeedsReview(e) /\ exec[e].pc # "park"
    BY <2>2 DEF MarkNeedsReview
  <2>3. CASE MarkFailed(e)
    BY <2>3 DEF MarkFailed
  <2> QED
    BY <2>1, <2>2, <2>3
<1>3. /\ exec[e].r \in Requests /\ req[exec[e].r] \in Rows /\ TypeOK
      /\ purchase \in {"credited", "partial_refunded", "refunded"}
  BY <1>1, WorkerTyped
<1> DEFINE q == new(s, n)
<1>4. q \in Rows /\ q.amount = req[exec[e].r].amount /\ q.status = s
  BY <1>3 DEF Rows
<1>5. Update(exec[e].r, Running, q)
  BY <1>2
<1> HIDE DEF q
<1>6. /\ RowStep(exec[e].r)
      /\ \/ req'[exec[e].r] = req[exec[e].r]
         \/ req'[exec[e].r] = q
  BY <1>3, <1>4, <1>5, UpdateKeeps
<1>7. req'[exec[e].r].status = "refunded" => req[exec[e].r].status = "refunded"
  BY <1>4, <1>6
<1> QED
  BY <1>1, <1>3, <1>6, <1>7, EndWorks

\* DatabaseError.
LEMMA DatabaseErrorWorks ==
    ASSUME RefundInv, NEW e \in Execs, DatabaseError(e)
    PROVE  WorkStep(e) /\ Advance(e)
<1>1. /\ exec[e].pc # "idle" /\ UNCHANGED <<env, purchase, due, bankVars>>
      /\ req' = req
  BY DEF DatabaseError
<1>2. RowStep(exec[e].r) /\ purchase \in {"credited", "partial_refunded", "refunded"}
  BY <1>1, WorkerTyped, SameRow
<1>3. CASE Goto(e, "park") /\ UNCHANGED job
  BY <1>1, <1>2, <1>3, GoWorks DEF PCs, Quiet
<1>4. CASE End(e, "retry")
  BY <1>1, <1>2, <1>4, EndWorks
<1> QED
  BY <1>3, <1>4 DEF DatabaseError

\* A job that lost its worker has a type.
LEMMA RedeliveredType ==
    ASSUME TypeOK, NEW r \in Requests
    PROVE  /\ Redelivered(r) \in [Requests -> Jobs]
           /\ Redelivered(r)[r].state \in {"waiting", "failed"}
           /\ \A q \in Requests : q # r => Redelivered(r)[q] = job[q]
<1> DEFINE s == IF job[r].stalls < MaxStalls THEN "waiting" ELSE "failed"
<1>1. s \in {"waiting", "failed"}
  OBVIOUS
<1>2. Redelivered(r) =
        [job EXCEPT ![r].owner = NoExec, ![r].stalls = @ + 1, ![r].state = s]
  BY DEF Redelivered
<1> HIDE DEF s
<1> QED
  BY <1>1, <1>2 DEF TypeOK, Jobs

\* Crash.
LEMMA CrashWorks ==
    ASSUME RefundInv, NEW e \in Execs, Crash(e) PROVE WorkStep(e) /\ Advance(e)
<1>1. /\ exec[e].pc # "idle" /\ UNCHANGED <<env, purchase, due, bankVars>>
      /\ req' = req /\ exec' = [exec EXCEPT ![e] = IdleExec]
      /\ job' = IF job[exec[e].r].owner = e THEN Redelivered(exec[e].r) ELSE job
  BY DEF Crash
<1>2. /\ exec[e].r \in Requests /\ TypeOK /\ RowStep(exec[e].r)
      /\ purchase \in {"credited", "partial_refunded", "refunded"}
      /\ exec \in [Execs -> Executions] /\ job \in [Requests -> Jobs]
  BY <1>1, WorkerTyped, SameRow
<1>3. /\ job' \in [Requests -> Jobs]
      /\ \A q \in Requests : q # exec[e].r => job'[q] = job[q]
  BY <1>1, <1>2, RedeliveredType
<1>4. IdleExec \in Executions /\ IdleExec.pc = "idle"
  BY IdleType DEF IdleExec
<1> HIDE DEF IdleExec
<1>5. /\ exec' \in [Execs -> Executions] /\ exec'[e] = IdleExec
      /\ exec'[e].pc = "idle"
      /\ \A f \in Execs : f # e => exec'[f] = exec[f]
  BY <1>1, <1>2, <1>4
<1>6. /\ asked' = asked /\ shown' = shown
      /\ asked' \in [Requests -> Nat] /\ shown' \in [Requests -> Nat]
      /\ asked[exec[e].r] <= asked'[exec[e].r]
  BY <1>1, <1>2 DEF TypeOK
<1>7. WorkStep(e)
  BY <1>1, <1>2, <1>3, <1>5, <1>6 DEF WorkStep, RowStep
<1>8. Advance(e)
  BY <1>1, <1>5 DEF Advance, Asking
<1> QED
  BY <1>7, <1>8

\* The steps of a worker that has a job, and its end.
WorkerStep(e) ==
    \/ Done(e) \/ Claim(e) \/ GetStatus(e) \/ Decide(e) \/ AskBank(e)
    \/ RecordReference(e) \/ NoteAttempt(e) \/ Recheck(e) \/ Check(e)
    \/ AwaitStatus(e) \/ MarkRefunded(e) \/ MarkNeedsReview(e) \/ MarkFailed(e)
    \/ DatabaseError(e) \/ Crash(e)

\* Every step of a worker is a WorkStep.
LEMMA WorkerSteps ==
    ASSUME RefundInv, Flitt => SeenTrue, NEW e \in Execs, WorkerStep(e)
    PROVE  WorkStep(e) /\ (Flitt => Advance(e))
  BY DoneWorks, ClaimWorks, GetStatusWorks, DecideWorks, AskBankWorks, RecordWorks,
     NoteWorks, ReadWorks, AwaitWorks, RefundWorks, ParkWorks, DatabaseErrorWorks,
     CrashWorks DEF WorkerStep

-----------------------------------------------------------------------------
(* What a worker's step keeps *)

\* A request that counts is worth no more than all that count.
LEMMA CountedWithin ==
    ASSUME TypeOK, TypeOK', NEW S, S \subseteq Requests, NEW T, T \subseteq Requests,
           S \subseteq T,
           \A r \in S : req'[r].amount = req[r].amount
    PROVE  SumFunctionOnSet(Amount', S) <= SumFunctionOnSet(Amount, T)
<1>1. \A r \in T : Amount[r] \in Nat
  BY AmountsNat
<1>2. \A r \in Requests : Amount'[r] \in Nat /\ Amount'[r] = req'[r].amount
  <2>1. \A r \in Requests : req'[r].amount \in Nat
    BY AmountNat DEF TypeOK, Rows
  <2> QED
    BY <2>1 DEF Amount
<1>3. \A r \in S : Amount'[r] <= Amount[r]
  BY <1>1, <1>2, AmountsNat
<1>4. IsFiniteSet(T)
  BY FS_Subset, ConstantsAssumption
<1>5. \A r \in T : Amount'[r] \in Nat /\ Amount[r] \in Nat
  BY <1>1, <1>2
<1> HIDE DEF Amount
<1> QED
  BY <1>3, <1>4, <1>5, SumGrows

\* Amounts stay numbers.
LEMMA AmountsNatNext ==
    ASSUME TypeOK' PROVE \A r \in Requests : Amount'[r] \in Nat /\ Amount'[r] = req'[r].amount
  BY AmountNat DEF TypeOK, Rows, Amount

\* Money that a set of statuses holds does not grow when requests only leave it.
LEMMA MoneyInFalls ==
    ASSUME TypeOK, TypeOK', NEW s,
           \A r \in Requests : req'[r].status \in s =>
               req[r].status \in s /\ req'[r].amount = req[r].amount
    PROVE  MoneyIn(s)' <= MoneyIn(s)
<1> DEFINE S == {r \in Requests : req'[r].status \in s}
           T == {r \in Requests : req[r].status \in s}
<1>1. S \subseteq Requests /\ T \subseteq Requests /\ S \subseteq T
      /\ \A r \in S : req'[r].amount = req[r].amount
  OBVIOUS
<1>2. MoneyIn(s)' = SumFunctionOnSet(Amount', S)
  BY Zenon DEF MoneyIn, Amount
<1>3. MoneyIn(s) = SumFunctionOnSet(Amount, T)
  BY Zenon DEF MoneyIn, Amount
<1> HIDE DEF S, T
<1> QED
  BY <1>1, <1>2, <1>3, CountedWithin

\* So does the money of some statuses.
LEMMA MoneyInNatNext ==
    ASSUME TypeOK', NEW s PROVE MoneyIn(s)' \in Nat
<1> DEFINE S == {r \in Requests : req'[r].status \in s}
<1>1. IsFiniteSet(S) /\ S \subseteq Requests
  BY FS_Subset, ConstantsAssumption
<1>2. \A r \in S : Amount'[r] \in Nat
  BY <1>1, AmountsNatNext
<1>3. MoneyIn(s)' = SumFunctionOnSet(Amount', S)
  BY Zenon DEF MoneyIn, Amount
<1> HIDE DEF S
<1> QED
  BY <1>1, <1>2, <1>3, SumNat

\* The money that went back only grows, as long as amounts stay and counts
\* grow.
LEMMA MoneyBackGrows ==
    ASSUME TypeOK, TypeOK',
           \A r \in Requests : /\ asked[r] <= asked'[r]
                               /\ req'[r].amount = req[r].amount \/ asked[r] = 0
    PROVE  MoneyBack(asked) <= MoneyBack(asked)'
<1> DEFINE f == [r \in Requests |-> req[r].amount * asked[r]]
           g == [r \in Requests |-> req'[r].amount * asked'[r]]
<1>1. asked \in [Requests -> Nat] /\ asked' \in [Requests -> Nat]
  BY DEF TypeOK
<1>2. ASSUME NEW r \in Requests PROVE f[r] \in Int /\ g[r] \in Int /\ f[r] <= g[r]
  <2>1. /\ req[r].amount \in Nat /\ req'[r].amount \in Nat
        /\ asked'[r] \in Nat /\ asked[r] \in Nat
    BY TypeFields, AmountsNatNext DEF TypeOK
  <2>2. \A a, b, c \in Nat : b <= c => a * b <= a * c /\ a * b \in Nat /\ a * c \in Nat
    OBVIOUS
  <2>3. CASE req'[r].amount = req[r].amount
    BY <2>1, <2>2, <2>3
  <2>4. CASE asked[r] = 0
    <3>1. f[r] = 0
      BY <2>1, <2>4
    <3>2. g[r] \in Nat
      BY <2>1, <2>2
    <3> QED
      BY <3>1, <3>2
  <2> QED
    BY <2>3, <2>4
<1>3. MoneyBack(asked) = SumFunctionOnSet(f, Requests)
  BY <1>1, MoneyBackSum
<1>4. MoneyBack(asked)' = SumFunctionOnSet(g, Requests)
  <2>1. DOMAIN g = Requests
    OBVIOUS
  <2>2. MoneyBack(asked)' = SumFunction(g)
    BY Zenon DEF MoneyBack
  <2> HIDE DEF g
  <2> QED
    BY <2>1, <2>2, Zenon DEF SumFunction
<1> HIDE DEF f, g
<1> QED
  BY <1>2, <1>3, <1>4, SumMonotone, ConstantsAssumption

\* A WorkStep keeps the types.
LEMMA WorkTyped ==
    ASSUME RefundInv, NEW e \in Execs, WorkStep(e) PROVE TypeOK'
  BY DEF RefundInv, TypeOK, WorkStep

\* A WorkStep keeps RefundInv: a worker only moves a request on among the
\* statuses that count, or out of them.
LEMMA WorkKeepsInv ==
    ASSUME RefundInv, NEW e \in Execs, WorkStep(e) PROVE RefundInv'
<1> DEFINE r == exec[e].r
<1>0. r \in Requests /\ TypeOK
  BY WorkerTyped DEF WorkStep
<1>1. TypeOK'
  BY WorkTyped
<1>2. ASSUME NEW q \in Requests
      PROVE  \/ req'[q] = req[q]
             \/ /\ q = r /\ req[q].status \in Running
                /\ req'[q].status \in {"processing", "refunded", "needs_review", "failed"}
                /\ req'[q].amount = req[q].amount
  BY DEF WorkStep
<1>3. EarlyQuiet'
  <2> SUFFICES ASSUME NEW q \in Requests, req'[q].status \in Early
               PROVE  /\ asked'[q] = 0 /\ q \notin due' /\ job'[q].state = "absent"
                      /\ \A f \in Execs : exec'[f].r # q
    BY DEF EarlyQuiet
  <2>1. req'[q] = req[q]
    BY <1>2 DEF Early
  <2>2. /\ asked[q] = 0 /\ q \notin due /\ job[q].state = "absent"
        /\ \A f \in Execs : exec[f].r # q
    BY <2>1 DEF RefundInv, EarlyQuiet
  <2>3. q # r
    BY <2>2
  <2>4. IdleExec.r # q
    BY ConstantsAssumption DEF IdleExec
  <2>5. asked'[q] = 0 /\ q \notin due' /\ job'[q].state = "absent"
    BY <2>2, <2>3 DEF WorkStep
  <2>6. ASSUME NEW f \in Execs PROVE exec'[f].r # q
    <3>1. CASE f = e
      BY <2>3, <2>4, <3>1 DEF WorkStep
    <3>2. CASE f # e
      BY <2>2, <3>2 DEF WorkStep
    <3> QED
      BY <3>1, <3>2
  <2> QED
    BY <2>5, <2>6
<1>4. HasRequest'
  <2> SUFFICES ASSUME NEW f \in Execs, exec'[f].pc # "idle" PROVE exec'[f].r \in Requests
    BY DEF HasRequest
  <2>1. IdleExec.pc = "idle"
    BY DEF IdleExec
  <2>2. CASE f = e
    BY <1>0, <2>1, <2>2 DEF WorkStep
  <2>3. CASE f # e
    BY <2>3 DEF WorkStep, RefundInv, HasRequest
  <2> QED
    BY <2>2, <2>3
<1>5. ShownAsked'
  <2> SUFFICES ASSUME NEW q \in Requests PROVE shown'[q] <= asked'[q]
    BY DEF ShownAsked
  <2>1. asked[q] <= asked'[q] /\ shown[q] <= asked[q]
    BY <1>0, TypeFields DEF WorkStep, RefundInv, ShownAsked
  <2>2. shown[q] \in Nat /\ asked[q] \in Nat /\ asked'[q] \in Nat
    BY <1>0, <1>1 DEF TypeOK
  <2> QED
    BY <2>1, <2>2 DEF WorkStep
<1>6. CountedFits'
  <2>1. \A q \in Requests : req'[q].status \in Counted =>
            req[q].status \in Counted /\ req'[q].amount = req[q].amount
    BY <1>2 DEF Counted, Running
  <2>2. MoneyIn(Counted)' <= MoneyIn(Counted)
    BY <1>0, <1>1, <2>1, MoneyInFalls
  <2>3. MoneyIn(Counted) \in Nat /\ MoneyIn(Counted) <= Price
    BY <1>0, MoneyInNat DEF RefundInv, CountedFits
  <2>4. MoneyIn(Counted)' \in Nat
    BY <1>1, MoneyInNatNext
  <2> QED
    BY <2>2, <2>3, <2>4, ConstantsAssumption DEF CountedFits
<1>7. Amounted'
  <2> SUFFICES ASSUME NEW q \in Requests, req'[q].status \in Counted
               PROVE  req'[q].amount \in Amounts
    BY DEF Amounted
  <2> QED
    BY <1>2 DEF RefundInv, Amounted, Counted, Running
<1> QED
  BY <1>1, <1>3, <1>4, <1>5, <1>6, <1>7 DEF RefundInv

-----------------------------------------------------------------------------
(* Flitt: what is refunded stays within what the bank gave back *)

\* Members count.
LEMMA MembersCounted ==
    ASSUME TypeOK', NEW x
    PROVE  SumFunctionOnSet(Amount', Members(x)') <= MoneyIn(Counted)'
<1> DEFINE S == Members(x)'
           T == {r \in Requests : req'[r].status \in Counted}
<1>1. S \subseteq T /\ IsFiniteSet(T) /\ T \subseteq Requests
  <2>1. T \subseteq Requests
    OBVIOUS
  <2>2. IsFiniteSet(T)
    BY <2>1, FS_Subset, ConstantsAssumption
  <2>3. S \subseteq T
    BY DEF Members, Counted, Running
  <2> QED
    BY <2>1, <2>2, <2>3
<1>2. \A r \in T : Amount'[r] \in Nat
  BY <1>1, AmountsNatNext
<1>3. MoneyIn(Counted)' = SumFunctionOnSet(Amount', T)
  BY Zenon DEF MoneyIn, Amount
<1>4. \A n \in Nat : n <= n
  OBVIOUS
<1> HIDE DEF S, T
<1>5. SumFunctionOnSet(Amount', S) <= SumFunctionOnSet(Amount', T)
  BY <1>1, <1>2, <1>4, SumGrows
<1> QED
  BY <1>3, <1>5 DEF S

\* Their money is a number,
LEMMA MembersNat ==
    ASSUME TypeOK, NEW x PROVE SumFunctionOnSet(Amount, Members(x)) \in Nat
<1> DEFINE S == Members(x)
<1>1. S \subseteq Requests
  BY DEF Members
<1>2. IsFiniteSet(S)
  BY <1>1, FS_Subset, ConstantsAssumption
<1>3. \A r \in S : Amount[r] \in Nat
  BY <1>1, AmountsNat
<1> HIDE DEF S
<1>4. SumFunctionOnSet(Amount, S) \in Nat
  BY <1>2, <1>3, SumNat
<1> QED
  BY <1>4 DEF S

\* and stays one.
LEMMA MembersNatNext ==
    ASSUME TypeOK', NEW x PROVE SumFunctionOnSet(Amount', Members(x)') \in Nat
<1> DEFINE S == Members(x)'
<1>1. S \subseteq Requests
  BY DEF Members
<1>2. IsFiniteSet(S)
  BY <1>1, FS_Subset, ConstantsAssumption
<1>3. \A r \in S : Amount'[r] \in Nat
  BY <1>1, AmountsNatNext
<1> HIDE DEF S
<1>4. SumFunctionOnSet(Amount', S) \in Nat
  BY <1>2, <1>3, SumNat
<1> QED
  BY <1>4 DEF S

\* A step that adds no member, and no money to one, keeps the bound.
LEMMA MembersFall ==
    ASSUME TypeOK, TypeOK', NEW x \in Nat, Members(x)' \subseteq Members(x),
           \A q \in Members(x)' : req'[q].amount = req[q].amount,
           SumFunctionOnSet(Amount, Members(x)) <= x
    PROVE  SumFunctionOnSet(Amount', Members(x)') <= x
<1> DEFINE S == Members(x)'
           T == Members(x)
<1>1. T \subseteq Requests /\ S \subseteq T /\ S \subseteq Requests
  BY DEF Members
<1>2. \A q \in S : req'[q].amount = req[q].amount
  OBVIOUS
<1>3. SumFunctionOnSet(Amount, T) \in Nat /\ SumFunctionOnSet(Amount', S) \in Nat
  BY MembersNat, MembersNatNext
<1>4. SumFunctionOnSet(Amount, T) <= x
  OBVIOUS
<1> HIDE DEF S, T
<1>5. SumFunctionOnSet(Amount', S) <= SumFunctionOnSet(Amount, T)
  BY <1>1, <1>2, CountedWithin
<1>6. SumFunctionOnSet(Amount', S) <= x
  BY <1>3, <1>4, <1>5
<1> QED
  BY <1>6 DEF S

\* The money that went back is a number,
LEMMA BackNat ==
    ASSUME TypeOK PROVE MoneyBack(asked) \in Nat
  BY MoneyBackSum DEF TypeOK

\* and stays one.
LEMMA BackNatNext ==
    ASSUME TypeOK' PROVE MoneyBack(asked)' \in Nat
<1> DEFINE g == [r \in Requests |-> req'[r].amount * asked'[r]]
<1>1. \A r \in Requests : g[r] \in Nat
  BY AmountsNatNext DEF TypeOK
<1>2. DOMAIN g = Requests
  OBVIOUS
<1>3. MoneyBack(asked)' = SumFunction(g)
  BY Zenon DEF MoneyBack
<1> HIDE DEF g
<1>4. SumFunction(g) = SumFunctionOnSet(g, Requests)
  BY <1>2, Zenon DEF SumFunction
<1> QED
  BY <1>1, <1>3, <1>4, SumNat, ConstantsAssumption

\* A WorkStep never takes money from the customer.
LEMMA WorkGrowsBack ==
    ASSUME RefundInv, NEW e \in Execs, WorkStep(e)
    PROVE  /\ MoneyBack(asked) <= MoneyBack(asked)'
           /\ MoneyBack(asked) \in Nat /\ MoneyBack(asked)' \in Nat
           /\ \A q \in Requests : req'[q].amount = req[q].amount
<1>1. TypeOK /\ TypeOK'
  BY WorkTyped DEF RefundInv
<1>2. \A q \in Requests : req'[q].amount = req[q].amount
  BY DEF WorkStep
<1>3. \A q \in Requests : asked[q] <= asked'[q]
  <2> TAKE q \in Requests
  <2>1. asked[q] \in Nat
    BY <1>1, TypeFields
  <2> QED
    BY <2>1 DEF WorkStep
<1> QED
  BY <1>1, <1>2, <1>3, MoneyBackGrows, BackNat, BackNatNext

\* A WorkStep keeps Covered. Only Decide can make a member: it either settles
\* on what the bank has shown, or goes on asking until the bank shows the sum
\* of all requests that count, which no member exceeds.
LEMMA WorkKeepsCovered ==
    ASSUME RefundInv, Covered, NEW e \in Execs, WorkStep(e), Advance(e)
    PROVE  Covered'
<1> DEFINE B == MoneyBack(asked)
<1>1. /\ TypeOK /\ TypeOK' /\ RefundInv'
      /\ B \in Nat /\ B' \in Nat /\ B <= B'
      /\ \A q \in Requests : req'[q].amount = req[q].amount
  BY WorkKeepsInv, WorkGrowsBack DEF RefundInv
<1> SUFFICES ASSUME NEW x \in Nat, B' <= x
             PROVE  SumFunctionOnSet(Amount', Members(x)') <= x
  BY DEF Covered
<1>2. B <= x /\ SumFunctionOnSet(Amount, Members(x)) <= x
  BY <1>1 DEF Covered
<1>3. MoneyIn(Counted) \in Nat /\ MoneyIn(Counted)' \in Nat
  BY <1>1, MoneyInNat, MoneyInNatNext
<1>4. /\ SumFunctionOnSet(Amount', Members(x)') \in Nat
      /\ SumFunctionOnSet(Amount', Members(x)') <= MoneyIn(Counted)'
  BY <1>1, MembersNatNext, MembersCounted
<1>5. CASE Price <= x
  <2>1. MoneyIn(Counted)' <= Price
    BY <1>1 DEF RefundInv, CountedFits
  <2> QED
    BY <1>3, <1>4, <1>5, <2>1, ConstantsAssumption
<1>6. CASE MoneyIn(Counted) <= x
  <2>1. MoneyIn(Counted)' <= MoneyIn(Counted)
    <3>1. \A q \in Requests : req'[q].status \in Counted =>
              req[q].status \in Counted /\ req'[q].amount = req[q].amount
      BY DEF WorkStep, Counted, Running
    <3> QED
      BY <1>1, <3>1, MoneyInFalls
  <2> QED
    BY <1>3, <1>4, <1>6, <2>1
<1>7. CASE ~(Price <= x) /\ ~(MoneyIn(Counted) <= x)
  <2>1. ~(Price <= B) /\ ~(MoneyIn(Counted) <= B)
    BY <1>1, <1>2, <1>3, <1>7, ConstantsAssumption
  <2>2. ASSUME NEW q \in Members(x)' PROVE q \in Members(x)
    <3>1. q \in Requests
      BY DEF Members
    <3>2. \/ req'[q] = req[q]
          \/ q = exec[e].r /\ req[q].status \in Running
      BY <3>1 DEF WorkStep
    <3>3. CASE req'[q].status = "refunded"
      <4>1. \/ req[q].status = "refunded"
            \/ /\ q = exec[e].r /\ req[q].status \in Running
               /\ exec[e].pc = "settle"
        BY <3>2, <3>3 DEF Advance
      <4> QED
        BY <3>1, <4>1 DEF Members
    <3>4. CASE req'[q].status # "refunded"
      <4>1. PICK f \in Execs :
               /\ exec'[f].r = q
               /\ \/ exec'[f].pc = "settle"
                  \/ exec'[f].pc \in Asking /\ exec'[f].expected <= x
        BY <3>4 DEF Members
      <4>2. req[q].status \in Running
        BY <3>2, <3>4 DEF Members
      <4>3. CASE f # e
        <5>1. exec'[f] = exec[f]
          BY <4>3 DEF WorkStep
        <5> QED
          BY <3>1, <4>1, <4>2, <5>1 DEF Members
      <4>4. CASE f = e
        <5>1. q = exec[e].r
          <6>1. IdleExec.r # q
            BY <3>1, ConstantsAssumption DEF IdleExec
          <6> QED
            BY <4>1, <4>4, <6>1 DEF WorkStep
        <5>2. \/ exec[e].pc = "settle"
              \/ exec[e].pc \in Asking /\ exec[e].expected <= x
          <6>1. exec[e].expected \in Nat
            BY <1>1 DEF TypeOK, Executions
          <6>2. CASE exec'[e].pc = "settle"
            <7>1. \/ exec[e].pc = "settle"
                  \/ exec[e].pc \in Asking /\ exec[e].expected <= B
              BY <2>1, <6>2 DEF Advance
            <7> QED
              BY <1>1, <1>2, <6>1, <7>1
          <6>3. CASE exec'[e].pc \in Asking /\ exec'[e].expected <= x
            <7>1. \/ exec[e].pc \in Asking /\ exec'[e].expected = exec[e].expected
                  \/ exec'[e].expected = MoneyIn(Counted)
              BY <6>3 DEF Advance
            <7> QED
              BY <1>7, <6>3, <7>1
          <6> QED
            BY <4>1, <4>4, <6>2, <6>3
        <5> QED
          BY <3>1, <4>2, <5>1, <5>2 DEF Members
      <4> QED
        BY <4>3, <4>4
    <3> QED
      BY <3>3, <3>4
  <2>3. \A q \in Members(x)' : req'[q].amount = req[q].amount
    BY <1>1 DEF Members
  <2>4. Members(x)' \subseteq Members(x)
    BY <2>2
  <2> QED
    BY <1>1, <1>2, <2>3, <2>4, MembersFall
<1> QED
  BY <1>5, <1>6, <1>7

\* A WorkStep keeps SeenTrue, since money only goes back.
LEMMA WorkKeepsSeen ==
    ASSUME RefundInv, SeenTrue, NEW e \in Execs, WorkStep(e), Advance(e)
    PROVE  SeenTrue'
<1>1. /\ TypeOK /\ TypeOK' /\ ShownAsked
      /\ MoneyBack(asked) \in Nat /\ MoneyBack(asked)' \in Nat
      /\ MoneyBack(asked) <= MoneyBack(asked)'
  BY WorkTyped, WorkGrowsBack DEF RefundInv
<1>2. MoneyBack(shown) <= MoneyBack(asked) /\ MoneyBack(shown) \in Nat
  BY <1>1, ShownBelow, MoneyBackSum DEF TypeOK
<1> SUFFICES ASSUME NEW f \in Execs, exec'[f].pc = "decide"
             PROVE  /\ exec'[f].seen.reversed <= MoneyBack(asked)'
                    /\ exec'[f].seen.status = "returned" => Price <= MoneyBack(asked)'
  BY DEF SeenTrue
<1>3. exec'[f] \in Executions
  BY <1>1 DEF TypeOK
<1>4. exec'[f].seen.reversed \in Nat
  BY <1>3 DEF Executions
<1>5. CASE exec'[f] = exec[f]
  <2>1. /\ exec'[f].seen.reversed <= MoneyBack(asked)
        /\ exec'[f].seen.status = "returned" => Price <= MoneyBack(asked)
    BY <1>5 DEF SeenTrue
  <2> QED
    BY <1>1, <1>4, <2>1, ConstantsAssumption
<1>6. CASE exec'[f] # exec[f]
  <2>1. f = e
    BY <1>6 DEF WorkStep
  <2>2. /\ exec'[f].seen.reversed = MoneyBack(shown)
        /\ exec'[f].seen.status = "returned" => MoneyBack(shown) = Price
    BY <1>6, <2>1 DEF Advance
  <2> QED
    BY <1>1, <1>2, <2>2, ConstantsAssumption
<1> QED
  BY <1>5, <1>6

-----------------------------------------------------------------------------
(* The other steps *)

\* A request that no worker has and the bank has not heard of, whose row a step
\* changes.
Untouched(q) ==
    /\ asked[q] = 0 /\ req'[q].status # "refunded"
    /\ \A f \in Execs : exec[f].r # q

\* A step beside the workers: the bank is not asked, a row changes only while
\* no worker has it, and a worker's place only at a start.
LEMMA SideKeepsFlitt ==
    ASSUME RefundInv, RefundInv', SeenTrue, Covered, asked' = asked,
           \A f \in Execs : \/ exec'[f] = exec[f]
                           \/ exec'[f].pc \in {"claim", "get", "done"},
           \A q \in Requests : req'[q] = req[q] \/ Untouched(q)
    PROVE  SeenTrue' /\ Covered'
<1>1. /\ TypeOK /\ TypeOK'
      /\ MoneyBack(asked) \in Nat /\ MoneyBack(asked)' \in Nat
      /\ MoneyBack(asked) <= MoneyBack(asked)'
  <2>1. TypeOK /\ TypeOK'
    BY DEF RefundInv
  <2>2. ASSUME NEW q \in Requests PROVE asked[q] <= asked'[q]
    <3>1. asked[q] \in Nat
      BY <2>1, TypeFields
    <3> QED
      BY <3>1
  <2>3. \A q \in Requests : req'[q].amount = req[q].amount \/ asked[q] = 0
    BY DEF Untouched
  <2> QED
    BY <2>1, <2>2, <2>3, MoneyBackGrows, BackNat, BackNatNext
<1>2. SeenTrue'
  <2> SUFFICES ASSUME NEW f \in Execs, exec'[f].pc = "decide"
               PROVE  /\ exec'[f].seen.reversed <= MoneyBack(asked)'
                      /\ exec'[f].seen.status = "returned" => Price <= MoneyBack(asked)'
    BY DEF SeenTrue
  <2>1. exec'[f] = exec[f]
    OBVIOUS
  <2>2. exec[f].seen.reversed \in Nat
    BY <1>1 DEF TypeOK, Executions
  <2>3. /\ exec[f].seen.reversed <= MoneyBack(asked)
        /\ exec[f].seen.status = "returned" => Price <= MoneyBack(asked)
    BY <2>1 DEF SeenTrue
  <2> QED
    BY <1>1, <2>1, <2>2, <2>3, ConstantsAssumption
<1>3. Covered'
  <2> SUFFICES ASSUME NEW x \in Nat, MoneyBack(asked)' <= x
               PROVE  SumFunctionOnSet(Amount', Members(x)') <= x
    BY DEF Covered
  <2>1. MoneyBack(asked) <= x
    BY <1>1
  <2>2. SumFunctionOnSet(Amount, Members(x)) <= x
    BY <2>1 DEF Covered
  <2>3. ASSUME NEW q \in Members(x)'
        PROVE  q \in Members(x) /\ req'[q].amount = req[q].amount
    <3>1. q \in Requests
      BY DEF Members
    <3>2. CASE req'[q].status = "refunded"
      BY <3>1, <3>2 DEF Members, Untouched
    <3>3. CASE req'[q].status # "refunded"
      <4>1. PICK f \in Execs :
               /\ exec'[f].r = q
               /\ \/ exec'[f].pc = "settle"
                  \/ exec'[f].pc \in Asking /\ exec'[f].expected <= x
        BY <3>3 DEF Members
      <4>2. exec'[f] = exec[f]
        BY <4>1 DEF Asking
      <4>3. req'[q] = req[q]
        BY <3>1, <4>1, <4>2 DEF Untouched
      <4>4. req[q].status \in Running
        BY <3>3, <4>3 DEF Members
      <4> QED
        BY <3>1, <4>1, <4>2, <4>3, <4>4 DEF Members
    <3> QED
      BY <3>2, <3>3
  <2>4. Members(x)' \subseteq Members(x)
    BY <2>3
  <2> QED
    BY <1>1, <2>2, <2>3, <2>4, MembersFall
<1> QED
  BY <1>2, <1>3

\* What EarlyQuiet says of one request.
LEMMA EarlyMeans ==
    ASSUME RefundInv, NEW r \in Requests, req[r].status \in Early
    PROVE  /\ asked[r] = 0 /\ r \notin due /\ job[r].state = "absent"
           /\ \A e \in Execs : exec[e].r # r
  BY DEF RefundInv, EarlyQuiet

\* A request that is opened, rejected or parked by an admin.
LEMMA RowMoves ==
    ASSUME RefundInv, NEW r \in Requests, req[r].status \in Early,
           NEW s \in Early \cup {"needs_review"},
           req' = [req EXCEPT ![r].status = s],
           UNCHANGED <<apiVars, purchase, due>>
    PROVE  /\ RefundInv'
           /\ \A q \in Requests : req'[q] = req[q] \/ Untouched(q)
<1>1. /\ TypeOK /\ req \in [Requests -> Rows] /\ req[r] \in Rows
  BY DEF RefundInv, TypeOK
<1>2. /\ req' \in [Requests -> Rows]
      /\ req'[r].status = s /\ req'[r].amount = req[r].amount
      /\ \A q \in Requests : q # r => req'[q] = req[q]
  BY <1>1 DEF Rows, Early
<1>3. /\ asked[r] = 0 /\ r \notin due /\ job[r].state = "absent"
      /\ \A e \in Execs : exec[e].r # r
  BY EarlyMeans
<1>4. TypeOK'
  BY <1>1, <1>2 DEF TypeOK
<1>5. EarlyQuiet' /\ HasRequest' /\ ShownAsked'
  <2>1. HasRequest' /\ ShownAsked'
    BY DEF RefundInv, HasRequest, ShownAsked
  <2>2. ASSUME NEW q \in Requests, req'[q].status \in Early
        PROVE  /\ asked[q] = 0 /\ q \notin due /\ job[q].state = "absent"
               /\ \A e \in Execs : exec[e].r # q
    BY <1>2, <1>3, <2>2, EarlyMeans
  <2> QED
    BY <2>1, <2>2 DEF EarlyQuiet
<1>6. \A q \in Requests : req'[q].status \in Counted =>
          req[q].status \in Counted /\ req'[q].amount = req[q].amount
  BY <1>2 DEF Counted, Early
<1>7. CountedFits'
  <2>1. MoneyIn(Counted)' <= MoneyIn(Counted)
    BY <1>1, <1>4, <1>6, MoneyInFalls
  <2>2. MoneyIn(Counted) \in Nat /\ MoneyIn(Counted)' \in Nat
    BY <1>1, <1>4, MoneyInNat, MoneyInNatNext
  <2> QED
    BY <2>1, <2>2, ConstantsAssumption DEF RefundInv, CountedFits
<1>8. Amounted'
  BY <1>6 DEF RefundInv, Amounted
<1>9. RefundInv'
  BY <1>4, <1>5, <1>7, <1>8 DEF RefundInv
<1>10. ASSUME NEW q \in Requests
       PROVE  req'[q] = req[q] \/ Untouched(q)
  BY <1>2, <1>3 DEF Early, Untouched
<1> QED
  BY <1>9, <1>10

\* An approval grants what fits beside the requests that count.
LEMMA ApproveFits ==
    ASSUME RefundInv, NEW r \in Requests, req[r].status = "requested",
           NEW a \in Amounts, a <= Price - MoneyIn(Counted),
           req' = [req EXCEPT ![r].status = "approved", ![r].amount = a],
           due' = due \cup {r}, UNCHANGED <<apiVars, purchase>>
    PROVE  /\ RefundInv'
           /\ \A q \in Requests : req'[q] = req[q] \/ Untouched(q)
<1>1. /\ TypeOK /\ req \in [Requests -> Rows] /\ req[r] \in Rows
  BY DEF RefundInv, TypeOK
<1>2. /\ req' \in [Requests -> Rows]
      /\ req'[r].status = "approved" /\ req'[r].amount = a
      /\ \A q \in Requests : q # r => req'[q] = req[q]
  BY <1>1 DEF Rows
<1>3. /\ asked[r] = 0 /\ r \notin due /\ job[r].state = "absent"
      /\ \A e \in Execs : exec[e].r # r
  BY EarlyMeans DEF Early
<1>4. TypeOK'
  BY <1>1, <1>2 DEF TypeOK
<1>5. EarlyQuiet' /\ HasRequest' /\ ShownAsked'
  <2>1. HasRequest' /\ ShownAsked'
    BY DEF RefundInv, HasRequest, ShownAsked
  <2>2. ASSUME NEW q \in Requests, req'[q].status \in Early
        PROVE  /\ asked[q] = 0 /\ q \notin due' /\ job[q].state = "absent"
               /\ \A e \in Execs : exec[e].r # q
    <3>1. q # r
      BY <1>2, <2>2 DEF Early
    <3> QED
      BY <1>2, <2>2, <3>1, EarlyMeans
  <2> QED
    BY <2>1, <2>2 DEF EarlyQuiet
<1>6. CountedFits'
  <2> DEFINE S == {q \in Requests : req[q].status \in Counted}
             T == {q \in Requests : req'[q].status \in Counted}
  <2>1. S \subseteq Requests /\ T = S \cup {r} /\ r \notin S
    BY <1>2 DEF Counted
  <2>2. IsFiniteSet(S)
    BY <2>1, FS_Subset, ConstantsAssumption
  <2>3. \A q \in Requests : Amount[q] \in Nat /\ Amount'[q] \in Nat
    BY <1>1, <1>4, AmountsNat, AmountsNatNext
  <2>4. Amount'[r] = a /\ \A q \in S : Amount'[q] = Amount[q]
    BY <1>2, <2>1 DEF Amount
  <2>5. MoneyIn(Counted) = SumFunctionOnSet(Amount, S)
    BY MoneyInSum
  <2>6. MoneyIn(Counted)' = SumFunctionOnSet(Amount', T)
    BY Zenon DEF MoneyIn, Amount
  <2>7. MoneyIn(Counted) \in Nat /\ a \in Nat
    BY <1>1, MoneyInNat, ConstantsAssumption
  <2> HIDE DEF S, T, Amount
  <2>8. SumFunctionOnSet(Amount', S) = SumFunctionOnSet(Amount, S)
    BY <2>2, <2>4, SumSame
  <2>9. \A q \in S \cup {r} : Amount'[q] \in Int
    BY <2>1, <2>3
  <2>10. SumFunctionOnSet(Amount', S \cup {r})
           = SumFunctionOnSet(Amount', S) + Amount'[r]
    BY <2>1, <2>2, <2>9, SumAdd
  <2>11. MoneyIn(Counted)' = MoneyIn(Counted) + a
    BY <2>1, <2>4, <2>5, <2>6, <2>8, <2>10
  <2> QED
    BY <2>7, <2>11, ConstantsAssumption DEF CountedFits
<1>7. Amounted'
  BY <1>2 DEF RefundInv, Amounted
<1>8. RefundInv'
  BY <1>4, <1>5, <1>6, <1>7 DEF RefundInv
<1> QED
  BY <1>2, <1>3, <1>8 DEF Untouched

\* Steps of the queue and of the bank, which leave the rows alone.
LEMMA QueueKeepsInv ==
    ASSUME RefundInv, req' = req, UNCHANGED <<env, purchase, asked>>,
           due' \subseteq due, job' \in [Requests -> Jobs],
           exec' \in [Execs -> Executions], shown' = shown \/ shown' = asked,
           \A q \in Requests : \/ job'[q].state = job[q].state
                              \/ job'[q].state = "absent"
                              \/ req[q].status \notin Early,
           \A f \in Execs : \/ exec'[f] = exec[f]
                           \/ /\ exec'[f].r \in Requests
                              /\ req[exec'[f].r].status \notin Early
    PROVE  RefundInv'
<1>1. TypeOK' /\ TypeOK
  BY DEF RefundInv, TypeOK
<1>2. EarlyQuiet'
  <2> SUFFICES ASSUME NEW q \in Requests, req[q].status \in Early
               PROVE  /\ asked[q] = 0 /\ q \notin due' /\ job'[q].state = "absent"
                      /\ \A f \in Execs : exec'[f].r # q
    BY DEF EarlyQuiet
  <2>1. /\ asked[q] = 0 /\ q \notin due /\ job[q].state = "absent"
        /\ \A e \in Execs : exec[e].r # q
    BY EarlyMeans
  <2> QED
    BY <2>1
<1>3. HasRequest'
  BY DEF RefundInv, HasRequest
<1>4. ShownAsked'
  <2>1. \A q \in Requests : asked[q] \in Nat /\ shown[q] <= asked[q]
    BY <1>1, TypeFields DEF RefundInv, ShownAsked
  <2> QED
    BY <2>1 DEF ShownAsked
<1>5. CountedFits'
  <2>1. MoneyIn(Counted)' <= MoneyIn(Counted)
    BY <1>1, MoneyInFalls
  <2>2. MoneyIn(Counted) \in Nat /\ MoneyIn(Counted)' \in Nat
    BY <1>1, MoneyInNat, MoneyInNatNext
  <2> QED
    BY <2>1, <2>2, ConstantsAssumption DEF RefundInv, CountedFits
<1>6. Amounted'
  BY DEF RefundInv, Amounted
<1> QED
  BY <1>1, <1>2, <1>3, <1>4, <1>5, <1>6 DEF RefundInv

\* A job that is enqueued has a type.
LEMMA EnqueuedType ==
    ASSUME TypeOK, NEW r \in Requests
    PROVE  /\ Enqueued(r) \in [Requests -> Jobs]
           /\ \A q \in Requests : q # r => Enqueued(r)[q] = job[q]
           /\ Enqueued(r)[r].owner = job[r].owner
           /\ Enqueued(r)[r].state = IF job[r].state \in {"absent", "failed"}
                                     THEN "waiting" ELSE job[r].state
<1> DEFINE s == IF job[r].state \in {"absent", "failed"} THEN "waiting" ELSE job[r].state
<1>1. job \in [Requests -> Jobs] /\ job[r] \in Jobs
  BY DEF TypeOK
<1>2. s \in {"absent", "waiting", "active", "completed", "failed"}
  BY <1>1 DEF Jobs
<1>3. Enqueued(r) = [job EXCEPT ![r].state = s]
  BY <1>1 DEF Enqueued
<1> HIDE DEF s
<1>4. /\ Enqueued(r) \in [Requests -> Jobs]
      /\ \A q \in Requests : q # r => Enqueued(r)[q] = job[q]
      /\ Enqueued(r)[r].owner = job[r].owner /\ Enqueued(r)[r].state = s
  BY <1>1, <1>2, <1>3 DEF Jobs
<1> QED
  BY <1>4 DEF s

\* What a worker begins with.
LEMMA StartFields ==
    ASSUME RefundInv, NEW e \in Execs, NEW r \in Requests, Start(e, r)
    PROVE  /\ exec' \in [Execs -> Executions] /\ job' \in [Requests -> Jobs]
           /\ exec'[e].pc \in {"claim", "get", "done"} /\ exec'[e].r = r
           /\ exec'[e].attempted = Marked(r)
           /\ exec'[e].pc = "get" => req[r].status = "processing"
           /\ \A f \in Execs : f # e => exec'[f] = exec[f]
          /\ job'[r].state = "active" /\ job'[r].owner = e
          /\ \A q \in Requests : q # r => job'[q] = job[q]
<1>1. /\ exec \in [Execs -> Executions] /\ job \in [Requests -> Jobs]
      /\ req[r] \in Rows
  BY DEF RefundInv, TypeOK
<1> DEFINE pc == CASE req[r].status = "approved"   -> "claim"
                   [] req[r].status = "processing" -> "get"
                   [] OTHER -> "done"
           new == [IdleExec EXCEPT !.r = r, !.attempted = Marked(r), !.pc = pc]
<1>2. /\ exec' = [exec EXCEPT ![e] = new]
      /\ job' = [job EXCEPT ![r].state = "active", ![r].owner = e]
  BY DEF Start
<1>3. pc \in {"claim", "get", "done"} /\ (pc = "get" => req[r].status = "processing")
  OBVIOUS
<1>4. Marked(r) \in BOOLEAN
  BY <1>1 DEF Marked, Rows
<1>5. IdleExec \in Executions
  BY IdleType
<1> HIDE DEF pc
<1>6. \A p \in {"claim", "get", "done"}, m \in BOOLEAN :
          LET n == [IdleExec EXCEPT !.r = r, !.attempted = m, !.pc = p]
          IN  n \in Executions /\ n.pc = p /\ n.r = r /\ n.attempted = m
  BY <1>5 DEF IdleExec, Executions
<1>7. new \in Executions /\ new.pc = pc /\ new.r = r /\ new.attempted = Marked(r)
  BY <1>3, <1>4, <1>6
<1> HIDE DEF new
<1>8. /\ exec' \in [Execs -> Executions] /\ exec'[e] = new
      /\ \A f \in Execs : f # e => exec'[f] = exec[f]
  BY <1>1, <1>2, <1>7
<1>9. /\ job' \in [Requests -> Jobs]
      /\ job'[r].state = "active" /\ job'[r].owner = e
      /\ \A q \in Requests : q # r => job'[q] = job[q]
  BY <1>1, <1>2 DEF Jobs
<1> QED
  BY <1>3, <1>7, <1>8, <1>9

\* The steps that are not a worker's own.
OtherStep ==
    \/ \E r \in Requests :
          \/ CreateCheck(r) \/ CreateCommit(r) \/ Reject(r) \/ Approve(r)
          \/ Enqueue(r) \/ Recover(r)
    \/ \E e \in Execs : LoseLock(e) \/ \E r \in Requests : Start(e, r)
    \/ LoseRedis \/ BankSettles

\* Each of the remaining steps is an OtherStep.
LEMMA OtherSteps ==
    ASSUME RefundInv, OtherStep
    PROVE  /\ RefundInv' /\ asked' = asked /\ env' = env
           /\ \A f \in Execs : \/ exec'[f] = exec[f]
                              \/ exec'[f].pc \in {"claim", "get", "done"}
           /\ \A q \in Requests : req'[q] = req[q] \/ Untouched(q)
<1>0. /\ TypeOK /\ job \in [Requests -> Jobs] /\ exec \in [Execs -> Executions]
      /\ shown \in [Requests -> Nat]
  BY DEF RefundInv, TypeOK
<1>1. ASSUME NEW r \in Requests, CreateCheck(r) \/ CreateCommit(r) \/ Reject(r)
      PROVE  /\ RefundInv' /\ UNCHANGED <<env, asked, exec>>
             /\ \A q \in Requests : req'[q] = req[q] \/ Untouched(q)
  <2>1. /\ req[r].status \in Early /\ UNCHANGED <<apiVars, purchase, due>>
        /\ \E s \in Early \cup {"needs_review"} : req' = [req EXCEPT ![r].status = s]
    BY <1>1 DEF CreateCheck, CreateCommit, Reject, Early
  <2> QED
    BY <2>1, RowMoves
<1>2. ASSUME NEW r \in Requests, Approve(r)
      PROVE  /\ RefundInv' /\ UNCHANGED <<env, asked, exec>>
             /\ \A q \in Requests : req'[q] = req[q] \/ Untouched(q)
  <2>1. req[r].status = "requested" /\ UNCHANGED <<apiVars, purchase>>
    BY <1>2 DEF Approve
  <2>2. CASE \E a \in Amounts :
                /\ a <= Price - MoneyIn(Counted)
                /\ req' = [req EXCEPT ![r].status = "approved", ![r].amount = a]
                /\ due' = due \cup {r}
    BY <2>1, <2>2, ApproveFits
  <2>3. CASE req' = [req EXCEPT ![r].status = "needs_review"] /\ due' = due
    BY <2>1, <2>3, RowMoves DEF Early
  <2> QED
    BY <1>2, <2>2, <2>3 DEF Approve
<1>3. ASSUME NEW r \in Requests, Enqueue(r) \/ Recover(r)
      PROVE  RefundInv' /\ UNCHANGED <<env, asked, exec, req>>
  <2>1. /\ UNCHANGED <<env, purchase, req, exec, bankVars>> /\ due' \subseteq due
        /\ job' = Enqueued(r) /\ req[r].status \notin Early
    <3>1. CASE Enqueue(r)
      BY <3>1, EarlyMeans DEF Enqueue
    <3>2. CASE Recover(r)
      BY <3>2 DEF Recover, Early
    <3> QED
      BY <1>3, <3>1, <3>2
  <2>2. /\ job' \in [Requests -> Jobs]
        /\ \A q \in Requests : q # r => job'[q] = job[q]
    BY <1>0, <2>1, EnqueuedType
  <2>3. RefundInv'
    BY <1>0, <2>1, <2>2, QueueKeepsInv
  <2> QED
    BY <2>1, <2>3
<1>4. ASSUME NEW e \in Execs, NEW r \in Requests, Start(e, r)
      PROVE  /\ RefundInv' /\ UNCHANGED <<env, asked, req>>
             /\ \A f \in Execs : \/ exec'[f] = exec[f]
                                \/ exec'[f].pc \in {"claim", "get", "done"}
  <2>1. UNCHANGED <<env, purchase, req, due, bankVars>> /\ job[r].state = "waiting"
    BY <1>4 DEF Start
  <2>2. req[r].status \notin Early
    BY <2>1, EarlyMeans
  <2>3. /\ exec' \in [Execs -> Executions] /\ job' \in [Requests -> Jobs]
        /\ exec'[e].pc \in {"claim", "get", "done"} /\ exec'[e].r = r
        /\ \A f \in Execs : f # e => exec'[f] = exec[f]
        /\ \A q \in Requests : q # r => job'[q] = job[q]
    BY <1>4, StartFields
  <2>4. RefundInv'
    BY <2>1, <2>2, <2>3, QueueKeepsInv
  <2> QED
    BY <2>1, <2>3, <2>4
<1>5. ASSUME NEW e \in Execs, LoseLock(e)
      PROVE  RefundInv' /\ UNCHANGED <<env, asked, req, exec>>
  <2>1. /\ UNCHANGED <<env, purchase, req, due, exec, bankVars>>
        /\ exec[e].pc # "idle" /\ job' = Redelivered(exec[e].r)
    BY <1>5 DEF LoseLock
  <2>2. exec[e].r \in Requests
    BY <2>1, WorkerTyped
  <2>3. req[exec[e].r].status \notin Early
    BY <2>2, EarlyMeans
  <2>4. /\ job' \in [Requests -> Jobs]
        /\ \A q \in Requests : q # exec[e].r => job'[q] = job[q]
    BY <1>0, <2>1, <2>2, RedeliveredType
  <2>5. RefundInv'
    BY <1>0, <2>1, <2>3, <2>4, QueueKeepsInv
  <2> QED
    BY <2>1, <2>5
<1>6. ASSUME LoseRedis PROVE RefundInv' /\ UNCHANGED <<env, asked, req, exec>>
  <2>1. /\ UNCHANGED <<env, purchase, req, due, exec, bankVars>>
        /\ job' = [r \in Requests |-> BlankJob]
    BY <1>6 DEF LoseRedis
  <2>2. BlankJob \in Jobs /\ BlankJob.state = "absent"
    BY IdleType DEF BlankJob
  <2> HIDE DEF BlankJob
  <2>3. /\ job' \in [Requests -> Jobs]
        /\ \A q \in Requests : job'[q].state = "absent"
    BY <2>1, <2>2
  <2>4. RefundInv'
    BY <1>0, <2>1, <2>3, QueueKeepsInv
  <2> QED
    BY <2>1, <2>4
<1>7. ASSUME BankSettles PROVE RefundInv' /\ UNCHANGED <<env, asked, req, exec>>
  <2>1. UNCHANGED <<env, purchase, req, due, job, exec, asked>> /\ shown' = asked
    BY <1>7 DEF BankSettles
  <2>2. RefundInv'
    BY <1>0, <2>1, QueueKeepsInv
  <2> QED
    BY <2>1, <2>2
<1> QED
  BY <1>1, <1>2, <1>3, <1>4, <1>5, <1>6, <1>7 DEF OtherStep

\* Every step is a worker's or one of the others.
LEMMA NextSteps ==
    ASSUME Next PROVE OtherStep \/ \E e \in Execs : WorkerStep(e)
  BY DEF Next, Work, OtherStep, WorkerStep

\* Every step keeps the invariants.
LEMMA RefundStep ==
    ASSUME RefundInv, FlittInv, [Next]_vars PROVE RefundInv' /\ FlittInv'
<1>1. CASE UNCHANGED vars
  <2>1. RefundInv'
    BY <1>1 DEF vars, RefundInv, TypeOK, EarlyQuiet, HasRequest, ShownAsked,
                CountedFits, Amounted, MoneyIn
  <2>2. FlittInv'
    BY <1>1 DEF vars, FlittInv, Flitt, SeenTrue, Covered, MoneyBack, Amount, Members
  <2> QED
    BY <2>1, <2>2
<1>2. ASSUME OtherStep PROVE RefundInv' /\ FlittInv'
  <2>1. RefundInv' /\ env' = env
    BY <1>2, OtherSteps
  <2>2. ASSUME Flitt PROVE SeenTrue' /\ Covered'
    BY <1>2, <2>1, <2>2, OtherSteps, SideKeepsFlitt DEF FlittInv
  <2> QED
    BY <2>1, <2>2 DEF FlittInv, Flitt
<1>3. ASSUME NEW e \in Execs, WorkerStep(e) PROVE RefundInv' /\ FlittInv'
  <2>1. WorkStep(e) /\ (Flitt => Advance(e))
    BY <1>3, WorkerSteps DEF FlittInv
  <2>2. RefundInv' /\ env' = env
    BY <2>1, WorkKeepsInv DEF WorkStep
  <2>3. ASSUME Flitt PROVE SeenTrue' /\ Covered'
    BY <2>1, <2>3, WorkKeepsSeen, WorkKeepsCovered DEF FlittInv
  <2> QED
    BY <2>2, <2>3 DEF FlittInv, Flitt
<1> QED
  BY <1>1, <1>2, <1>3, NextSteps

\* A refund begins in the invariants.
LEMMA RefundInit ==
    ASSUME Init PROVE RefundInv /\ FlittInv
<1>1. \A r \in Requests : req[r].status = "none" /\ req[r].amount = 0
  BY DEF Init, BlankRequest
<1>2. \A e \in Execs : exec[e].pc = "idle" /\ exec[e].r = NoRequest
  BY DEF Init, IdleExec
<1>3. TypeOK
  BY IdleType DEF Init, TypeOK
<1>4. EarlyQuiet
  BY <1>2, ConstantsAssumption DEF Init, EarlyQuiet, BlankJob
<1>5. HasRequest
  BY <1>2 DEF HasRequest
<1>6. ShownAsked
  BY DEF Init, ShownAsked
<1>7. CountedFits
  <2>1. {r \in Requests : req[r].status \in Counted} = {}
    BY <1>1 DEF Counted
  <2>2. MoneyIn(Counted) = SumFunctionOnSet(Amount, {})
    BY <2>1, MoneyInSum
  <2>3. SumFunctionOnSet(Amount, {}) = 0
    BY SumEmpty
  <2> QED
    BY <2>2, <2>3, ConstantsAssumption DEF CountedFits
<1>8. Amounted
  BY <1>1 DEF Amounted, Counted
<1>9. SeenTrue
  BY <1>2 DEF SeenTrue
<1>10. Covered
  <2> SUFFICES ASSUME NEW x \in Nat PROVE SumFunctionOnSet(Amount, Members(x)) <= x
    BY DEF Covered
  <2>1. Members(x) = {}
    BY <1>1 DEF Members, Running
  <2>2. SumFunctionOnSet(Amount, {}) = 0
    BY SumEmpty
  <2> QED
    BY <2>1, <2>2
<1> QED
  BY <1>3, <1>4, <1>5, <1>6, <1>7, <1>8, <1>9, <1>10 DEF RefundInv, FlittInv

\* Covered implies MoneyCovered: put x = MoneyBack(asked), then the refunded
\* requests are members.
LEMMA CoveredMeans ==
    ASSUME RefundInv, FlittInv PROVE MoneyCovered
<1> SUFFICES ASSUME Flitt PROVE MoneyIn({"refunded"}) <= MoneyBack(asked)
  BY DEF MoneyCovered
<1> DEFINE S == {r \in Requests : req[r].status \in {"refunded"}}
           B == MoneyBack(asked)
           T == Members(B)
<1>1. TypeOK /\ B \in Nat
  BY BackNat DEF RefundInv
<1>2. S \subseteq T /\ T \subseteq Requests /\ S \subseteq Requests
  BY DEF Members
<1>3. IsFiniteSet(T)
  BY <1>2, FS_Subset, ConstantsAssumption
<1>4. \A r \in T : Amount[r] \in Nat
  BY <1>1, <1>2, AmountsNat
<1>5. MoneyIn({"refunded"}) = SumFunctionOnSet(Amount, S)
  BY MoneyInSum
<1>6. B <= B
  BY <1>1
<1>7. SumFunctionOnSet(Amount, T) <= B /\ SumFunctionOnSet(Amount, T) \in Nat
  BY <1>1, <1>6, MembersNat DEF FlittInv, Covered
<1>8. MoneyIn({"refunded"}) \in Nat
  BY <1>1, MoneyInNat
<1>9. \A n \in Nat : n <= n
  OBVIOUS
<1> HIDE DEF S, T, B
<1>10. SumFunctionOnSet(Amount, S) <= SumFunctionOnSet(Amount, T)
  BY <1>2, <1>3, <1>4, <1>9, SumGrows
<1>11. MoneyIn({"refunded"}) <= B
  BY <1>1, <1>5, <1>7, <1>8, <1>10
<1> QED
  BY <1>11 DEF B

\* The invariants hold: types, no worker before an approval, approvals that
\* fit into the price, and for Flitt that settlements are covered.
THEOREM RefundInvariant == Spec => [](RefundInv /\ FlittInv)
<1>1. Init => RefundInv /\ FlittInv
  BY RefundInit
<1>2. RefundInv /\ FlittInv /\ [Next]_vars => (RefundInv /\ FlittInv)'
  BY RefundStep
<1> QED
  BY <1>1, <1>2, PTL DEF Spec

\* MoneyCovered: requests that are recorded as refunded by markRefunded are
\* worth no more than Flitt gave back, whatever crashes, redeliveries, lost
\* answers and repeated jobs lie between.
THEOREM RefundsAreCovered == Spec => []MoneyCovered
<1>1. RefundInv /\ FlittInv => MoneyCovered
  BY CoveredMeans
<1> QED
  BY <1>1, RefundInvariant, PTL

-----------------------------------------------------------------------------
(* TBC: a request is cancelled once *)

\* When tbc's cancel must be repeated by nobody: the conditions of
\* CancelledOnce.
Serial == ~Flitt /\ OneExecution /\ MarkerKept

\* A worker that runs has its job to itself.
Owned ==
    \A e \in Execs : exec[e].pc # "idle" =>
        job[exec[e].r].state = "active" /\ job[exec[e].r].owner = e

\* Past its claim, the request it works on is in processing.
Working ==
    \A e \in Execs : exec[e].pc \notin {"idle", "done", "claim"} =>
        req[exec[e].r].status = "processing"

\* No request was cancelled twice, and a worker that is to cancel, or will
\* find no reason not to, is the first.
Once ==
    /\ \A r \in Requests : asked[r] <= 1
    /\ \A e \in Execs :
          \/ exec[e].pc = "post"
          \/ /\ exec[e].pc = "decide" /\ exec[e].seen.status = "held"
             /\ ~exec[e].attempted
          => asked[exec[e].r] = 0

\* While the status may lag, it is the marker that tells: on the row, in what
\* a worker read of it, or about to be written.
Noted ==
    Fault("status_lag") =>
        /\ \A e \in Execs : exec[e].pc \in {"claim", "get", "decide"}
                             /\ asked[exec[e].r] > 0 => exec[e].attempted
        /\ \A r \in Requests : asked[r] > 0 /\ req[r].status \in Running =>
              \/ Marked(r)
              \/ \E e \in Execs : exec[e].r = r /\ exec[e].pc \in {"record", "note"}

\* Under those conditions, and only then.
TbcInv == Serial => Owned /\ Working /\ Once /\ Noted

\* Marked, of the row after the step.
MarkedNext(r) == req'[r].reference \/ req'[r].note = "attempt"

\* The same, of the worker that takes a step.
Cautious(e) ==
    LET x == exec'[e]
        r == exec[e].r
    IN  /\ x.pc \notin {"idle", "done", "claim"} => req'[r].status = "processing"
        /\ asked'[r] <= 1
        /\ \/ x.pc = "post"
           \/ x.pc = "decide" /\ x.seen.status = "held" /\ ~x.attempted
           => asked'[r] = 0
        /\ Fault("status_lag") =>
              /\ x.pc \in {"claim", "get", "decide"} /\ asked'[r] > 0 => x.attempted
              /\ asked'[r] > 0 /\ req'[r].status \in Running =>
                    MarkedNext(r) \/ x.pc \in {"record", "note"}

\* Marked, spelt out.
LEMMA MarkedBefore ==
    ASSUME RefundInv, Serial, Owned, Noted, NEW e \in Execs, exec[e].pc # "idle",
           Fault("status_lag"), asked[exec[e].r] > 0,
           req[exec[e].r].status \in Running
    PROVE  Marked(exec[e].r) \/ exec[e].pc \in {"record", "note"}
<1>1. exec[e].r \in Requests
  BY WorkerTyped
<1>2. \/ Marked(exec[e].r)
      \/ \E f \in Execs : exec[f].r = exec[e].r /\ exec[f].pc \in {"record", "note"}
  BY <1>1 DEF Noted
<1>3. ASSUME NEW f \in Execs, exec[f].r = exec[e].r, exec[f].pc \in {"record", "note"}
      PROVE  f = e
  BY <1>3 DEF Owned
<1> QED
  BY <1>2, <1>3

\* A worker that ends: the marker of a request that still runs is kept.
LEMMA EndCautious ==
    ASSUME RefundInv, Serial, Owned, Once, Noted, NEW e \in Execs, NEW how,
           exec[e].pc # "idle", End(e, how), asked' = asked,
           Fault("status_lag") => exec[e].pc \notin {"record", "note"},
           req'[exec[e].r].status \in Running =>
               /\ req[exec[e].r].status \in Running
               /\ Marked(exec[e].r) => MarkedNext(exec[e].r)
    PROVE  Cautious(e)
<1>1. exec[e].r \in Requests /\ TypeOK
  BY WorkerTyped
<1>2. exec'[e].pc = "idle"
  BY <1>1, EndFields
<1>3. asked'[exec[e].r] <= 1
  BY <1>1 DEF Once
<1>4. ASSUME Fault("status_lag"), asked[exec[e].r] > 0, req'[exec[e].r].status \in Running
      PROVE  MarkedNext(exec[e].r)
  BY <1>4, MarkedBefore
<1> QED
  BY <1>2, <1>3, <1>4 DEF Cautious

\* A worker that goes on without a call that changes the bank.
LEMMA GoCautious ==
    ASSUME RefundInv, Serial, Owned, Working, Once, Noted, NEW e \in Execs,
           NEW pc \in PCs, exec[e].pc # "idle", Goto(e, pc), asked' = asked,
           pc \notin {"idle", "post", "decide"},
           req'[exec[e].r].status = "processing",
           Fault("status_lag") /\ exec[e].pc \in {"record", "note"} =>
               MarkedNext(exec[e].r),
           Fault("status_lag") /\ pc \in {"claim", "get"} =>
               exec[e].pc \in {"claim", "get"},
           Marked(exec[e].r) => MarkedNext(exec[e].r),
           req[exec[e].r].status \in Running
    PROVE  Cautious(e)
<1>1. exec[e].r \in Requests /\ TypeOK
  BY WorkerTyped
<1>2. exec'[e].pc = pc /\ exec'[e].attempted = exec[e].attempted
  BY <1>1, GotoKeeps
<1>3. asked'[exec[e].r] <= 1
  BY <1>1 DEF Once
<1>4. ASSUME Fault("status_lag"), asked[exec[e].r] > 0
      PROVE  MarkedNext(exec[e].r)
  BY <1>4, MarkedBefore
<1>5. ASSUME Fault("status_lag"), asked[exec[e].r] > 0, pc \in {"claim", "get"}
      PROVE  exec[e].attempted
  BY <1>5 DEF Noted
<1> QED
  BY <1>2, <1>3, <1>4, <1>5 DEF Cautious

\* Rows that are left alone keep their marks.
LEMMA SameMarks ==
    ASSUME req' = req, NEW r PROVE MarkedNext(r) <=> Marked(r)
  BY DEF Marked, MarkedNext

\* Done, Claim, ... below: each step of a worker is Cautious.
LEMMA DoneCautious ==
    ASSUME RefundInv, Serial, Owned, Once, Noted, NEW e \in Execs, Done(e)
    PROVE  Cautious(e)
<1>1. /\ exec[e].pc = "done" /\ End(e, "ok") /\ req' = req /\ asked' = asked
  BY DEF Done
<1> QED
  BY <1>1, SameMarks, EndCautious

\* Claim.
LEMMA ClaimCautious ==
    ASSUME RefundInv, Serial, Owned, Working, Once, Noted, NEW e \in Execs, Claim(e)
    PROVE  Cautious(e)
<1> DEFINE r == exec[e].r
<1>1. exec[e].pc = "claim" /\ asked' = asked
  BY DEF Claim
<1>2. r \in Requests /\ req \in [Requests -> Rows] /\ req[r] \in Rows
  BY <1>1, WorkerTyped
<1>3. CASE req[r].status = "approved"
  <2>1. req' = [req EXCEPT ![r].status = "processing"] /\ Goto(e, "get")
    BY <1>3 DEF Claim
  <2>2. req'[r].status = "processing" /\ (Marked(r) => MarkedNext(r))
    BY <1>2, <2>1 DEF Rows, Marked, MarkedNext
  <2> QED
    BY <1>1, <1>3, <2>1, <2>2, GoCautious DEF PCs, Running
<1>4. CASE req[r].status # "approved"
  <2>1. req' = req
    BY <1>4 DEF Claim
  <2>2. CASE req[r].status = "processing" /\ Goto(e, "get")
    BY <1>1, <2>1, <2>2, SameMarks, GoCautious DEF PCs, Running
  <2>3. CASE \E how : End(e, how)
    BY <1>1, <2>1, <2>3, SameMarks, EndCautious
  <2> QED
    BY <1>4, <2>2, <2>3 DEF Claim
<1> QED
  BY <1>3, <1>4

\* A status that shows nothing is true, unless it lags.
LEMMA HeldMeans ==
    ASSUME RefundInv, Serial, Working, NEW e \in Execs,
           exec[e].pc \notin {"idle", "done", "claim"},
           NEW view \in Views, view.status = "held"
    PROVE  asked[exec[e].r] = 0 \/ Fault("status_lag")
<1> DEFINE r == exec[e].r
           f == [q \in Requests |-> req[q].amount * shown[q]]
<1>1. /\ r \in Requests /\ TypeOK /\ asked[r] \in Nat /\ shown[r] \in Nat
      /\ shown \in [Requests -> Nat] /\ req[r].amount \in Nat
  BY WorkerTyped, TypeFields
<1>2. req[r].amount \in Amounts
  BY <1>1 DEF Working, RefundInv, Amounted, Counted
<1>3. req[r].amount > 0
  BY <1>1, <1>2, ConstantsAssumption
<1>4. CASE asked = shown /\ MoneyBack(shown) = 0
  <2>1. \A q \in Requests : f[q] \in Nat
    BY <1>1, TypeFields
  <2>2. MoneyBack(shown) = SumFunctionOnSet(f, Requests)
    BY <1>1, MoneyBackSum
  <2>3. f[r] = req[r].amount * shown[r]
    BY <1>1
  <2> HIDE DEF f
  <2>4. f[r] <= SumFunctionOnSet(f, Requests)
    BY <1>1, <2>1, SumBounds, ConstantsAssumption
  <2>5. f[r] = 0
    BY <1>1, <1>4, <2>1, <2>2, <2>4
  <2>6. shown[r] = 0
    <3>1. \A a, b \in Nat : a > 0 /\ a * b = 0 => b = 0
      OBVIOUS
    <3> QED
      BY <1>1, <1>3, <2>3, <2>5, <3>1
  <2> QED
    BY <1>4, <2>6
<1>5. \/ asked = shown /\ MoneyBack(shown) = 0
      \/ ~Flitt /\ asked # shown /\ Fault("status_lag")
      \/ Flitt
  BY <1>1, ViewFields
<1> QED
  BY <1>4, <1>5 DEF Serial

\* GetStatus.
LEMMA GetStatusCautious ==
    ASSUME RefundInv, Serial, Owned, Working, Once, Noted, NEW e \in Execs, GetStatus(e)
    PROVE  Cautious(e)
<1> DEFINE r == exec[e].r
<1>1. exec[e].pc = "get" /\ asked' = asked /\ req' = req
  BY DEF GetStatus
<1>2. /\ r \in Requests /\ exec[e] \in Executions /\ exec \in [Execs -> Executions]
      /\ asked[r] \in Nat
  BY <1>1, WorkerTyped, TypeFields
<1>3. req[r].status = "processing"
  BY <1>1 DEF Working
<1>4. ASSUME NEW view \in Views,
             exec' = [exec EXCEPT ![e].pc = "decide", ![e].seen = view]
      PROVE  Cautious(e)
  <2>1. /\ exec'[e].pc = "decide" /\ exec'[e].seen = view
        /\ exec'[e].attempted = exec[e].attempted
    BY <1>2, <1>4 DEF Executions
  <2>2. asked'[r] <= 1
    BY <1>1, <1>2 DEF Once
  <2>3. ASSUME Fault("status_lag"), asked[r] > 0 PROVE exec[e].attempted /\ MarkedNext(r)
    BY <1>1, <1>3, <2>3, MarkedBefore, SameMarks DEF Noted, Running
  <2>4. ASSUME view.status = "held", ~exec[e].attempted PROVE asked[r] = 0
    <3>1. asked[r] = 0 \/ Fault("status_lag")
      BY <1>1, <2>4, HeldMeans
    <3> QED
      BY <1>2, <2>3, <2>4, <3>1
  <2> QED
    BY <1>1, <1>3, <2>1, <2>2, <2>3, <2>4 DEF Cautious
<1>5. CASE End(e, "retry")
  BY <1>1, <1>5, SameMarks, EndCautious
<1>6. CASE Goto(e, "park")
  BY <1>1, <1>3, <1>6, SameMarks, GoCautious DEF PCs, Running
<1> QED
  BY <1>4, <1>5, <1>6 DEF GetStatus

\* Decide: a worker that read a mark never goes on to ask.
LEMMA DecideCautious ==
    ASSUME RefundInv, Serial, Owned, Working, Once, Noted, NEW e \in Execs, Decide(e)
    PROVE  Cautious(e)
<1> DEFINE r == exec[e].r
           view == exec[e].seen
           expected == IF Flitt THEN MoneyIn(Counted) ELSE 0
           next(pc) == [IdleExec EXCEPT !.pc = pc, !.r = r, !.expected = expected]
<1>1. exec[e].pc = "decide" /\ asked' = asked /\ req' = req
  BY DEF Decide
<1>2. /\ r \in Requests /\ exec[e] \in Executions /\ exec \in [Execs -> Executions]
      /\ asked[r] \in Nat
  BY <1>1, WorkerTyped, TypeFields
<1>3. req[r].status = "processing"
  BY <1>1 DEF Working
<1>4. ASSUME NEW pc \in {"settle", "park", "post"},
             exec' = [exec EXCEPT ![e] = next(pc)],
             pc = "post" => asked[r] = 0
      PROVE  Cautious(e)
  <2>1. next(pc).pc = pc
    BY DEF IdleExec
  <2>2. exec'[e].pc = pc
    BY <1>2, <1>4, <2>1
  <2>3. asked'[r] <= 1
    BY <1>1, <1>2 DEF Once
  <2>4. ASSUME Fault("status_lag"), asked[r] > 0 PROVE MarkedNext(r)
    BY <1>1, <1>3, <2>4, MarkedBefore, SameMarks DEF Running
  <2> QED
    BY <1>1, <1>3, <1>4, <2>2, <2>3, <2>4 DEF Cautious
<1>5. CASE End(e, "retry")
  BY <1>1, <1>5, SameMarks, EndCautious
<1>6. ASSUME ~Applied(r, view, expected), view.status # "processing",
             ~(exec[e].attempted /\ ~(Flitt /\ view.reversed < expected))
      PROVE  asked[r] = 0
  <2>1. view.status \notin {"partial", "returned"} /\ ~exec[e].attempted
    BY <1>6 DEF Applied, Serial
  <2>2. view.status = "held"
    BY <1>2, <1>6, <2>1 DEF Executions
  <2> QED
    BY <1>1, <1>2, <2>1, <2>2 DEF Once
<1> QED
  BY <1>4, <1>5, <1>6 DEF Decide

\* AskBank: the one step that makes the bank accept.
LEMMA AskBankCautious ==
    ASSUME RefundInv, Serial, Owned, Working, Once, Noted, NEW e \in Execs, AskBank(e)
    PROVE  Cautious(e)
<1> DEFINE r == exec[e].r
<1>1. exec[e].pc = "post" /\ req' = req
  BY DEF AskBank
<1>2. r \in Requests /\ asked \in [Requests -> Nat] /\ TypeOK
  BY <1>1, WorkerTyped
<1>3. req[r].status = "processing" /\ asked[r] = 0
  BY <1>1 DEF Working, Once
<1>4. ASSUME NEW pc \in {"record", "note", "fail", "park"}, Goto(e, pc),
             asked'[r] <= 1, pc \in {"fail", "park"} => asked' = asked
      PROVE  Cautious(e)
  <2>1. exec'[e].pc = pc
    BY <1>2, <1>4, GotoKeeps DEF PCs
  <2> QED
    BY <1>1, <1>3, <1>4, <2>1 DEF Cautious
<1>5. CASE Accept(r)
  <2>1. asked' = [asked EXCEPT ![r] = @ + 1]
    BY <1>3, <1>5 DEF Accept, Repeated
  <2>2. asked'[r] <= 1
    BY <1>2, <1>3, <2>1
  <2>3. Goto(e, "record") \/ Goto(e, "note")
    <3>1. asked' # asked
      BY <1>2, <1>3, <2>1
    <3> QED
      BY <3>1 DEF AskBank
  <2> QED
    BY <1>4, <2>2, <2>3
<1>6. CASE UNCHANGED bankVars
  <2>1. asked'[r] <= 1 /\ asked' = asked
    BY <1>3, <1>6
  <2> QED
    BY <1>4, <2>1 DEF AskBank
<1> QED
  BY <1>5, <1>6 DEF AskBank

\* RecordReference and NoteAttempt.
LEMMA MarkCautious ==
    ASSUME RefundInv, Serial, Owned, Working, Once, Noted, NEW e \in Execs,
           RecordReference(e) \/ NoteAttempt(e)
    PROVE  Cautious(e)
<1> DEFINE r == exec[e].r
<1>1. /\ exec[e].pc \in {"record", "note"} /\ asked' = asked
      /\ Goto(e, "check") \/ Goto(e, "recheck")
  BY DEF RecordReference, NoteAttempt
<1>2. r \in Requests /\ req \in [Requests -> Rows] /\ req[r] \in Rows
  BY <1>1, WorkerTyped
<1>3. req[r].status = "processing"
  BY <1>1 DEF Working
<1>4. CASE RecordReference(e)
  <2>1. req' = [req EXCEPT ![r] = [req[r] EXCEPT !.reference = TRUE]]
    BY <1>3, <1>4 DEF RecordReference, Update
  <2>2. req'[r].status = "processing" /\ MarkedNext(r)
    BY <1>2, <1>3, <2>1 DEF Rows, MarkedNext
  <2> QED
    BY <1>1, <1>3, <2>2, GoCautious DEF PCs, Running
<1>5. CASE NoteAttempt(e)
  <2>1. req' = [req EXCEPT ![r] = [req[r] EXCEPT !.note = "attempt"]]
    BY <1>3, <1>5 DEF NoteAttempt, Update
  <2>2. req'[r].status = "processing" /\ MarkedNext(r)
    BY <1>2, <1>3, <2>1 DEF Rows, MarkedNext
  <2> QED
    BY <1>1, <1>3, <2>2, GoCautious DEF PCs, Running
<1> QED
  BY <1>4, <1>5

\* Recheck and Check.
LEMMA ReadCautious ==
    ASSUME RefundInv, Serial, Owned, Working, Once, Noted, NEW e \in Execs,
           Recheck(e) \/ Check(e)
    PROVE  Cautious(e)
<1>1. exec[e].pc \in {"recheck", "check"} /\ asked' = asked /\ req' = req
  BY DEF Recheck, Check
<1>2. req[exec[e].r].status = "processing"
  BY <1>1 DEF Working
<1>3. ASSUME NEW pc \in {"settle", "park", "park_marked", "await"}, Goto(e, pc)
      PROVE  Cautious(e)
  BY <1>1, <1>2, <1>3, SameMarks, GoCautious DEF PCs, Running
<1>4. CASE End(e, "retry")
  BY <1>1, <1>4, SameMarks, EndCautious
<1>5. (\E pc \in {"settle", "park", "park_marked", "await"} : Goto(e, pc))
      \/ End(e, "retry")
  <2>1. CASE Recheck(e)
    BY <2>1 DEF Recheck
  <2>2. CASE Check(e)
    BY <2>2 DEF Check
  <2> QED
    BY <2>1, <2>2
<1> QED
  BY <1>3, <1>4, <1>5

\* AwaitStatus.
LEMMA AwaitCautious ==
    ASSUME RefundInv, Serial, Owned, Working, Once, Noted, NEW e \in Execs, AwaitStatus(e)
    PROVE  Cautious(e)
<1> DEFINE r == exec[e].r
<1>1. exec[e].pc = "await" /\ asked' = asked /\ End(e, "retry")
  BY DEF AwaitStatus
<1>2. r \in Requests /\ req \in [Requests -> Rows] /\ req[r] \in Rows
  BY <1>1, WorkerTyped
<1>3. req[r].status = "processing"
  BY <1>1 DEF Working
<1>4. req' = [req EXCEPT ![r] = [req[r] EXCEPT !.reference = TRUE, !.note = "attempt"]]
  BY <1>3 DEF AwaitStatus, Update
<1>5. MarkedNext(r)
  BY <1>2, <1>4 DEF Rows, MarkedNext
<1> QED
  BY <1>1, <1>3, <1>5, EndCautious DEF Running

\* The last writes of a request.
LEMMA FinalCautious ==
    ASSUME RefundInv, Serial, Owned, Working, Once, Noted, NEW e \in Execs,
           MarkRefunded(e) \/ MarkNeedsReview(e) \/ MarkFailed(e)
    PROVE  Cautious(e)
<1> DEFINE r == exec[e].r
<1>1. /\ exec[e].pc \in {"settle", "park", "park_marked", "fail"} /\ asked' = asked
  BY DEF MarkRefunded, MarkNeedsReview, MarkFailed
<1>2. r \in Requests /\ req \in [Requests -> Rows] /\ req[r] \in Rows
  BY <1>1, WorkerTyped
<1>3. req[r].status = "processing"
  BY <1>1 DEF Working
<1>4. ASSUME NEW s \in {"refunded", "needs_review", "failed"}, NEW new,
             new.status = s, Update(r, Running, new), End(e, "ok")
      PROVE  Cautious(e)
  <2>1. req'[r].status = s
    BY <1>2, <1>3, <1>4 DEF Update, Running
  <2> QED
    BY <1>1, <1>4, <2>1, EndCautious DEF Running
<1>5. CASE Goto(e, "park") /\ req' = req
  BY <1>1, <1>3, <1>5, SameMarks, GoCautious DEF PCs, Running
<1>6. CASE MarkRefunded(e)
  <2> DEFINE new == [req[r] EXCEPT !.status = "refunded", !.reference = TRUE,
                                   !.note = "none"]
  <2>1. new.status = "refunded"
    BY <1>2 DEF Rows
  <2>2. (Update(r, Running, new) /\ End(e, "ok")) \/ (Goto(e, "park") /\ req' = req)
    BY <1>6 DEF MarkRefunded
  <2> HIDE DEF new
  <2> QED
    BY <1>4, <1>5, <2>1, <2>2
<1>7. CASE MarkNeedsReview(e)
  <2> DEFINE new == [req[r] EXCEPT !.status = "needs_review",
                        !.note = IF exec[e].pc = "park" THEN "other" ELSE "attempt"]
  <2>1. new.status = "needs_review"
    BY <1>2 DEF Rows
  <2>2. Update(r, Running, new) /\ End(e, "ok")
    BY <1>7 DEF MarkNeedsReview
  <2> HIDE DEF new
  <2> QED
    BY <1>4, <2>1, <2>2
<1>8. CASE MarkFailed(e)
  <2> DEFINE new == [req[r] EXCEPT !.status = "failed", !.note = "other"]
  <2>1. new.status = "failed"
    BY <1>2 DEF Rows
  <2>2. Update(r, Running, new) /\ End(e, "ok")
    BY <1>8 DEF MarkFailed
  <2> HIDE DEF new
  <2> QED
    BY <1>4, <2>1, <2>2
<1> QED
  BY <1>6, <1>7, <1>8

\* DatabaseError and Crash: without a lagging status, whatever was accepted is
\* seen by the next worker.
LEMMA FailureCautious ==
    ASSUME RefundInv, Serial, Owned, Working, Once, Noted, NEW e \in Execs,
           DatabaseError(e) \/ Crash(e)
    PROVE  Cautious(e)
<1> DEFINE r == exec[e].r
<1>1. exec[e].pc # "idle" /\ asked' = asked /\ req' = req
  BY DEF DatabaseError, Crash
<1>2. ~Fault("status_lag")
  BY DEF Serial, MarkerKept, DatabaseError, Crash
<1>3. r \in Requests /\ exec \in [Execs -> Executions]
  BY <1>1, WorkerTyped
<1>4. CASE End(e, "retry")
  BY <1>1, <1>2, <1>4, SameMarks, EndCautious
<1>5. CASE exec[e].pc \in {"record", "await"} /\ Goto(e, "park")
  <2>1. req[r].status = "processing"
    BY <1>5 DEF Working
  <2> QED
    BY <1>1, <1>2, <1>5, <2>1, SameMarks, GoCautious DEF PCs, Running
<1>6. CASE Crash(e)
  <2>1. exec'[e].pc = "idle"
    BY <1>3, <1>6 DEF Crash, IdleExec
  <2>2. asked'[r] <= 1
    BY <1>1, <1>3 DEF Once
  <2> QED
    BY <1>2, <2>1, <2>2 DEF Cautious
<1> QED
  BY <1>4, <1>5, <1>6 DEF DatabaseError

\* Every step of a worker is Cautious.
LEMMA WorkerCautious ==
    ASSUME RefundInv, Serial, Owned, Working, Once, Noted, NEW e \in Execs,
           WorkerStep(e)
    PROVE  Cautious(e)
  BY DoneCautious, ClaimCautious, GetStatusCautious, DecideCautious, AskBankCautious,
     MarkCautious, ReadCautious, AwaitCautious, FinalCautious, FailureCautious
     DEF WorkerStep

\* No other worker has the request.
LEMMA Alone ==
    ASSUME Owned, NEW e \in Execs, NEW f \in Execs, e # f,
           exec[e].pc # "idle", exec[f].pc # "idle"
    PROVE  exec[e].r # exec[f].r
  BY DEF Owned

\* A worker's step keeps TbcInv.
LEMMA WorkKeepsTbc ==
    ASSUME RefundInv, Serial, Owned, Working, Once, Noted, NEW e \in Execs,
           WorkStep(e), Cautious(e)
    PROVE  Owned' /\ Working' /\ Once' /\ Noted'
<1> DEFINE r == exec[e].r
<1>1. exec[e].pc # "idle" /\ r \in Requests /\ env' = env
  BY WorkerTyped DEF WorkStep
<1>2. IdleExec.pc = "idle"
  BY DEF IdleExec
<1>3. ASSUME NEW f \in Execs, f # e
      PROVE  exec'[f] = exec[f]
  BY <1>3 DEF WorkStep
<1>4. ASSUME NEW f \in Execs, f # e, exec[f].pc # "idle"
      PROVE  /\ exec[f].r \in Requests /\ exec[f].r # r
             /\ req'[exec[f].r] = req[exec[f].r] /\ job'[exec[f].r] = job[exec[f].r]
             /\ asked'[exec[f].r] = asked[exec[f].r]
  <2>1. exec[f].r \in Requests /\ exec[f].r # r
    BY <1>1, <1>4, WorkerTyped, Alone
  <2> QED
    BY <2>1 DEF WorkStep
<1>5. exec'[e].pc # "idle" => exec'[e].r = r /\ job' = job
  BY <1>2 DEF WorkStep
<1>6. Owned'
  <2> SUFFICES ASSUME NEW f \in Execs, exec'[f].pc # "idle"
               PROVE  job'[exec'[f].r].state = "active" /\ job'[exec'[f].r].owner = f
    BY DEF Owned
  <2>1. CASE f = e
    BY <1>1, <1>5, <2>1 DEF Owned
  <2>2. CASE f # e
    BY <1>3, <1>4, <2>2 DEF Owned
  <2> QED
    BY <2>1, <2>2
<1>7. Working'
  <2> SUFFICES ASSUME NEW f \in Execs, exec'[f].pc \notin {"idle", "done", "claim"}
               PROVE  req'[exec'[f].r].status = "processing"
    BY DEF Working
  <2>1. CASE f = e
    BY <1>5, <2>1 DEF Cautious
  <2>2. CASE f # e
    BY <1>3, <1>4, <2>2 DEF Working
  <2> QED
    BY <2>1, <2>2
<1>8. Once'
  <2>1. ASSUME NEW q \in Requests PROVE asked'[q] <= 1
    BY DEF Once, WorkStep, Cautious
  <2>2. ASSUME NEW f \in Execs,
               \/ exec'[f].pc = "post"
               \/ /\ exec'[f].pc = "decide" /\ exec'[f].seen.status = "held"
                  /\ ~exec'[f].attempted
        PROVE  asked'[exec'[f].r] = 0
    <3>1. CASE f = e
      BY <1>5, <2>2, <3>1 DEF Cautious
    <3>2. CASE f # e
      BY <1>3, <1>4, <2>2, <3>2 DEF Once
    <3> QED
      BY <3>1, <3>2
  <2> QED
    BY <2>1, <2>2 DEF Once
<1>9. Noted'
  <2> SUFFICES ASSUME Fault("status_lag")
               PROVE  /\ \A f \in Execs : exec'[f].pc \in {"claim", "get", "decide"}
                             /\ asked'[exec'[f].r] > 0 => exec'[f].attempted
                      /\ \A q \in Requests : asked'[q] > 0 /\ req'[q].status \in Running =>
                             \/ MarkedNext(q)
                             \/ \E f \in Execs : /\ exec'[f].r = q
                                               /\ exec'[f].pc \in {"record", "note"}
    BY <1>1 DEF Noted, Fault, Marked, MarkedNext
  <2>1. ASSUME NEW f \in Execs, exec'[f].pc \in {"claim", "get", "decide"},
               asked'[exec'[f].r] > 0
        PROVE  exec'[f].attempted
    <3>1. CASE f = e
      BY <1>5, <2>1, <3>1 DEF Cautious
    <3>2. CASE f # e
      BY <1>3, <1>4, <2>1, <3>2 DEF Noted
    <3> QED
      BY <3>1, <3>2
  <2>2. ASSUME NEW q \in Requests, asked'[q] > 0, req'[q].status \in Running
        PROVE  \/ MarkedNext(q)
               \/ \E f \in Execs : exec'[f].r = q /\ exec'[f].pc \in {"record", "note"}
    <3>1. CASE q = r
      BY <1>5, <2>2, <3>1 DEF Cautious
    <3>2. CASE q # r
      <4>1. req'[q] = req[q] /\ asked'[q] = asked[q]
        BY <3>2 DEF WorkStep
      <4>2. Marked(q) \/ \E f \in Execs : exec[f].r = q /\ exec[f].pc \in {"record", "note"}
        BY <2>2, <4>1 DEF Noted
      <4>3. ASSUME NEW f \in Execs, exec[f].r = q PROVE exec'[f] = exec[f]
        BY <1>3, <3>2, <4>3
      <4> QED
        BY <4>1, <4>2, <4>3 DEF Marked, MarkedNext
    <3> QED
      BY <3>1, <3>2
  <2> QED
    BY <2>1, <2>2
<1> QED
  BY <1>6, <1>7, <1>8, <1>9

\* A step that leaves the workers and their jobs alone.
LEMMA SideKeepsTbc ==
    ASSUME RefundInv, Owned, Working, Once, Noted,
           UNCHANGED <<env, exec, asked>>,
           \A q \in Requests : job[q].state = "active" =>
               job'[q].state = "active" /\ job'[q].owner = job[q].owner,
           \A q \in Requests : req'[q] = req[q] \/ Untouched(q)
    PROVE  Owned' /\ Working' /\ Once' /\ Noted'
<1>1. \A f \in Execs : exec[f].pc # "idle" => exec[f].r \in Requests
  BY WorkerTyped
<1>2. \A f \in Execs : exec[f].pc # "idle" => req'[exec[f].r] = req[exec[f].r]
  BY <1>1 DEF Untouched
<1>3. Owned'
  BY <1>1 DEF Owned
<1>4. Working'
  BY <1>2 DEF Working
<1>5. Once'
  BY DEF Once
<1>6. Noted'
  BY DEF Noted, Fault, Marked, Untouched
<1> QED
  BY <1>3, <1>4, <1>5, <1>6

\* So does a worker that begins: nobody else holds the job, and it reads the
\* mark.
LEMMA StartKeepsTbc ==
    ASSUME RefundInv, Owned, Working, Once, Noted,
           NEW e \in Execs, NEW r \in Requests, Start(e, r)
    PROVE  Owned' /\ Working' /\ Once' /\ Noted'
<1>1. /\ UNCHANGED <<env, req, asked>> /\ job[r].state = "waiting"
      /\ exec[e].pc = "idle"
  BY DEF Start
<1>2. /\ exec'[e].pc \in {"claim", "get", "done"} /\ exec'[e].r = r
      /\ exec'[e].attempted = Marked(r)
      /\ exec'[e].pc = "get" => req[r].status = "processing"
      /\ \A f \in Execs : f # e => exec'[f] = exec[f]
      /\ job'[r].state = "active" /\ job'[r].owner = e
      /\ \A q \in Requests : q # r => job'[q] = job[q]
  BY StartFields
<1>3. \A f \in Execs : exec[f].pc # "idle" => exec[f].r \in Requests /\ exec[f].r # r
  BY <1>1, WorkerTyped DEF Owned
<1>4. Owned'
  BY <1>1, <1>2, <1>3 DEF Owned
<1>5. Working'
  BY <1>1, <1>2 DEF Working
<1>6. Once'
  BY <1>1, <1>2 DEF Once
<1>7. Noted'
  <2> SUFFICES ASSUME Fault("status_lag")
               PROVE  /\ \A f \in Execs : exec'[f].pc \in {"claim", "get", "decide"}
                             /\ asked[exec'[f].r] > 0 => exec'[f].attempted
                      /\ \A q \in Requests : asked[q] > 0 /\ req[q].status \in Running =>
                             \/ Marked(q)
                             \/ \E f \in Execs : /\ exec'[f].r = q
                                               /\ exec'[f].pc \in {"record", "note"}
    BY <1>1 DEF Noted, Fault, Marked
  <2>1. ASSUME NEW q \in Requests, asked[q] > 0, req[q].status \in Running
        PROVE  \/ Marked(q)
               \/ \E f \in Execs : exec'[f].r = q /\ exec'[f].pc \in {"record", "note"}
    <3>1. Marked(q) \/ \E f \in Execs : exec[f].r = q /\ exec[f].pc \in {"record", "note"}
      BY <2>1 DEF Noted
    <3>2. ASSUME NEW f \in Execs, exec[f].pc \in {"record", "note"} PROVE exec'[f] = exec[f]
      BY <1>1, <1>2, <3>2
    <3> QED
      BY <3>1, <3>2
  <2>2. ASSUME NEW f \in Execs, exec'[f].pc \in {"claim", "get", "decide"},
               asked[exec'[f].r] > 0
        PROVE  exec'[f].attempted
    <3>1. CASE f # e
      BY <1>2, <2>2, <3>1 DEF Noted
    <3>2. CASE f = e
      <4>1. exec'[e].pc \in {"claim", "get"} /\ asked[r] > 0
        BY <1>2, <2>2, <3>2
      <4>2. req[r].status \in Running
        BY <4>1 DEF Start, IdleExec, Running
      <4>3. Marked(r) \/ \E g \in Execs : exec[g].r = r /\ exec[g].pc \in {"record", "note"}
        BY <4>1, <4>2 DEF Noted
      <4> QED
        BY <1>2, <1>3, <3>2, <4>3
    <3> QED
      BY <3>1, <3>2
  <2> QED
    BY <2>1, <2>2
<1> QED
  BY <1>4, <1>5, <1>6, <1>7

\* So do the API, the queue and the bank.
LEMMA OtherKeepsTbc ==
    ASSUME RefundInv, Serial, Owned, Working, Once, Noted, OtherStep
    PROVE  Owned' /\ Working' /\ Once' /\ Noted'
<1>1. /\ asked' = asked /\ env' = env
      /\ \A q \in Requests : req'[q] = req[q] \/ Untouched(q)
  BY OtherSteps
<1>2. ASSUME NEW r \in Requests, Enqueue(r) \/ Recover(r)
      PROVE  \A q \in Requests : job[q].state = "active" =>
                 job'[q].state = "active" /\ job'[q].owner = job[q].owner
  <2>1. TypeOK /\ job' = Enqueued(r)
    BY <1>2 DEF RefundInv, Enqueue, Recover
  <2>2. /\ \A q \in Requests : q # r => job'[q] = job[q]
        /\ job'[r].owner = job[r].owner
        /\ job'[r].state = IF job[r].state \in {"absent", "failed"}
                           THEN "waiting" ELSE job[r].state
    BY <2>1, EnqueuedType
  <2> TAKE q \in Requests
  <2> HAVE job[q].state = "active"
  <2> QED
    BY <2>2
<1>3. ASSUME NEW r \in Requests, Enqueue(r) \/ Recover(r)
      PROVE  Owned' /\ Working' /\ Once' /\ Noted'
  <2>1. exec' = exec
    BY <1>3 DEF Enqueue, Recover
  <2> QED
    BY <1>1, <1>2, <1>3, <2>1, SideKeepsTbc
<1>4. CASE UNCHANGED <<exec, job>>
  BY <1>1, <1>4, SideKeepsTbc
<1>5. ~(\E e \in Execs : LoseLock(e)) /\ ~LoseRedis
  BY DEF Serial, OneExecution, LoseLock, LoseRedis
<1>6. ASSUME NEW r \in Requests,
             CreateCheck(r) \/ CreateCommit(r) \/ Reject(r) \/ Approve(r)
      PROVE  UNCHANGED <<exec, job>>
  BY <1>6 DEF CreateCheck, CreateCommit, Reject, Approve
<1>7. ASSUME BankSettles PROVE UNCHANGED <<exec, job>>
  BY <1>7 DEF BankSettles
<1> QED
  BY <1>3, <1>4, <1>5, <1>6, <1>7, StartKeepsTbc DEF OtherStep

\* Every step keeps TbcInv.
LEMMA TbcStep ==
    ASSUME RefundInv, FlittInv, TbcInv, [Next]_vars PROVE TbcInv'
<1>1. CASE UNCHANGED vars
  BY <1>1 DEF vars, TbcInv, Serial, Flitt, OneExecution, MarkerKept, Fault, Owned,
              Working, Once, Noted, Marked
<1>2. ASSUME env' = env PROVE Serial' <=> Serial
  BY <1>2 DEF Serial, Flitt, OneExecution, MarkerKept, Fault
<1>3. ASSUME OtherStep PROVE TbcInv'
  <2>1. env' = env
    BY <1>3, OtherSteps
  <2> QED
    BY <1>2, <1>3, <2>1, OtherKeepsTbc DEF TbcInv
<1>4. ASSUME NEW e \in Execs, WorkerStep(e) PROVE TbcInv'
  <2>1. WorkStep(e)
    BY <1>4, WorkerSteps DEF FlittInv
  <2>2. env' = env
    BY <2>1 DEF WorkStep
  <2> QED
    BY <1>2, <1>4, <2>1, <2>2, WorkerCautious, WorkKeepsTbc DEF TbcInv
<1> QED
  BY <1>1, <1>3, <1>4, NextSteps

\* A refund begins in TbcInv.
LEMMA TbcInit ==
    ASSUME Init PROVE TbcInv
<1>1. /\ \A e \in Execs : exec[e].pc = "idle"
      /\ \A r \in Requests : asked[r] = 0 /\ req[r].status = "none"
  BY DEF Init, IdleExec, BlankRequest
<1>2. Owned /\ Working
  BY <1>1 DEF Owned, Working
<1>3. Once
  BY <1>1 DEF Once
<1>4. Noted
  BY <1>1 DEF Noted, Running
<1> QED
  BY <1>2, <1>3, <1>4 DEF TbcInv

\* CancelledOnce: processTbcRefundJob makes the bank cancel a request at most
\* once, although cancel is not idempotent, if the job is not run twice at a
\* time and the marker of an attempt survives whenever the status may lag.
THEOREM NeverCancelledTwice == Spec => []CancelledOnce
<1>1. Init => TbcInv
  BY TbcInit
<1>2. RefundInv /\ FlittInv /\ TbcInv /\ [Next]_vars => TbcInv'
  BY TbcStep
<1>3. TbcInv => CancelledOnce
  BY DEF TbcInv, Serial, Once, CancelledOnce
<1> QED
  BY <1>1, <1>2, <1>3, RefundInvariant, PTL DEF Spec
=============================================================================
