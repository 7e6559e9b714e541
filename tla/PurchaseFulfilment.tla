-------------------------- MODULE PurchaseFulfilment --------------------------
(***************************************************************************)
(* The purchase of one credit pack: checkout requests that repeat, the     *)
(* bank's order, its callbacks, the grant, and the refund that may follow. *)
(* All of them write the status of one row, and only the grant locks it.   *)
(*                                                                         *)
(* A step is one database statement, one transaction or one bank call.     *)
(* Requests of one API process for the same purchase share one promise, so *)
(* a checkout slot is a process.                                           *)
(***************************************************************************)
EXTENDS Integers

CONSTANTS
    Checkouts,   \* API processes that run a checkout of this purchase
    Handlers,    \* callbacks under way
    MaxFailures, \* bound: failing statements and bank calls of callbacks
    MaxRequests  \* bound: times the client asks for the checkout

ASSUME PurchaseAssumption == MaxFailures \in Nat /\ MaxRequests \in Nat

VARIABLES
    bank,     \* "flitt", or "tbc": an old purchase with its order
    right,    \* the order has the amount and currency of the purchase
    row,      \* CreditPackPurchase
    order,    \* the order at the bank
    payable,  \* the customer has the address of the payment page
    calls,    \* order statuses whose callback the bank will still repeat
    checkout, \* pc of each checkout
    handler,  \* each callback: what it answers, read and fetched
    grants,   \* ledger entries under the purchase's idempotency key
    refund,   \* a refund of the purchase: "none", "asked", "full", "part", "done"
    failures, requests

purchaseVars == <<bank, right, row, order, payable, calls, checkout, handler, grants,
          refund, failures, requests>>

NoRow == [status |-> "absent", credited |-> FALSE, payment |-> FALSE,
          url |-> FALSE, retryable |-> FALSE]

OldTbcRow == [NoRow EXCEPT !.status = "provider_created", !.payment = TRUE,
                           !.url = TRUE]

IdleHandler == [pc |-> "idle", for |-> "absent", known |-> FALSE, got |-> "absent"]

PurchaseInit ==
    /\ bank \in {"flitt", "tbc"} /\ right \in BOOLEAN
    /\ row = IF bank = "tbc" THEN OldTbcRow ELSE NoRow
    /\ order = IF bank = "tbc" THEN "created" ELSE "absent"
    /\ payable = (bank = "tbc")
    /\ calls = {}
    /\ checkout = [c \in Checkouts |-> "idle"]
    /\ handler = [h \in Handlers |-> IdleHandler]
    /\ grants = 0 /\ refund = "none" /\ failures = 0 /\ requests = 0

-----------------------------------------------------------------------------
(* Checkout (new purchases are Flitt's) *)

\* canResumeIncompleteFlittCheckout, for a row of the client's request.
Resumable ==
    /\ ~row.url
    /\ \/ row.status \in {"created", "pending", "provider_created"}
       \/ row.status = "failed" /\ row.retryable

\* createFlittCreditPackCheckout: the row by the client's request id, if any.
\* A row with an address is answered, and one that cannot be resumed refused:
\* neither changes anything.
StartCheckout(c) ==
    /\ bank = "flitt" /\ checkout[c] = "idle" /\ requests < MaxRequests
    /\ row.status = "absent" \/ Resumable
    /\ requests' = requests + 1
    /\ checkout' = [checkout EXCEPT ![c] = IF row.status = "absent" THEN "create"
                                           ELSE "probe"]
    /\ UNCHANGED <<bank, right, row, order, payable, calls, handler, grants, refund, failures>>

\* The insert, or the unique constraint and the row of the winner.
CreateRow(c) ==
    /\ checkout[c] = "create"
    /\ IF row.status = "absent"
       THEN row' = [NoRow EXCEPT !.status = "created"]
       ELSE UNCHANGED row
    /\ checkout' = [checkout EXCEPT ![c] =
                        IF row.status = "absent" \/ Resumable THEN "probe" ELSE "idle"]
    /\ UNCHANGED <<bank, right, order, payable, calls, handler, grants, refund, failures, requests>>

\* probeExistingFlittOrder: an order that a lost answer left behind, if the
\* bank says so, gives its payment id.
Probe(c) ==
    /\ checkout[c] = "probe"
    /\ \/ order # "absent" /\ row' = [row EXCEPT !.payment = TRUE]
       \/ UNCHANGED row
    /\ checkout' = [checkout EXCEPT ![c] = "submit"]
    /\ UNCHANGED <<bank, right, order, payable, calls, handler, grants, refund, failures, requests>>

\* createCheckout: the order id is the purchase id, so the bank has at most
\* one order, and may answer for the one it has, refuse it, or not be heard.
CreateOrder(c) ==
    /\ checkout[c] = "submit"
    /\ \E answer \in {"save", "unheard", "refused"} :
          /\ answer = "save" => order \in {"absent", "created"}
          /\ \/ answer # "refused" /\ order' = IF order = "absent" THEN "created" ELSE order
             \/ answer # "save" /\ UNCHANGED order
          /\ checkout' = [checkout EXCEPT ![c] = answer]
    /\ UNCHANGED <<bank, right, row, payable, calls, handler, grants, refund, failures, requests>>

\* The answer is stored, whatever the row says by now, and sent to the client.
SaveOrder(c) ==
    /\ checkout[c] = "save"
    /\ row' = [row EXCEPT !.status = "provider_created", !.payment = TRUE,
                          !.url = TRUE, !.retryable = FALSE]
    /\ payable' = TRUE
    /\ checkout' = [checkout EXCEPT ![c] = "idle"]
    /\ UNCHANGED <<bank, right, order, calls, handler, grants, refund, failures, requests>>

\* Only a 4xx or a validation error fails the purchase; the code that is
\* stored decides whether the client may try again.
SaveFailure(c) ==
    /\ checkout[c] \in {"unheard", "refused"}
    /\ \E again \in BOOLEAN :
          row' = [row EXCEPT !.status = IF checkout[c] = "refused" THEN "failed" ELSE @,
                             !.retryable = again]
    /\ checkout' = [checkout EXCEPT ![c] = "idle"]
    /\ UNCHANGED <<bank, right, order, payable, calls, handler, grants, refund, failures, requests>>

\* The API process dies.
CheckoutCrash(c) ==
    /\ checkout[c] # "idle" /\ failures < MaxFailures
    /\ failures' = failures + 1
    /\ checkout' = [checkout EXCEPT ![c] = "idle"]
    /\ UNCHANGED <<bank, right, row, order, payable, calls, handler, grants, refund, requests>>

-----------------------------------------------------------------------------
(* The bank: an order moves on, and each new status is called back *)

Following(status) ==
    CASE status = "created" -> {"processing", "expired"}
      [] status = "processing" -> {"approved", "declined"}
      [] OTHER -> {}

OrderMoves ==
    /\ payable
    /\ \E status \in Following(order) :
          order' = status /\ calls' = calls \cup {status}
    /\ UNCHANGED <<bank, right, row, payable, checkout, handler, grants, refund, failures, requests>>

\* A refund is asked for and approved while the purchase's status allows it,
\* and the bank takes it back, all or part: see CashRefund.
AskRefund ==
    /\ refund = "none"
    /\ row.status \in {"credited", "paid", "partial_refunded"} /\ order = "approved"
    /\ refund' = "asked"
    /\ UNCHANGED <<bank, right, row, order, payable, calls, checkout, handler, grants, failures, requests>>

BankReverses ==
    /\ refund = "asked" /\ order = "approved"
    /\ \E how \in {"full", "part"} :
          /\ refund' = how
          /\ order' = IF how = "full" THEN "returned"
                      ELSE IF bank = "tbc" THEN "part_returned" ELSE "approved"
    /\ calls' = calls \cup {order'}
    /\ UNCHANGED <<bank, right, row, payable, checkout, handler, grants, failures, requests>>

\* completeRefundAfterReverse: the request's transaction sets the status.
SettleRefund ==
    /\ refund \in {"full", "part"}
    /\ row' = [row EXCEPT !.status = IF refund = "full" THEN "refunded"
                                     ELSE "partial_refunded"]
    /\ refund' = "done"
    /\ UNCHANGED <<bank, right, order, payable, calls, checkout, handler, grants, failures, requests>>

-----------------------------------------------------------------------------
(* Callbacks: the body only says which order to ask the bank about *)

\* The answer 200, after which the bank repeats this callback no more, and
\* the end of the handler.
Answer200(h) ==
    /\ calls' = calls \ {handler[h].for}
    /\ handler' = [handler EXCEPT ![h] = IdleHandler]

\* The purchase is read without a lock; one that is credited is done with.
ReadPurchase(h) ==
    /\ handler[h].pc = "idle"
    /\ \E status \in calls :
          IF row.status = "credited" /\ row.credited
          THEN calls' = calls \ {status} /\ UNCHANGED handler
          ELSE /\ handler' = [handler EXCEPT ![h] =
                                 [IdleHandler EXCEPT !.pc = "fetch", !.for = status,
                                                     !.known = row.payment]]
               /\ UNCHANGED calls
    /\ UNCHANGED <<bank, right, row, order, payable, checkout, grants, refund, failures, requests>>

\* getOrderStatus, getPayment
FetchOrder(h) ==
    /\ handler[h].pc = "fetch"
    /\ handler' = [handler EXCEPT ![h].pc = "note", ![h].got = order]
    /\ UNCHANGED <<bank, right, row, order, payable, calls, checkout, grants, refund, failures, requests>>

\* The bank's own status, and Flitt's payment id if the row that was read had
\* none.
NoteStatus(h) ==
    /\ handler[h].pc = "note"
    /\ row' = IF bank = "flitt" /\ ~handler[h].known
              THEN [row EXCEPT !.payment = TRUE] ELSE row
    /\ handler' = [handler EXCEPT ![h].pc =
                      CASE handler[h].got # "approved" -> "status"
                        [] handler[h].got = "approved" /\ right -> "grant"
                        [] OTHER -> "mismatch"]
    /\ UNCHANGED <<bank, right, order, payable, calls, checkout, grants, refund, failures, requests>>

\* mapFlittOrderStatus, mapTbcProviderStatus
DomainStatus(status) ==
    CASE status = "created" -> IF bank = "tbc" THEN "pending" ELSE "provider_created"
      [] status = "processing" -> "pending"
      [] status = "declined" -> "failed"
      [] status = "expired" -> "expired"
      [] status = "returned" -> "refunded"
      [] status = "part_returned" -> "partial_refunded"

\* An update by id only: it does not ask what happened since the read.
WriteStatus(h) ==
    /\ handler[h].pc = "status"
    /\ row' = [row EXCEPT !.status = DomainStatus(handler[h].got),
                          !.retryable = @ /\ handler[h].got \notin {"declined", "expired"}]
    /\ Answer200(h)
    /\ UNCHANGED <<bank, right, order, payable, checkout, grants, refund, failures, requests>>

\* verifyFlittPaymentAgainstPurchase, verifyTbcPaymentAgainstPurchase: the
\* amount or the currency is not what was sold.
VerificationFails(h) ==
    /\ handler[h].pc = "mismatch"
    /\ row' = [row EXCEPT !.status = "verification_failed", !.retryable = FALSE]
    /\ Answer200(h)
    /\ UNCHANGED <<bank, right, order, payable, checkout, grants, refund, failures, requests>>

\* Mutant of LedgerGrant: the key is not looked up.
GrantAgain(n) == IF n < 2 THEN n + 1 ELSE n

\* writeLedgerEntry: an entry that has the key is returned, not repeated.
LedgerGrant(n) == IF n = 0 THEN 1 ELSE n

\* grantVerified*PurchaseCredits: one transaction under the row's lock.
GrantCredits(h) ==
    /\ handler[h].pc = "grant"
    /\ IF row.status = "credited" /\ row.credited
       THEN UNCHANGED <<row, grants>>
       ELSE /\ grants' = LedgerGrant(grants)
            /\ row' = [row EXCEPT !.status = "credited", !.credited = TRUE,
                                  !.payment = TRUE, !.retryable = FALSE]
    /\ Answer200(h)
    /\ UNCHANGED <<bank, right, order, payable, checkout, refund, failures, requests>>

\* Mutant of HandlerFails: the error is answered with 200.
HandlerFailsQuietly(h) ==
    /\ handler[h].pc # "idle" /\ failures < MaxFailures
    /\ failures' = failures + 1
    /\ Answer200(h)
    /\ UNCHANGED <<bank, right, row, order, payable, checkout, grants, refund, requests>>

\* A statement or the bank's answer fails, or the process dies: the bank does
\* not hear 200 and repeats the callback.
HandlerFails(h) ==
    /\ handler[h].pc # "idle" /\ failures < MaxFailures
    /\ failures' = failures + 1
    /\ handler' = [handler EXCEPT ![h] = IdleHandler]
    /\ UNCHANGED <<bank, right, row, order, payable, calls, checkout, grants, refund, requests>>

CheckoutStep(c) ==
    \/ StartCheckout(c) \/ CreateRow(c) \/ Probe(c) \/ CreateOrder(c)
    \/ SaveOrder(c) \/ SaveFailure(c) \/ CheckoutCrash(c)

HandlerStep(h) ==
    \/ ReadPurchase(h) \/ FetchOrder(h) \/ NoteStatus(h) \/ WriteStatus(h)
    \/ VerificationFails(h) \/ GrantCredits(h)

PurchaseNext ==
    \/ \E c \in Checkouts : CheckoutStep(c)
    \/ \E h \in Handlers : HandlerStep(h) \/ HandlerFails(h)
    \/ OrderMoves \/ AskRefund \/ BankReverses \/ SettleRefund

PurchaseSpec == PurchaseInit /\ [][PurchaseNext]_purchaseVars

\* The bank repeats a callback until it hears 200, and a handler that runs
\* goes on.
PurchaseFairness == \A h \in Handlers : WF_purchaseVars(HandlerStep(h))

PurchaseFairSpec == PurchaseSpec /\ PurchaseFairness

-----------------------------------------------------------------------------
PurchaseStatuses ==
    {"created", "provider_created", "pending", "credited", "failed", "expired",
     "refunded", "partial_refunded", "verification_failed"}

OrderStatuses ==
    {"absent", "created", "processing", "approved", "declined", "expired",
     "returned", "part_returned"}

PurchaseRows ==
    [status : PurchaseStatuses \cup {"absent"}, credited : BOOLEAN,
     payment : BOOLEAN, url : BOOLEAN, retryable : BOOLEAN]

PurchaseTypeOK ==
    /\ bank \in {"flitt", "tbc"} /\ right \in BOOLEAN
    /\ row \in PurchaseRows /\ order \in OrderStatuses /\ payable \in BOOLEAN
    /\ calls \subseteq OrderStatuses
    /\ checkout \in [Checkouts -> {"idle", "create", "probe", "submit", "save",
                                   "unheard", "refused"}]
    /\ handler \in [Handlers ->
          [pc : {"idle", "fetch", "note", "status", "mismatch", "grant"},
           for : OrderStatuses, known : BOOLEAN, got : OrderStatuses]]
    /\ grants \in Nat
    /\ refund \in {"none", "asked", "full", "part", "done"}
    /\ failures \in 0 .. MaxFailures /\ requests \in 0 .. MaxRequests

\* A paid order is granted once, and only a paid one with the right amount,
\* although the status that guards the grant can be overwritten by callbacks,
\* checkouts and refunds after it: then the ledger's key must hold.
GrantedOnce ==
    /\ grants <= 1
    /\ grants = 1 => right /\ order \in {"approved", "returned", "part_returned"}

\* Money the bank has taken for the right order becomes credits, whichever
\* callbacks fail, repeat or run side by side.
PaidIsGranted == (order = "approved" /\ right) ~> grants = 1
=============================================================================
