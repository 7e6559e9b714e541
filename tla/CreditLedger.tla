---------------------------- MODULE CreditLedger ----------------------------
(***************************************************************************)
(* The credit ledger of packages/db: ledger rows, grant lots, the          *)
(* allocations that say which lot paid for which spend, and the cash       *)
(* refund requests whose entitlement is computed from them.                *)
(*                                                                         *)
(* One user.  Every operation of the code is keyed by userId and takes     *)
(* that user's advisory lock, so users do not interact.  One lot per       *)
(* "purchase" ledger row; a lot is paid when its row came from a credit    *)
(* pack purchase, and the purchase is then named by its lot.               *)
(*                                                                         *)
(* A transaction that holds the lock is one step, except a spend: grants   *)
(* do not take the lock, and one that commits between the balance read and *)
(* the lot reads of a spend is seen by the second and not by the first, so *)
(* SpendBegin and SpendCommit are two steps with the lock held in between. *)
(***************************************************************************)
EXTENDS Integers, FiniteSets, Functions

CONSTANTS
    Lots,        \* grants, each with its lot
    Paid,        \* the lots of credit pack purchases
    GrantUnits,  \* units of each grant
    LegacyUnits, \* balance from ledger rows older than lots ("unlotted")
    Ops,         \* operations that may be charged, one spend row each
    Prices,      \* prices an operation may have when it is charged
    Requests,    \* cash refund requests
    NoOp, NoRequest, NoTxn

ASSUME LotsAssumption ==
    /\ IsFiniteSet(Lots)
    /\ Paid \subseteq Lots
    /\ GrantUnits \in [Lots -> Nat \ {0}]
    /\ LegacyUnits \in Nat

ASSUME OpsAssumption ==
    /\ IsFiniteSet(Ops) /\ IsFiniteSet(Requests)
    /\ Prices \subseteq Nat \ {0}
    /\ NoOp \notin Ops /\ NoRequest \notin Requests

ASSUME TxnAssumption == NoTxn \notin [op : Ops, price : Prices, balance : Int]

VARIABLES
    createdAt, \* order in which the grants were written, 0 while not granted
    remaining, \* remainingAmountUnits of each lot
    clawed,    \* lots whose status is "clawed"
    spend,     \* units of each operation's spend row, 0 without a row
    refund,    \* units of each operation's credit refund row, 0 without a row
    alloc,     \* units of each spend drawn from each lot
    restored,  \* allocations <<op, lot>> with restoredAt set
    stamp,     \* cashRefundRequestId of each allocation <<op, lot>>
    req,       \* refund request rows
    clawback,  \* units of each request's clawback row, 0 without a row
    txn        \* the spend that holds the user lock and the balance it read

vars == <<createdAt, remaining, clawed, spend, refund, alloc, restored, stamp,
          req, clawback, txn>>

lotVars == <<createdAt, clawed, alloc, restored, stamp, remaining>>
rowVars == <<spend, refund, clawback>>

Min2(a, b) == IF a <= b THEN a ELSE b
Max2(a, b) == IF a >= b THEN a ELSE b

\* REFUND_STATUSES; "none" before the row, "creating" while the API handler
\* is between its last check and the insert.
Statuses == {"none", "creating", "requested", "approved", "processing",
             "refunded", "rejected", "failed", "needs_review"}

\* REFUND_MONEY_COUNTED_STATUSES
Counted == {"approved", "processing", "refunded"}

\* The statuses createRefundRequest refuses to open a second request beside.
Open == {"requested", "approved", "processing", "needs_review"}

Request == [status   : Statuses,
            scope    : {"purchase_remainder", "operation"},
            purchase : Paid \cup {NoOp},
            spend    : Ops \cup {NoOp},
            units    : Nat,
            attempt  : BOOLEAN]

BlankRequest == [status |-> "none", scope |-> "purchase_remainder",
                 purchase |-> NoOp, spend |-> NoOp, units |-> 0,
                 attempt |-> FALSE]

-----------------------------------------------------------------------------
(* Reads *)

Granted == {g \in Lots : createdAt[g] > 0}
OpenLots == Granted \ clawed

Balance == LegacyUnits + SumFunctionOnSet(GrantUnits, Granted)
             - SumFunction(spend) + SumFunction(refund) - SumFunction(clawback)

OpenLotUnits == SumFunctionOnSet(remaining, OpenLots)

\* unlottedBalanceUnits: what the lots do not account for.
Unlotted(balance) == Max2(0, balance - OpenLotUnits)

\* Mutant of Sorted: the comparator is the wrong way round.
NewestFirst ==
    {w \in Bijection(1 .. Cardinality(OpenLots), OpenLots) :
        \A i, j \in DOMAIN w : i < j => createdAt[w[j]] <= createdAt[w[i]]}

\* The lots in the order in which planFifoLotConsumption meets them: those of
\* loadLots, sorted by createdAt.
Sorted ==
    {w \in Bijection(1 .. Cardinality(OpenLots), OpenLots) :
        \A i, j \in DOMAIN w : i < j => createdAt[w[i]] <= createdAt[w[j]]}

\* The loop over the lots in the order w: what is still to be drawn after each
\* turn.  A turn takes what the lot holds, or all that is left to draw.
LeftToDraw(w, need) ==
    LET left[i \in 0 .. Cardinality(OpenLots)] ==
            IF i = 0 THEN need
                     ELSE left[i - 1] - Min2(remaining[w[i]], left[i - 1])
    IN  left

\* The draws that the loop makes, as units of each lot.
DrawsOf(w, need) ==
    [g \in Lots |->
        IF g \in OpenLots
        THEN LET i == CHOOSE i \in DOMAIN w : w[i] = g
             IN  LeftToDraw(w, need)[i - 1] - LeftToDraw(w, need)[i]
        ELSE 0]

\* planFifoLotConsumption, as the set of the plan it returns, empty where it
\* returns null because the lots hold too little.
FifoDraws(need) ==
    {DrawsOf(w, need) :
        w \in {w \in Sorted : LeftToDraw(w, need)[Cardinality(OpenLots)] = 0}}

\* evaluateSpendCreditCompensation: the operation's cash refund was paid, is
\* on its way, or is parked after the provider may have been asked.
CashCompensated(op) ==
    \/ \E g \in Lots : stamp[op, g] # NoRequest
    \/ \E r \in Requests :
          /\ req[r].scope = "operation" /\ req[r].spend = op
          /\ \/ req[r].status \in Counted
             \/ req[r].status = "needs_review" /\ req[r].attempt

\* alreadyMonetizedCreditUnits
Monetized(p) ==
    SumFunctionOnSet([r \in Requests |-> req[r].units],
                     {r \in Requests : /\ req[r].purchase = p
                                       /\ req[r].status \in Counted})

\* Mutant of RemainderEntitlement: what was cashed before is not subtracted.
RemainderWithoutRoom(p) ==
    {[scope |-> "purchase_remainder", purchase |-> p, spend |-> NoOp,
      units |-> u] : u \in {u \in 1 .. remaining[p] : u = remaining[p]}}

\* resolvePurchaseRemainderCashRefund, as the set of the entitlement it
\* returns, empty where it refuses.
RemainderEntitlement(p) ==
    {[scope |-> "purchase_remainder", purchase |-> p, spend |-> NoOp,
      units |-> u] :
        u \in {u \in 1 .. remaining[p] :
                  /\ p \in Granted
                  /\ u = Min2(remaining[p], GrantUnits[p] - Monetized(p))}}

PaidLotsOf(op) == {g \in Paid : alloc[op][g] > 0}

\* Mutant of OperationEntitlement: restored allocations are not looked at.
OperationEvenIfRestored(op) ==
    {[scope |-> "operation", purchase |-> p, spend |-> op,
      units |-> alloc[op][p]] :
        p \in {p \in Paid :
                  /\ spend[op] > 0
                  /\ \A r \in Requests :
                        req[r].spend = op => req[r].status \notin Counted
                  /\ PaidLotsOf(op) = {p}
                  /\ Monetized(p) + alloc[op][p] <= GrantUnits[p]}}

\* resolveOperationCashRefund: the spend must be untouched by either kind of
\* compensation and its paid units must come from a single purchase.
OperationEntitlement(op) ==
    {[scope |-> "operation", purchase |-> p, spend |-> op,
      units |-> alloc[op][p]] :
        p \in {p \in Paid :
                  /\ spend[op] > 0
                  /\ \A r \in Requests :
                        req[r].spend = op => req[r].status \notin Counted
                  /\ \A g \in Lots : /\ <<op, g>> \notin restored
                                     /\ stamp[op, g] = NoRequest
                  /\ PaidLotsOf(op) = {p}
                  /\ Monetized(p) + alloc[op][p] <= GrantUnits[p]}}

Entitlement(scope, p, op) ==
    IF scope = "operation" THEN OperationEntitlement(op)
                           ELSE RemainderEntitlement(p)

-----------------------------------------------------------------------------
(* Grants, spends and credit refunds *)

Init ==
    /\ createdAt = [g \in Lots |-> 0]
    /\ remaining = [g \in Lots |-> 0]
    /\ clawed = {}
    /\ spend = [op \in Ops |-> 0]
    /\ refund = [op \in Ops |-> 0]
    /\ alloc = [op \in Ops |-> [g \in Lots |-> 0]]
    /\ restored = {}
    /\ stamp = [a \in Ops \X Lots |-> NoRequest]
    /\ req = [r \in Requests |-> BlankRequest]
    /\ clawback = [r \in Requests |-> 0]
    /\ txn = NoTxn

\* grantCredits: a ledger row and its lot, in one transaction, without the
\* user lock.  A second call with the same key changes nothing.
Grant(g) ==
    /\ createdAt[g] = 0
    /\ createdAt' = [createdAt EXCEPT ![g] = Cardinality(Granted) + 1]
    /\ remaining' = [remaining EXCEPT ![g] = GrantUnits[g]]
    /\ UNCHANGED <<clawed, alloc, restored, stamp, rowVars, req, txn>>

\* spendCredits up to the balance check: the lock is taken, the ledger summed.
\* Too small a balance throws and changes nothing.
SpendBegin(op, price) ==
    /\ txn = NoTxn
    /\ spend[op] = 0
    /\ Balance >= price
    /\ txn' = [op |-> op, price |-> price, balance |-> Balance]
    /\ UNCHANGED <<lotVars, rowVars, req>>

\* The rest of the spend: the row, then consumeLotsForSpend with the balance
\* read earlier and the lots as they are now.
SpendCommit ==
    /\ txn # NoTxn
    /\ \E d \in FifoDraws(txn.price - Min2(Unlotted(txn.balance), txn.price)) :
          /\ remaining' = [g \in Lots |-> remaining[g] - d[g]]
          /\ alloc' = [alloc EXCEPT ![txn.op] = d]
    /\ spend' = [spend EXCEPT ![txn.op] = txn.price]
    /\ txn' = NoTxn
    /\ UNCHANGED <<createdAt, clawed, restored, stamp, refund, clawback, req>>

\* The transaction rolls back: CREDIT_LOT_CONSUME_FAILED, a timeout or a crash.
SpendAbort ==
    /\ txn # NoTxn
    /\ txn' = NoTxn
    /\ UNCHANGED <<lotVars, rowVars, req>>

\* Mutant of Restorable: restoredAt is not checked.
RestorableAgain(op) ==
    {g \in Lots : alloc[op][g] > 0 /\ stamp[op, g] = NoRequest}

\* restoreLotsForSpend: allocations that were neither restored nor cashed are
\* restored; a clawed lot gets nothing back.
Restorable(op) ==
    {g \in Lots : /\ alloc[op][g] > 0
                  /\ <<op, g>> \notin restored
                  /\ stamp[op, g] = NoRequest}

RestoreLots(op) ==
    /\ restored' = restored \cup ({op} \X Restorable(op))
    /\ remaining' = [g \in Lots |->
                        IF g \in Restorable(op) \ clawed
                        THEN remaining[g] + alloc[op][g] ELSE remaining[g]]

\* refundOriginalSpend: the units of the spend row itself, once.  A repeated
\* call finds the refund row, skips the cash guard and only restores again.
RefundOriginalSpend(op) ==
    /\ txn = NoTxn
    /\ spend[op] > 0
    /\ refund[op] > 0 \/ ~CashCompensated(op)
    /\ refund' = [refund EXCEPT ![op] = spend[op]]
    /\ RestoreLots(op)
    /\ UNCHANGED <<createdAt, clawed, alloc, stamp, spend, clawback, req, txn>>

-----------------------------------------------------------------------------
(* Cash refund requests *)

\* createRefundRequest up to its last check.  Nothing is locked: two calls for
\* one purchase may both pass and both insert.
CreateCheck(r, scope, p, op) ==
    /\ req[r].status = "none"
    /\ \E e \in Entitlement(scope, p, op) :
          /\ \A q \in Requests :
                (req[q].purchase = e.purchase
                   \/ (e.spend # NoOp /\ req[q].spend = e.spend))
                => req[q].status \notin Open
          /\ req' = [req EXCEPT ![r] = [BlankRequest EXCEPT
                        !.status = "creating", !.scope = e.scope,
                        !.purchase = e.purchase, !.spend = e.spend]]
    /\ UNCHANGED <<lotVars, rowVars, txn>>

SetStatus(r, from, to) ==
    /\ req[r].status \in from
    /\ req' = [req EXCEPT ![r].status = to]
    /\ UNCHANGED <<lotVars, rowVars, txn>>

CreateCommit(r) == SetStatus(r, {"creating"}, "requested")
Reject(r) == SetStatus(r, {"requested"}, "rejected")

\* approveRefundRequest in mode "partial": an amount an admin must settle.
ApprovePartial(r) == txn = NoTxn /\ SetStatus(r, {"requested"}, "needs_review")

\* approveRefundRequest in mode "full": the entitlement is computed again under
\* the user lock, and what it says is stored with the approval.
ApproveFull(r) ==
    /\ txn = NoTxn
    /\ req[r].status = "requested"
    /\ LET E == Entitlement(req[r].scope, req[r].purchase, req[r].spend) IN
       \/ \E e \in E :
             /\ e.purchase = req[r].purchase
             /\ req' = [req EXCEPT ![r].status = "approved",
                                   ![r].units = e.units]
       \/ /\ E = {}
          /\ req' = [req EXCEPT ![r].status = "needs_review"]
    /\ UNCHANGED <<lotVars, rowVars, txn>>

\* The refund worker claims the request.
StartProcessing(r) == SetStatus(r, {"approved"}, "processing")

\* The provider was asked to reverse: providerReference, or a providerError
\* that hasRefundProviderAttemptMarker knows, is on the row.
MarkAttempt(r) ==
    /\ req[r].status = "processing"
    /\ req' = [req EXCEPT ![r].attempt = TRUE]
    /\ UNCHANGED <<lotVars, rowVars, txn>>

\* markNeedsReview overwrites providerError: a marker that was held there is
\* lost unless the new reason is one of the marked ones.
Park(r) ==
    /\ req[r].status \in {"approved", "processing"}
    /\ \E kept \in {FALSE, req[r].attempt} :
          req' = [req EXCEPT ![r].status = "needs_review", ![r].attempt = kept]
    /\ UNCHANGED <<lotVars, rowVars, txn>>

MarkFailed(r) == SetStatus(r, {"approved", "processing"}, "failed")

\* finalizeOperationCashEffects and the status update of markRefunded.  The
\* worker read the row earlier: the status may have moved on meanwhile, and
\* then only the stamps are written.
InFlight == {"processing", "refunded", "failed", "needs_review"}

Settled(r) ==
    IF req[r].status = "processing"
    THEN [req[r] EXCEPT !.status = "refunded", !.attempt = TRUE]
    ELSE req[r]

FinalizeOperation(r) ==
    LET op == req[r].spend
        paid == PaidLotsOf(op)
    IN  /\ txn = NoTxn
        /\ req[r].status \in InFlight
        /\ req[r].scope = "operation" /\ req[r].units > 0
        /\ \A g \in Lots : <<op, g>> \notin restored
        /\ \/ paid # {} /\ \A g \in paid : stamp[op, g] = r
           \/ /\ \A g \in paid : stamp[op, g] = NoRequest
              /\ SumFunctionOnSet(alloc[op], paid) = req[r].units
        /\ stamp' = [a \in Ops \X Lots |->
                        IF a[1] = op /\ a[2] \in paid THEN r ELSE stamp[a]]
        /\ req' = [req EXCEPT ![r] = Settled(r)]
        /\ UNCHANGED <<createdAt, remaining, clawed, alloc, restored, rowVars,
                       txn>>

\* Mutants of FinalizeRemainder: the clawback row is not looked up first; the
\* decrement is not conditional on what the lot still holds.
FinalizeRemainderTwice(r) ==
    LET p == req[r].purchase
        u == req[r].units
    IN  /\ txn = NoTxn
        /\ req[r].status \in InFlight
        /\ req[r].scope = "purchase_remainder" /\ u > 0
        /\ remaining[p] >= u
        /\ Balance >= u
        /\ remaining' = [remaining EXCEPT ![p] = @ - u]
        /\ clawed' = IF remaining[p] = u THEN clawed \cup {p} ELSE clawed
        /\ clawback' = [clawback EXCEPT ![r] = u]
        /\ req' = [req EXCEPT ![r] = Settled(r)]
        /\ UNCHANGED <<createdAt, alloc, restored, stamp, spend, refund, txn>>

\* finalizePurchaseRemainderEffects, idempotent on the clawback row.
FinalizeRemainder(r) ==
    LET p == req[r].purchase
        u == req[r].units
    IN  /\ txn = NoTxn
        /\ req[r].status \in InFlight
        /\ req[r].scope = "purchase_remainder" /\ u > 0
        /\ \/ clawback[r] > 0 /\ UNCHANGED <<remaining, clawed, clawback>>
           \/ /\ clawback[r] = 0
              /\ remaining[p] >= u
              /\ Balance >= u
              /\ remaining' = [remaining EXCEPT ![p] = @ - u]
              /\ clawed' = IF remaining[p] = u THEN clawed \cup {p} ELSE clawed
              /\ clawback' = [clawback EXCEPT ![r] = u]
        /\ req' = [req EXCEPT ![r] = Settled(r)]
        /\ UNCHANGED <<createdAt, alloc, restored, stamp, spend, refund, txn>>

-----------------------------------------------------------------------------

Next ==
    \/ \E g \in Lots : Grant(g)
    \/ \E op \in Ops, price \in Prices : SpendBegin(op, price)
    \/ SpendCommit
    \/ SpendAbort
    \/ \E op \in Ops : RefundOriginalSpend(op)
    \/ \E r \in Requests :
          \/ \E p \in Paid : CreateCheck(r, "purchase_remainder", p, NoOp)
          \/ \E op \in Ops : CreateCheck(r, "operation", NoOp, op)
          \/ CreateCommit(r)
          \/ Reject(r)
          \/ ApprovePartial(r)
          \/ ApproveFull(r)
          \/ StartProcessing(r)
          \/ MarkAttempt(r)
          \/ Park(r)
          \/ MarkFailed(r)
          \/ FinalizeOperation(r)
          \/ FinalizeRemainder(r)

Spec == Init /\ [][Next]_vars

-----------------------------------------------------------------------------
(* Properties *)

TypeOK ==
    /\ createdAt \in [Lots -> Nat]
    /\ remaining \in [Lots -> Nat]
    /\ clawed \subseteq Lots
    /\ spend \in [Ops -> Nat]
    /\ refund \in [Ops -> Nat]
    /\ alloc \in [Ops -> [Lots -> Nat]]
    /\ restored \subseteq Ops \X Lots
    /\ stamp \in [Ops \X Lots -> Requests \cup {NoRequest}]
    /\ req \in [Requests -> Request]
    /\ clawback \in [Requests -> Nat]
    /\ txn # NoTxn => /\ txn.op \in Ops /\ txn.price \in Prices
                       /\ txn.balance \in Int

\* What the lots say can be spent is really in the ledger: however grants,
\* spends, credit refunds and cash refunds interleave, the units left in the
\* open lots never exceed the balance the rows sum to (so the balance is never
\* negative).  Otherwise a purchase could be cashed out after it was spent.
LotsBackedByBalance == OpenLotUnits <= Balance

\* Where each granted unit went: still in the lot, drawn by a spend that was
\* not credited back, or clawed back after a cash refund.  Nothing is in two
\* places; only a lot that was clawed may lose units (a credit refund does not
\* refill it).
UnitsOut(g) ==
    SumFunctionOnSet([op \in Ops |-> alloc[op][g]],
                     {op \in Ops : <<op, g>> \notin restored})
      + SumFunctionOnSet(clawback, {r \in Requests : req[r].purchase = g})

LotConservation ==
    \A g \in Granted :
        /\ remaining[g] + UnitsOut(g) <= GrantUnits[g]
        /\ g \notin clawed => remaining[g] + UnitsOut(g) = GrantUnits[g]

\* The refund requests that count as money never add up to more units than the
\* purchase granted, whichever mix of remainder and operation refunds was
\* requested, approved and spent against in between.
MonetizedWithinGrant == \A p \in Paid : Monetized(p) <= GrantUnits[p]

\* One spend is compensated in one currency: a spend with a credit refund row
\* has no cash refund that was paid, counts as money or may be at the provider
\* with its marker kept, and the other way round.
NoDoubleCompensation == \A op \in Ops : refund[op] > 0 => ~CashCompensated(op)

\* Oldest credits first: a spend takes from a lot only when it leaves nothing
\* in the older open lots, also when a grant is written between its balance
\* read and its lot reads, or a lot was refilled or clawed back meanwhile.  So
\* free credits granted early are not kept while refundable paid ones are
\* burnt.
OldestFirst ==
    \A g, h \in OpenLots :
        /\ \E op \in Ops : spend'[op] # spend[op]
        /\ remaining'[g] < remaining[g]
        /\ createdAt[h] < createdAt[g]
        => remaining'[h] = 0

OldestLotFirst == [][OldestFirst]_vars

=============================================================================
