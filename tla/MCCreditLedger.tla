--------------------------- MODULE MCCreditLedger ---------------------------
(* Two purchases and a free grant, an unlotted unit from before lots, two    *)
(* operations charged one or two units, two cash refund requests: enough   *)
(* for a spend over several lots, for both kinds of cash refund of one       *)
(* purchase, and for a credit refund to race either.                         *)
EXTENDS CreditLedger, TLC

CONSTANTS p1, p2, g1, o1, o2, r1, r2

MCLots == {p1, p2, g1}
MCPaid == {p1, p2}
MCGrantUnits == [g \in MCLots |-> IF g = p1 THEN 3 ELSE 1]
MCOps == {o1, o2}
MCPrices == {1, 2}
MCRequests == {r1, r2}
MCLegacyUnits == 1

\* Operations and requests are interchangeable; the lots are not.
MCSymmetry == Permutations(MCOps) \cup Permutations(MCRequests)

=============================================================================
