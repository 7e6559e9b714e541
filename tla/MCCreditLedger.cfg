SPECIFICATION Spec
CONSTANTS
    p1 = p1
    p2 = p2
    g1 = g1
    o1 = o1
    o2 = o2
    r1 = r1
    r2 = r2
    Lots <- MCLots
    Paid <- MCPaid
    GrantUnits <- MCGrantUnits
    LegacyUnits <- MCLegacyUnits
    Ops <- MCOps
    Prices <- MCPrices
    Requests <- MCRequests
    NoOp = NoOp
    NoRequest = NoRequest
    NoTxn = NoTxn
INVARIANTS
    LotsBackedByBalance
    LotConservation
    MonetizedWithinGrant
    NoDoubleCompensation
PROPERTIES
    OldestLotFirst
SYMMETRY MCSymmetry
CHECK_DEADLOCK FALSE
