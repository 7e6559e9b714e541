------------------------- MODULE CreditLedgerProofs -------------------------
(***************************************************************************)
(* Proofs about CreditLedger for any set of lots, operations, prices and   *)
(* refund requests.  First, the state is well typed and no spend is        *)
(* compensated both in credits and in cash.  Then the properties that add  *)
(* units up: the lots are backed by the balance, every granted unit is     *)
(* accounted for, and no purchase is cashed beyond what it granted.  Last, *)
(* spends take the oldest credits first, which rests on the facts about    *)
(* the loop that plans a spend.                                            *)
(***************************************************************************)
EXTENDS CreditLedger, FiniteSums, FiniteSetTheorems, TLAPS

USE DEF lotVars, rowVars

\* The next number given to a grant is a natural: the lots are finitely many.
LEMMA NextCreatedAt == Cardinality(Granted) + 1 \in Nat
<1>1. IsFiniteSet(Granted)
  BY FS_Subset, LotsAssumption DEF Granted
<1> QED
  BY <1>1, FS_CardinalityType

-----------------------------------------------------------------------------
(* The consumption plan: what the sorted loop of planFifoLotConsumption draws *)

\* A set that holds 0 and with each number up to n the next one holds 0 .. n.
LEMMA CountUp ==
    ASSUME NEW n \in Nat, NEW Good, 0 \in Good,
           \A k \in 1 .. n : k - 1 \in Good => k \in Good
    PROVE  \A k \in 0 .. n : k \in Good
<1> DEFINE Bad == {k \in 0 .. n : k \notin Good}
<1> SUFFICES ASSUME Bad # {} PROVE FALSE
  OBVIOUS
<1>1. Bad \in SUBSET Int /\ IsFiniteSet(Bad)
  <2>1. IsFiniteSet(0 .. n) /\ Bad \in SUBSET (0 .. n) /\ Bad \in SUBSET Int
    BY FS_Interval
  <2> HIDE DEF Bad
  <2> QED
    BY <2>1, FS_Subset
<1>2. PICK k \in Bad : \A j \in Bad : k <= j
  <2> HIDE DEF Bad
  <2> QED
    BY <1>1, MinExists
<1>3. k \in 1 .. n /\ k - 1 \in 0 .. n /\ ~(k <= k - 1)
  OBVIOUS
<1> QED
  BY <1>2, <1>3

\* One turn of the loop with y units to draw at a lot that holds x.
Turn(x, y) == y - Min2(x, y)

LEMMA TurnBounds ==
    ASSUME NEW x \in Nat, NEW y \in Nat
    PROVE  Turn(x, y) \in Nat /\ Turn(x, y) <= y /\ y - Turn(x, y) <= x
           /\ (Turn(x, y) > 0 => y - Turn(x, y) = x)
BY DEF Turn, Min2

\* left is the record of the first k turns of the loop over the lots in the
\* order w.
IsRun(left, k, w, need) ==
    left = [i \in 0 .. k |->
               IF i = 0 THEN need ELSE Turn(remaining[w[i]], left[i - 1])]

\* The loop has a run: each turn is determined by the one before it.
LEMMA RunExists ==
    ASSUME NEW n \in Nat, NEW w, NEW need
    PROVE  \E left : IsRun(left, n, w, need)
<1> DEFINE Good == {k \in 0 .. n : \E left : IsRun(left, k, w, need)}
<1>1. 0 \in Good
  <2>1. IsRun([i \in 0 .. 0 |-> need], 0, w, need)
    BY DEF IsRun
  <2> QED
    BY <2>1
<1>2. ASSUME NEW k \in 1 .. n, k - 1 \in Good PROVE k \in Good
  <2>1. PICK left : IsRun(left, k - 1, w, need)
    BY <1>2
  <2> DEFINE next == [i \in 0 .. k |->
                         IF i = k THEN Turn(remaining[w[k]], left[k - 1])
                                  ELSE left[i]]
  <2>2. \A i \in 0 .. k - 1 :
            left[i] = IF i = 0 THEN need ELSE Turn(remaining[w[i]], left[i - 1])
    BY <2>1 DEF IsRun
  <2>3. ASSUME NEW i \in 0 .. k
        PROVE  next[i] = IF i = 0 THEN need
                                  ELSE Turn(remaining[w[i]], next[i - 1])
    <3>1. CASE i = k
      <4>1. i # 0 /\ next[i - 1] = left[k - 1]
        BY <1>2, <3>1
      <4> QED
        BY <3>1, <4>1
    <3>2. CASE i # k
      <4>1. /\ i \in 0 .. k - 1 /\ next[i] = left[i]
            /\ i # 0 => next[i - 1] = left[i - 1]
        BY <1>2, <3>2
      <4> HIDE DEF next
      <4> QED
        BY <2>2, <4>1
    <3> QED
      BY <3>1, <3>2
  <2>4. next = [i \in 0 .. k |->
                   IF i = 0 THEN need ELSE Turn(remaining[w[i]], next[i - 1])]
    <3>1. next = [i \in 0 .. k |-> next[i]]
      OBVIOUS
    <3> HIDE DEF next
    <3> QED
      BY <2>3, <3>1
  <2> HIDE DEF next
  <2>5. IsRun(next, k, w, need)
    BY <2>4 DEF IsRun
  <2> QED
    BY <2>5
<1> HIDE DEF Good
<1>3. \A k \in 0 .. n : k \in Good
  BY <1>1, <1>2, CountUp
<1>4. n \in Good
  BY <1>3
<1> QED
  BY <1>4 DEF Good

LEMMA OpenFinite ==
    /\ IsFiniteSet(OpenLots) /\ OpenLots \subseteq Lots
    /\ Cardinality(OpenLots) \in Nat
<1>1. OpenLots \in SUBSET Lots
  BY DEF OpenLots, Granted
<1> QED
  BY <1>1, FS_Subset, FS_CardinalityType, LotsAssumption

\* What is left to draw before and after each turn.
LEMMA LoopTurns ==
    ASSUME TypeOK, NEW need \in Nat, NEW w \in Sorted
    PROVE  LET left == LeftToDraw(w, need)
               n == Cardinality(OpenLots)
           IN  /\ left[0] = need
               /\ \A i \in 1 .. n : left[i] = Turn(remaining[w[i]], left[i - 1])
               /\ \A i \in 0 .. n : left[i] \in Nat /\ left[i] <= need
<1> DEFINE left == LeftToDraw(w, need)
           n == Cardinality(OpenLots)
<1>1. n \in Nat
  BY OpenFinite
<1>2. \A i \in 1 .. n : w[i] \in OpenLots /\ remaining[w[i]] \in Nat
  BY OpenFinite DEF Sorted, Bijection, Injection, TypeOK
<1>3. left = CHOOSE f : IsRun(f, n, w, need)
  BY DEF LeftToDraw, IsRun, Turn
<1>4. IsRun(left, n, w, need)
  <2> HIDE DEF left, n
  <2>1. \E f : IsRun(f, n, w, need)
    BY <1>1, RunExists
  <2> QED
    BY <1>3, <2>1
<1> HIDE DEF left, n
<1>5. /\ left[0] = need
      /\ \A i \in 1 .. n : left[i] = Turn(remaining[w[i]], left[i - 1])
  <2>1. \A i \in 0 .. n :
            left[i] = IF i = 0 THEN need ELSE Turn(remaining[w[i]], left[i - 1])
    BY <1>4 DEF IsRun
  <2> QED
    BY <1>1, <2>1
<1>6. \A i \in 0 .. n : left[i] \in Nat /\ left[i] <= need
  <2> DEFINE Good == {i \in 0 .. n : left[i] \in Nat /\ left[i] <= need}
  <2>1. 0 \in Good
    BY <1>1, <1>5
  <2>2. ASSUME NEW i \in 1 .. n, i - 1 \in Good PROVE i \in Good
    <3>1. left[i - 1] \in Nat /\ left[i - 1] <= need
      BY <2>2
    <3>2. left[i] \in Nat /\ left[i] <= left[i - 1]
      BY <1>2, <1>5, <3>1, TurnBounds
    <3> QED
      BY <1>1, <3>1, <3>2
  <2> HIDE DEF Good
  <2>3. \A i \in 0 .. n : i \in Good
    BY <1>1, <2>1, <2>2, CountUp
  <2> QED
    BY <2>3 DEF Good
<1> QED
  BY <1>5, <1>6 DEF left, n

\* What is left to draw only shrinks.
LEMMA LoopShrinks ==
    ASSUME TypeOK, NEW need \in Nat, NEW w \in Sorted,
           NEW j \in 0 .. Cardinality(OpenLots), NEW i \in 0 .. Cardinality(OpenLots),
           j <= i
    PROVE  LeftToDraw(w, need)[i] <= LeftToDraw(w, need)[j]
<1> DEFINE left == LeftToDraw(w, need)
           n == Cardinality(OpenLots)
           Good == {k \in 0 .. n : j <= k => left[k] <= left[j]}
<1>1. n \in Nat
  BY OpenFinite
<1>2. /\ \A k \in 1 .. n : left[k] = Turn(remaining[w[k]], left[k - 1])
      /\ \A k \in 0 .. n : left[k] \in Nat
  BY LoopTurns
<1>3. \A k \in 1 .. n : remaining[w[k]] \in Nat
  BY OpenFinite DEF Sorted, Bijection, Injection, TypeOK
<1>4. j \in 0 .. n /\ i \in 0 .. n
  OBVIOUS
<1> HIDE DEF left, n
<1>5. 0 \in Good
  BY <1>1, <1>2, <1>4
<1>6. ASSUME NEW k \in 1 .. n, k - 1 \in Good PROVE k \in Good
  <2>1. k - 1 \in 0 .. n /\ left[k - 1] \in Nat /\ left[j] \in Nat
    BY <1>1, <1>2, <1>4
  <2>2. left[k] \in Nat /\ left[k] <= left[k - 1]
    BY <1>2, <1>3, <2>1, TurnBounds
  <2>3. CASE j <= k - 1
    BY <1>1, <1>6, <2>1, <2>2, <2>3
  <2>4. CASE ~(j <= k - 1)
    <3>1. j <= k => j = k
      BY <1>1, <1>4, <2>4
    <3> QED
      BY <1>1, <2>2, <3>1
  <2> QED
    BY <2>3, <2>4
<1> HIDE DEF Good
<1>7. i \in Good
  <2>1. \A k \in 0 .. n : k \in Good
    BY <1>1, <1>5, <1>6, CountUp
  <2> QED
    BY <1>4, <2>1
<1> QED
  BY <1>7 DEF Good, left

\* Each open lot has its turn, and is drawn by what that turn takes.
LEMMA DrawnInTurn ==
    ASSUME NEW need, NEW w \in Sorted
    PROVE  /\ \A i \in 1 .. Cardinality(OpenLots) :
                 /\ w[i] \in OpenLots
                 /\ DrawsOf(w, need)[w[i]] =
                        LeftToDraw(w, need)[i - 1] - LeftToDraw(w, need)[i]
           /\ \A g \in OpenLots : \E i \in 1 .. Cardinality(OpenLots) : w[i] = g
           /\ \A g \in Lots \ OpenLots : DrawsOf(w, need)[g] = 0
<1> DEFINE n == Cardinality(OpenLots)
<1>1. /\ w \in [1 .. n -> OpenLots]
      /\ \A i, j \in 1 .. n : w[i] = w[j] => i = j
      /\ \A g \in OpenLots : \E i \in 1 .. n : w[i] = g
  BY DEF Sorted, Bijection, Injection, Surjection, IsInjective
<1>2. OpenLots \subseteq Lots
  BY OpenFinite
<1>3. ASSUME NEW i \in 1 .. n
      PROVE  DrawsOf(w, need)[w[i]] =
                 LeftToDraw(w, need)[i - 1] - LeftToDraw(w, need)[i]
  <2>1. w[i] \in OpenLots /\ w[i] \in Lots /\ DOMAIN w = 1 .. n
    BY <1>1, <1>2
  <2>2. (CHOOSE j \in DOMAIN w : w[j] = w[i]) = i
    BY <1>1, <2>1
  <2> QED
    BY <2>1, <2>2 DEF DrawsOf
<1> QED
  BY <1>1, <1>3 DEF DrawsOf



\* A planned draw takes from open lots, no more than they hold, and from the
\* older ones all they hold before it touches a younger one.
LEMMA DrawBounds ==
    ASSUME TypeOK, NEW need \in Nat, NEW d \in FifoDraws(need)
    PROVE  /\ d \in [Lots -> Nat]
           /\ \A g \in Lots : d[g] <= remaining[g]
           /\ \A g \in Lots : d[g] > 0 => g \in OpenLots
           /\ \A g, h \in OpenLots :
                 d[g] > 0 /\ createdAt[h] < createdAt[g] => d[h] = remaining[h]
<1>1. PICK w \in Sorted : d = DrawsOf(w, need)
  BY DEF FifoDraws
<1> DEFINE left == LeftToDraw(w, need)
           n == Cardinality(OpenLots)
<1>2. /\ \A i \in 1 .. n : left[i] = Turn(remaining[w[i]], left[i - 1])
      /\ \A i \in 0 .. n : left[i] \in Nat
  BY LoopTurns
<1>3. /\ \A i \in 1 .. n : w[i] \in OpenLots /\ d[w[i]] = left[i - 1] - left[i]
      /\ \A g \in OpenLots : \E i \in 1 .. n : w[i] = g
      /\ \A g \in Lots \ OpenLots : d[g] = 0
  BY <1>1, DrawnInTurn
<1>4. \A g \in Lots : remaining[g] \in Nat /\ createdAt[g] \in Nat
  BY DEF TypeOK
<1>5. \A i, j \in 0 .. n : j <= i => left[i] <= left[j]
  BY LoopShrinks
<1>6. \A i, j \in 1 .. n : i < j => createdAt[w[i]] <= createdAt[w[j]]
  BY DEF Sorted, Bijection, Injection
<1>7. n \in Nat /\ OpenLots \subseteq Lots
  BY OpenFinite
<1>8. DOMAIN d = Lots /\ d = [g \in Lots |-> d[g]]
  BY <1>1 DEF DrawsOf
<1> HIDE DEF left, n
<1>9. ASSUME NEW i \in 1 .. n
      PROVE  /\ d[w[i]] \in Nat /\ d[w[i]] <= remaining[w[i]]
             /\ left[i] > 0 => d[w[i]] = remaining[w[i]]
             /\ d[w[i]] > 0 => left[i - 1] > 0
  <2>1. /\ i - 1 \in 0 .. n /\ left[i - 1] \in Nat /\ left[i] \in Nat
        /\ remaining[w[i]] \in Nat
    BY <1>2, <1>3, <1>4, <1>7
  <2>2. /\ Turn(remaining[w[i]], left[i - 1]) = left[i]
        /\ d[w[i]] = left[i - 1] - left[i]
    BY <1>2, <1>3
  <2>3. /\ left[i] <= left[i - 1] /\ left[i - 1] - left[i] <= remaining[w[i]]
        /\ left[i] > 0 => left[i - 1] - left[i] = remaining[w[i]]
    BY <2>1, <2>2, TurnBounds
  <2> QED
    BY <2>1, <2>2, <2>3
<1>10. ASSUME NEW g \in Lots
       PROVE  d[g] \in Nat /\ d[g] <= remaining[g] /\ (d[g] > 0 => g \in OpenLots)
  <2>1. CASE g \in OpenLots
    BY <1>3, <1>9, <2>1
  <2>2. CASE g \notin OpenLots
    BY <1>3, <1>4, <2>2
  <2> QED
    BY <2>1, <2>2
<1>11. ASSUME NEW g \in OpenLots, NEW h \in OpenLots,
              d[g] > 0, createdAt[h] < createdAt[g]
       PROVE  d[h] = remaining[h]
  <2>1. PICK i \in 1 .. n : w[i] = g
    BY <1>3
  <2>2. PICK j \in 1 .. n : w[j] = h
    BY <1>3
  <2>3. createdAt[g] \in Nat /\ createdAt[h] \in Nat
    BY <1>4, <1>7
  <2>4. j < i
    <3>1. ~(createdAt[g] <= createdAt[h]) /\ i # j
      BY <1>11, <2>1, <2>2, <2>3
    <3>2. ~(i < j)
      BY <1>6, <2>1, <2>2, <3>1
    <3> QED
      BY <1>7, <3>1, <3>2
  <2>5. j \in 0 .. n /\ i - 1 \in 0 .. n /\ j <= i - 1
    BY <1>7, <2>4
  <2>6. left[i - 1] > 0 /\ left[i - 1] <= left[j]
    BY <1>5, <1>9, <1>11, <2>1, <2>5
  <2>7. left[j] > 0
    BY <1>2, <2>5, <2>6
  <2> QED
    BY <1>9, <2>2, <2>7
<1> QED
  BY <1>8, <1>10, <1>11

\* A plan draws what was asked for, neither more nor less.
LEMMA DrawSum ==
    ASSUME TypeOK, NEW need \in Nat, NEW d \in FifoDraws(need)
    PROVE  SumFunction(d) = need
<1>1. PICK w \in Sorted : /\ d = DrawsOf(w, need)
                          /\ LeftToDraw(w, need)[Cardinality(OpenLots)] = 0
  BY DEF FifoDraws
<1> DEFINE left == LeftToDraw(w, need)
           n == Cardinality(OpenLots)
           Met(i) == {w[j] : j \in 1 .. i}
           Good == {i \in 0 .. n : /\ IsFiniteSet(Met(i))
                                   /\ SumFunctionOnSet(d, Met(i)) = need - left[i]}
<1>2. left[0] = need /\ left[n] = 0 /\ \A i \in 0 .. n : left[i] \in Nat
  BY <1>1, LoopTurns
<1>3. /\ \A i \in 1 .. n : w[i] \in OpenLots /\ d[w[i]] = left[i - 1] - left[i]
      /\ \A g \in OpenLots : \E i \in 1 .. n : w[i] = g
      /\ \A g \in Lots \ OpenLots : d[g] = 0
  BY <1>1, DrawnInTurn
<1>4. \A i, j \in 1 .. n : w[i] = w[j] => i = j
  BY DEF Sorted, Bijection, Injection, IsInjective
<1>5. n \in Nat /\ OpenLots \subseteq Lots
  BY OpenFinite
<1>6. d \in [Lots -> Nat]
  BY DrawBounds
<1> HIDE DEF left, n
<1>7. 0 \in Good
  <2>1. Met(0) = {}
    OBVIOUS
  <2>2. IsFiniteSet({}) /\ SumFunctionOnSet(d, {}) = 0
    BY FS_EmptySet, SumEmpty
  <2> QED
    BY <1>2, <1>5, <2>1, <2>2
<1>8. ASSUME NEW i \in 1 .. n, i - 1 \in Good PROVE i \in Good
  <2>1. Met(i) = Met(i - 1) \cup {w[i]}
    BY <1>5
  <2>2. w[i] \notin Met(i - 1)
    BY <1>4, <1>5
  <2>3. \A y \in Met(i - 1) \cup {w[i]} : d[y] \in Int
    BY <1>3, <1>5, <1>6
  <2>4. IsFiniteSet(Met(i - 1)) /\ SumFunctionOnSet(d, Met(i - 1)) = need - left[i - 1]
    BY <1>8
  <2>5. left[i - 1] \in Nat /\ left[i] \in Nat /\ d[w[i]] = left[i - 1] - left[i]
    BY <1>2, <1>3, <1>5
  <2>6. i \in 0 .. n
    BY <1>5
  <2> DEFINE M == Met(i - 1)
  <2>7. Met(i) = M \cup {w[i]}
    BY <2>1
  <2> HIDE DEF M
  <2>8. SumFunctionOnSet(d, M \cup {w[i]}) = SumFunctionOnSet(d, M) + d[w[i]]
    BY <2>2, <2>3, <2>4, SumAdd DEF M
  <2>9. IsFiniteSet(M \cup {w[i]})
    BY <2>4, FS_AddElement DEF M
  <2>10. SumFunctionOnSet(d, M) = need - left[i - 1]
    BY <2>4 DEF M
  <2>11. SumFunctionOnSet(d, M \cup {w[i]}) = need - left[i]
    BY <2>5, <2>8, <2>10
  <2> QED
    BY <2>6, <2>7, <2>9, <2>11
<1>9. SumFunctionOnSet(d, OpenLots) = need
  <2>1. Met(n) = OpenLots
    BY <1>3
  <2> HIDE DEF Good
  <2>2. \A i \in 0 .. n : i \in Good
    BY <1>5, <1>7, <1>8, CountUp
  <2>3. n \in Good
    BY <1>5, <2>2
  <2>4. SumFunctionOnSet(d, Met(n)) = need - left[n]
    BY <2>3 DEF Good
  <2> QED
    BY <1>2, <2>1, <2>4
<1>10. SumFunctionOnSet(d, OpenLots) = SumFunctionOnSet(d, Lots)
  <2>1. \A g \in Lots : d[g] \in Int /\ d[g] = IF g \in OpenLots THEN d[g] ELSE 0
    BY <1>3, <1>6
  <2> QED
    BY <1>5, <2>1, LotsAssumption, SumWhere
<1>11. SumFunction(d) = SumFunctionOnSet(d, Lots)
  BY <1>6 DEF SumFunction, SumFunctionOnSet, FoldFunction
<1> QED
  BY <1>9, <1>10, <1>11

\* The balance is a number, and what a spend asks of the lots is one that is
\* not negative.
LEMMA BalanceInt == ASSUME TypeOK PROVE Balance \in Int
<1>1. /\ SumFunctionOnSet(spend, Ops) \in Int
      /\ SumFunctionOnSet(refund, Ops) \in Int
      /\ SumFunctionOnSet(clawback, Requests) \in Int
  <2>1. /\ \A op \in Ops : spend[op] \in Int /\ refund[op] \in Int
        /\ \A r \in Requests : clawback[r] \in Int
    BY DEF TypeOK
  <2> QED
    BY <2>1, SumInt, OpsAssumption
<1>2. DOMAIN spend = Ops /\ DOMAIN refund = Ops /\ DOMAIN clawback = Requests
  BY DEF TypeOK
<1>3. SumFunction(spend) \in Int /\ SumFunction(refund) \in Int /\ SumFunction(clawback) \in Int
  BY <1>1, <1>2 DEF SumFunction, SumFunctionOnSet, FoldFunction
<1>4. SumFunctionOnSet(GrantUnits, Granted) \in Int
  <2>1. Granted \in SUBSET Lots /\ \A g \in Granted : GrantUnits[g] \in Int
    BY LotsAssumption DEF Granted
  <2>2. IsFiniteSet(Granted)
    BY <2>1, FS_Subset, LotsAssumption
  <2> QED
    BY <2>1, <2>2, SumInt
<1> QED
  BY <1>3, <1>4, LotsAssumption DEF Balance

LEMMA NeedNat ==
    ASSUME TypeOK, txn # NoTxn
    PROVE  txn.price - Min2(Unlotted(txn.balance), txn.price) \in Nat
<1>1. txn.price \in Nat /\ txn.balance \in Int
  BY OpsAssumption DEF TypeOK
<1>2. OpenLotUnits \in Int
  <2>1. \A g \in OpenLots : remaining[g] \in Int
    BY OpenFinite DEF TypeOK
  <2> QED
    BY <2>1, OpenFinite, SumInt DEF OpenLotUnits
<1> QED
  BY <1>1, <1>2 DEF Unlotted, Min2, Max2

-----------------------------------------------------------------------------
(* What a cash refund entitles to *)

\* The entitlement of a request is for units of the purchase it names; the one
\* of an operation leaves some paid, unrestored allocation of that spend.
LEMMA OperationEntitlementType ==
    ASSUME TypeOK, NEW op \in Ops, NEW e \in OperationEntitlement(op)
    PROVE  /\ e.scope = "operation" /\ e.spend = op
           /\ e.purchase \in Paid /\ e.units \in Nat
           /\ alloc[op][e.purchase] > 0 /\ <<op, e.purchase>> \notin restored
<1>1. PICK p \in Paid :
          /\ e = [scope |-> "operation", purchase |-> p, spend |-> op,
                  units |-> alloc[op][p]]
          /\ PaidLotsOf(op) = {p}
          /\ \A g \in Lots : <<op, g>> \notin restored
  BY DEF OperationEntitlement
<1>2. alloc[op][p] > 0
  BY <1>1 DEF PaidLotsOf
<1>3. p \in Lots /\ alloc[op][p] \in Nat
  BY LotsAssumption DEF TypeOK
<1> QED
  BY <1>1, <1>2, <1>3

\* The entitlement of a remainder is for units of the purchase asked about.
LEMMA RemainderEntitlementType ==
    ASSUME TypeOK, NEW p \in Paid, NEW e \in RemainderEntitlement(p)
    PROVE  /\ e.scope = "purchase_remainder" /\ e.spend = NoOp
           /\ e.purchase = p /\ e.units \in Nat
<1>1. PICK u \in 1 .. remaining[p] :
          e = [scope |-> "purchase_remainder", purchase |-> p,
               spend |-> NoOp, units |-> u]
  BY DEF RemainderEntitlement
<1>2. remaining[p] \in Nat
  BY LotsAssumption DEF TypeOK
<1> QED
  BY <1>1, <1>2

-----------------------------------------------------------------------------
(* The inductive invariant *)

\* A request that exists names its purchase, and its spend if it is about one;
\* the provider was asked only about a request that was in its worker's hands.
ShapeOf(q) ==
    /\ q.status # "none" => /\ q.purchase \in Paid
                            /\ q.scope = "operation" => q.spend \in Ops
    /\ q.attempt => q.status \in InFlight

RequestShape == \A r \in Requests : ShapeOf(req[r])

\* The spend that holds the lock has no row yet.
TxnFresh == txn # NoTxn => spend[txn.op] = 0

\* A credit refund row belongs to a spend, all of whose allocations it restored.
CreditedSpent == \A op \in Ops : refund[op] > 0 => spend[op] > 0

CreditedRestored ==
    \A op \in Ops, g \in Lots :
        refund[op] > 0 /\ alloc[op][g] > 0 => <<op, g>> \in restored

LedgerInv ==
    /\ TypeOK
    /\ RequestShape
    /\ TxnFresh
    /\ CreditedSpent
    /\ CreditedRestored
    /\ NoDoubleCompensation

\* The initial state has no rows.
LEMMA InitInv == Init => LedgerInv
<1> SUFFICES ASSUME Init PROVE LedgerInv
  OBVIOUS
<1> USE DEF Init
<1>1. TypeOK
  BY DEF TypeOK, Request, BlankRequest, Statuses
<1>2. RequestShape
  BY DEF RequestShape, ShapeOf, BlankRequest
<1>3. TxnFresh /\ CreditedSpent /\ CreditedRestored /\ NoDoubleCompensation
  BY DEF TxnFresh, CreditedSpent, CreditedRestored, NoDoubleCompensation
<1> QED
  BY <1>1, <1>2, <1>3 DEF LedgerInv

\* A step that leaves the spends, the refunds and the allocations alone, and
\* stamps or covers only operations without a credit refund, keeps one spend
\* compensated in one currency.
Covers(r, op) ==
    /\ req[r].scope = "operation" /\ req[r].spend = op
    /\ \/ req[r].status \in Counted
       \/ req[r].status = "needs_review" /\ req[r].attempt

\* What a step of one request keeps when it covers no operation that has a
\* credit refund.
LEMMA RequestStep ==
    ASSUME LedgerInv, NEW r \in Requests, NEW q, q \in Request,
           req' = [req EXCEPT ![r] = q],
           UNCHANGED <<spend, refund, alloc, restored, stamp>>,
           ShapeOf(q),
           \A op \in Ops : Covers(r, op)' => Covers(r, op) \/ ~(refund[op] > 0)
    PROVE  /\ req' \in [Requests -> Request]
           /\ RequestShape' /\ CreditedSpent' /\ CreditedRestored'
           /\ NoDoubleCompensation'
<1>1. req' \in [Requests -> Request]
  BY DEF LedgerInv, TypeOK
<1>2. RequestShape'
  BY DEF LedgerInv, TypeOK, RequestShape
<1>3. CreditedSpent' /\ CreditedRestored'
  BY DEF LedgerInv, CreditedSpent, CreditedRestored
<1>4. NoDoubleCompensation'
  <2> SUFFICES ASSUME NEW op \in Ops, refund[op] > 0, CashCompensated(op)'
               PROVE  FALSE
    BY DEF NoDoubleCompensation
  <2>1. ~CashCompensated(op)
    BY DEF LedgerInv, NoDoubleCompensation
  <2>2. PICK x \in Requests : Covers(x, op)'
    BY <2>1 DEF CashCompensated, Covers
  <2>3. x = r
    BY <2>1, <2>2 DEF CashCompensated, Covers, LedgerInv, TypeOK
  <2> QED
    BY <2>1, <2>2, <2>3 DEF CashCompensated, Covers
<1> QED
  BY <1>1, <1>2, <1>3, <1>4

\* Ledger actions, one lemma each for those that move units.
LEMMA GrantInv == ASSUME LedgerInv, NEW g \in Lots, Grant(g) PROVE LedgerInv'
<1> USE DEF LedgerInv, Grant
<1>1. TypeOK'
  BY NextCreatedAt, LotsAssumption DEF TypeOK
<1>2. RequestShape' /\ TxnFresh' /\ CreditedSpent' /\ CreditedRestored'
  BY DEF RequestShape, TxnFresh, CreditedSpent, CreditedRestored
<1>3. NoDoubleCompensation'
  BY DEF NoDoubleCompensation, CashCompensated
<1> QED
  BY <1>1, <1>2, <1>3

\* The spend that takes the lock has no row.
LEMMA SpendBeginInv ==
    ASSUME LedgerInv, NEW op \in Ops, NEW price \in Prices,
           SpendBegin(op, price)
    PROVE  LedgerInv'
<1> USE DEF LedgerInv, SpendBegin
<1>1. TypeOK' /\ TxnFresh'
  BY BalanceInt DEF TypeOK, TxnFresh
<1>2. RequestShape' /\ CreditedSpent' /\ CreditedRestored'
  BY DEF RequestShape, CreditedSpent, CreditedRestored
<1>3. NoDoubleCompensation'
  BY DEF NoDoubleCompensation, CashCompensated
<1> QED
  BY <1>1, <1>2, <1>3

\* A new spend has no refund row, so its allocations may be unrestored.
LEMMA SpendCommitInv == ASSUME LedgerInv, SpendCommit PROVE LedgerInv'
<1> USE DEF LedgerInv, SpendCommit
<1>1. PICK d \in FifoDraws(txn.price - Min2(Unlotted(txn.balance), txn.price)) :
          /\ remaining' = [g \in Lots |-> remaining[g] - d[g]]
          /\ alloc' = [alloc EXCEPT ![txn.op] = d]
  OBVIOUS
<1>2. d \in [Lots -> Nat] /\ \A g \in Lots : d[g] <= remaining[g]
  BY <1>1, DrawBounds, NeedNat
<1>3. txn.op \in Ops /\ txn.price \in Nat \ {0}
  BY OpsAssumption DEF TypeOK
<1>4. TypeOK'
  BY <1>1, <1>2, <1>3 DEF TypeOK
<1>5. refund[txn.op] = 0
  BY <1>3 DEF TxnFresh, CreditedSpent, TypeOK
<1>6. RequestShape' /\ TxnFresh'
  BY DEF RequestShape, TxnFresh
<1>7. CreditedSpent' /\ CreditedRestored'
  BY <1>1, <1>3, <1>5 DEF CreditedSpent, CreditedRestored, TypeOK
<1>8. NoDoubleCompensation'
  BY DEF NoDoubleCompensation, CashCompensated
<1> QED
  BY <1>4, <1>6, <1>7, <1>8

\* A roll back leaves the rows alone.
LEMMA SpendAbortInv == ASSUME LedgerInv, SpendAbort PROVE LedgerInv'
<1> USE DEF LedgerInv, SpendAbort
<1>1. TypeOK' /\ TxnFresh' /\ RequestShape'
  BY DEF TypeOK, TxnFresh, RequestShape
<1>2. CreditedSpent' /\ CreditedRestored' /\ NoDoubleCompensation'
  BY DEF CreditedSpent, CreditedRestored, NoDoubleCompensation, CashCompensated
<1> QED
  BY <1>1, <1>2

\* The heart of the argument, first half: a credit refund is written only where
\* no cash covers the spend, and then every allocation of it is restored.
LEMMA RefundInv ==
    ASSUME LedgerInv, NEW op \in Ops, RefundOriginalSpend(op)
    PROVE  LedgerInv'
<1> USE DEF LedgerInv, RefundOriginalSpend, RestoreLots
<1>1. ~CashCompensated(op)
  BY DEF NoDoubleCompensation
<1>2. TypeOK'
  <2>1. Restorable(op) \subseteq Lots
    BY DEF Restorable
  <2>2. remaining' \in [Lots -> Nat]
    <3>1. \A g \in Lots : remaining[g] \in Nat /\ alloc[op][g] \in Nat
      BY DEF TypeOK
    <3>2. \A g \in Lots : remaining[g] + alloc[op][g] \in Nat
      BY <3>1
    <3> QED
      BY <3>1, <3>2
  <2>3. restored' \subseteq Ops \X Lots
    BY <2>1 DEF TypeOK
  <2>4. refund' \in [Ops -> Nat]
    BY DEF TypeOK
  <2> QED
    BY <2>2, <2>3, <2>4 DEF TypeOK
<1>3. RequestShape' /\ TxnFresh'
  BY DEF RequestShape, TxnFresh
<1>4. CreditedSpent'
  BY DEF CreditedSpent, TypeOK
<1>5. CreditedRestored'
  <2> SUFFICES ASSUME NEW o \in Ops, NEW g \in Lots,
                      refund'[o] > 0, alloc'[o][g] > 0
               PROVE  <<o, g>> \in restored'
    BY DEF CreditedRestored
  <2>1. CASE o = op
    <3>1. stamp[op, g] = NoRequest
      BY <1>1 DEF CashCompensated
    <3>2. <<op, g>> \in restored \/ g \in Restorable(op)
      BY <2>1, <3>1 DEF Restorable
    <3> QED
      BY <2>1, <3>2
  <2>2. CASE o # op
    BY <2>2 DEF CreditedRestored, TypeOK
  <2> QED
    BY <2>1, <2>2
<1>6. NoDoubleCompensation'
  BY <1>1 DEF NoDoubleCompensation, CashCompensated, TypeOK
<1> QED
  BY <1>2, <1>3, <1>4, <1>5, <1>6

\* Steps that only move a request.  Second half of the argument: an operation
\* is approved for cash only while an allocation of it is unrestored, which a
\* credit refund would have restored.
LEMMA RequestInv ==
    ASSUME LedgerInv, NEW r \in Requests, NEW q \in Request,
           req' = [req EXCEPT ![r] = q],
           UNCHANGED <<lotVars, rowVars, txn>>,
           ShapeOf(q),
           \A op \in Ops : Covers(r, op)' => Covers(r, op) \/ ~(refund[op] > 0)
    PROVE  LedgerInv'
<1>1. /\ req' \in [Requests -> Request]
      /\ RequestShape' /\ CreditedSpent' /\ CreditedRestored'
      /\ NoDoubleCompensation'
  BY RequestStep
<1>2. TypeOK' /\ TxnFresh'
  BY <1>1 DEF LedgerInv, TypeOK, TxnFresh
<1> QED
  BY <1>1, <1>2 DEF LedgerInv

\* A change of status that makes no request count which did not before.
LEMMA SetStatusInv ==
    ASSUME LedgerInv, NEW r \in Requests, NEW from, NEW to \in Statuses,
           SetStatus(r, from, to), "none" \notin from,
           to \in Counted => from \subseteq Counted,
           to \in InFlight \/ from \cap InFlight = {},
           to = "needs_review" => from \cap InFlight = {}
    PROVE  LedgerInv'
<1> DEFINE q == [req[r] EXCEPT !.status = to]
<1>1. req[r] \in Request
  BY DEF LedgerInv, TypeOK
<1>2. q \in Request /\ req' = [req EXCEPT ![r] = q]
  BY <1>1 DEF SetStatus, Request
<1>3. ShapeOf(q)
  BY <1>1 DEF LedgerInv, RequestShape, ShapeOf, SetStatus, Request
<1>4. \A op \in Ops : Covers(r, op)' => Covers(r, op) \/ ~(refund[op] > 0)
  BY <1>1, <1>2 DEF Covers, SetStatus, Request, LedgerInv, TypeOK,
                    RequestShape, ShapeOf
<1> HIDE DEF q
<1> QED
  BY <1>2, <1>3, <1>4, RequestInv DEF SetStatus

\* A request being created covers nothing yet.
LEMMA CreateInv ==
    ASSUME LedgerInv, NEW r \in Requests,
           \/ \E p \in Paid : CreateCheck(r, "purchase_remainder", p, NoOp)
           \/ \E op \in Ops : CreateCheck(r, "operation", NoOp, op)
    PROVE  LedgerInv'
<1>1. ASSUME NEW e, e.purchase \in Paid,
             \/ e.scope = "purchase_remainder" /\ e.spend = NoOp
             \/ e.scope = "operation" /\ e.spend \in Ops,
             req' = [req EXCEPT ![r] = [BlankRequest EXCEPT
                        !.status = "creating", !.scope = e.scope,
                        !.purchase = e.purchase, !.spend = e.spend]],
             UNCHANGED <<lotVars, rowVars, txn>>
      PROVE  LedgerInv'
  <2> DEFINE q == [BlankRequest EXCEPT
                        !.status = "creating", !.scope = e.scope,
                        !.purchase = e.purchase, !.spend = e.spend]
  <2>1. q \in Request /\ ShapeOf(q)
    BY <1>1 DEF Request, BlankRequest, Statuses, ShapeOf
  <2>2. req' = [req EXCEPT ![r] = q]
    BY <1>1
  <2>3. q.status = "creating"
    BY DEF BlankRequest
  <2> HIDE DEF q
  <2>4. \A op \in Ops : ~Covers(r, op)'
    BY <2>2, <2>3 DEF Covers, Counted, LedgerInv, TypeOK
  <2> QED
    BY <1>1, <2>1, <2>2, <2>4, RequestInv
<1>2. CASE \E p \in Paid : CreateCheck(r, "purchase_remainder", p, NoOp)
  <2>1. PICK p \in Paid : CreateCheck(r, "purchase_remainder", p, NoOp)
    BY <1>2
  <2>2. PICK e \in RemainderEntitlement(p) :
            req' = [req EXCEPT ![r] = [BlankRequest EXCEPT
                        !.status = "creating", !.scope = e.scope,
                        !.purchase = e.purchase, !.spend = e.spend]]
    BY <2>1 DEF CreateCheck, Entitlement
  <2>3. e.purchase \in Paid /\ e.scope = "purchase_remainder" /\ e.spend = NoOp
    BY RemainderEntitlementType DEF LedgerInv
  <2> QED
    BY <2>1, <2>2, <2>3, <1>1 DEF CreateCheck
<1>3. CASE \E op \in Ops : CreateCheck(r, "operation", NoOp, op)
  <2>1. PICK op \in Ops : CreateCheck(r, "operation", NoOp, op)
    BY <1>3
  <2>2. PICK e \in OperationEntitlement(op) :
            req' = [req EXCEPT ![r] = [BlankRequest EXCEPT
                        !.status = "creating", !.scope = e.scope,
                        !.purchase = e.purchase, !.spend = e.spend]]
    BY <2>1 DEF CreateCheck, Entitlement
  <2>3. e.purchase \in Paid /\ e.scope = "operation" /\ e.spend \in Ops
    BY OperationEntitlementType DEF LedgerInv
  <2> QED
    BY <2>1, <2>2, <2>3, <1>1 DEF CreateCheck
<1> QED
  BY <1>2, <1>3

\* An operation is approved only while some allocation of it is unrestored.
LEMMA ApproveFullInv ==
    ASSUME LedgerInv, NEW r \in Requests, ApproveFull(r)
    PROVE  LedgerInv'
<1>1. /\ req[r] \in Request /\ req[r].status = "requested"
      /\ req[r].purchase \in Paid
      /\ req[r].scope = "operation" => req[r].spend \in Ops
      /\ ~req[r].attempt
      /\ UNCHANGED <<lotVars, rowVars, txn>>
  BY DEF LedgerInv, TypeOK, RequestShape, ShapeOf, InFlight, Request,
         ApproveFull
<1> DEFINE E == Entitlement(req[r].scope, req[r].purchase, req[r].spend)
<1>2. CASE \E e \in E : req' = [req EXCEPT ![r].status = "approved",
                                           ![r].units = e.units]
  <2>1. PICK e \in E : req' = [req EXCEPT ![r].status = "approved",
                                          ![r].units = e.units]
    BY <1>2
  <2> DEFINE q == [req[r] EXCEPT !.status = "approved", !.units = e.units]
  <2>2. req' = [req EXCEPT ![r] = q]
    BY <2>1, <1>1 DEF LedgerInv, TypeOK
  <2>3. CASE req[r].scope = "operation"
    <3>1. e \in OperationEntitlement(req[r].spend)
      BY <2>1, <2>3 DEF Entitlement
    <3>2. /\ e.units \in Nat /\ e.purchase \in Paid
          /\ alloc[req[r].spend][e.purchase] > 0
          /\ <<req[r].spend, e.purchase>> \notin restored
      BY <1>1, <2>3, <3>1, OperationEntitlementType DEF LedgerInv
    <3>3. q \in Request
      BY <1>1, <3>2 DEF Request, Statuses
    <3>4. ~(refund[req[r].spend] > 0)
      BY <1>1, <2>3, <3>2, LotsAssumption DEF LedgerInv, CreditedRestored
    <3>5. \A op \in Ops : Covers(r, op)' => ~(refund[op] > 0)
      BY <1>1, <2>2, <3>4 DEF Covers, LedgerInv, TypeOK, Request
    <3>6. ShapeOf(q)
      BY <1>1 DEF Request, ShapeOf
    <3> HIDE DEF q
    <3> QED
      BY <1>1, <2>2, <3>3, <3>5, <3>6, RequestInv
  <2>4. CASE req[r].scope # "operation"
    <3>1. e \in RemainderEntitlement(req[r].purchase)
      BY <2>1, <2>4 DEF Entitlement
    <3>2. e.units \in Nat
      BY <1>1, <3>1, RemainderEntitlementType DEF LedgerInv
    <3>3. q \in Request /\ q.scope # "operation"
      BY <1>1, <2>4, <3>2 DEF Request, Statuses
    <3>4. \A op \in Ops : ~Covers(r, op)'
      BY <2>2, <3>3 DEF Covers, LedgerInv, TypeOK
    <3>5. ShapeOf(q)
      BY <1>1, <2>4 DEF Request, ShapeOf
    <3> HIDE DEF q
    <3> QED
      BY <1>1, <2>2, <3>3, <3>4, <3>5, RequestInv
  <2> QED
    BY <2>3, <2>4
<1>3. CASE req' = [req EXCEPT ![r].status = "needs_review"]
  <2> DEFINE q == [req[r] EXCEPT !.status = "needs_review"]
  <2>1. req' = [req EXCEPT ![r] = q] /\ q \in Request
    BY <1>1, <1>3 DEF LedgerInv, TypeOK, Request, Statuses
  <2>2. ShapeOf(q)
    BY <1>1 DEF Request, ShapeOf
  <2>3. \A op \in Ops : ~Covers(r, op)'
    BY <1>1, <2>1 DEF Covers, Counted, LedgerInv, TypeOK, Request
  <2> HIDE DEF q
  <2> QED
    BY <1>1, <2>1, <2>2, <2>3, RequestInv
<1> QED
  BY <1>2, <1>3 DEF ApproveFull

\* A processing request covers its operation already.
LEMMA MarkAttemptInv ==
    ASSUME LedgerInv, NEW r \in Requests, MarkAttempt(r)
    PROVE  LedgerInv'
<1> DEFINE q == [req[r] EXCEPT !.attempt = TRUE]
<1>1. req[r] \in Request /\ req[r].status = "processing"
  BY DEF LedgerInv, TypeOK, MarkAttempt
<1>2. q \in Request /\ req' = [req EXCEPT ![r] = q] /\ ShapeOf(q)
  BY <1>1 DEF MarkAttempt, Request, LedgerInv, TypeOK, RequestShape, ShapeOf,
              InFlight
<1>3. \A op \in Ops : Covers(r, op)' => Covers(r, op)
  BY <1>1, <1>2 DEF Covers, Request, LedgerInv, TypeOK, Counted
<1> HIDE DEF q
<1> QED
  BY <1>2, <1>3, RequestInv DEF MarkAttempt

\* A parked request covers no more than it did while it counted.
LEMMA ParkInv == ASSUME LedgerInv, NEW r \in Requests, Park(r) PROVE LedgerInv'
<1>1. req[r] \in Request /\ req[r].status \in {"approved", "processing"}
  BY DEF LedgerInv, TypeOK, Park
<1>2. PICK kept \in {FALSE, req[r].attempt} :
          req' = [req EXCEPT ![r].status = "needs_review", ![r].attempt = kept]
  BY DEF Park
<1> DEFINE q == [req[r] EXCEPT !.status = "needs_review", !.attempt = kept]
<1>3. kept \in BOOLEAN
  BY <1>1 DEF Request
<1>4. q \in Request /\ req' = [req EXCEPT ![r] = q] /\ ShapeOf(q)
  BY <1>1, <1>2, <1>3 DEF Request, LedgerInv, TypeOK, RequestShape, ShapeOf,
              InFlight, Statuses
<1>5. \A op \in Ops : Covers(r, op)' => Covers(r, op)
  BY <1>1, <1>4 DEF Covers, Request, LedgerInv, TypeOK, Counted
<1> HIDE DEF q
<1> QED
  BY <1>4, <1>5, RequestInv DEF Park

\* A settled request keeps its shape and covers what it covered before.
LEMMA SettledType ==
    ASSUME LedgerInv, NEW r \in Requests, req[r].status \in InFlight,
           req' = [req EXCEPT ![r] = Settled(r)]
    PROVE  /\ req' \in [Requests -> Request] /\ RequestShape'
           /\ \A x \in Requests, op \in Ops : Covers(x, op)' => Covers(x, op)
<1>1. req[r] \in Request /\ ShapeOf(req[r])
  BY DEF LedgerInv, TypeOK, RequestShape
<1>2. Settled(r) \in Request /\ ShapeOf(Settled(r))
  BY <1>1 DEF Settled, Request, ShapeOf, InFlight, Statuses
<1>3. req' \in [Requests -> Request] /\ RequestShape'
  BY <1>2 DEF LedgerInv, TypeOK, RequestShape
<1>4. ASSUME NEW x \in Requests, NEW op \in Ops, Covers(x, op)'
      PROVE  Covers(x, op)
  <2>1. CASE x = r
    BY <1>1, <1>4, <2>1
       DEF Covers, Settled, Request, LedgerInv, TypeOK, Counted
  <2>2. CASE x # r
    BY <1>4, <2>2 DEF Covers, LedgerInv, TypeOK
  <2> QED
    BY <2>1, <2>2
<1> QED
  BY <1>3, <1>4

\* An operation is stamped only while its paid allocations are unrestored.
LEMMA FinalizeOperationInv ==
    ASSUME LedgerInv, NEW r \in Requests, FinalizeOperation(r)
    PROVE  LedgerInv'
<1> DEFINE op == req[r].spend
           paid == PaidLotsOf(op)
<1>1. /\ req[r].status \in InFlight /\ op \in Ops
      /\ req' = [req EXCEPT ![r] = Settled(r)]
      /\ \A g \in Lots : <<op, g>> \notin restored
      /\ stamp' = [a \in Ops \X Lots |->
                      IF a[1] = op /\ a[2] \in paid THEN r ELSE stamp[a]]
      /\ UNCHANGED <<createdAt, remaining, clawed, alloc, restored, rowVars,
                     txn>>
  BY DEF FinalizeOperation, LedgerInv, RequestShape, ShapeOf, InFlight
<1>2. /\ req' \in [Requests -> Request] /\ RequestShape'
      /\ \A x \in Requests, o \in Ops : Covers(x, o)' => Covers(x, o)
  BY <1>1, SettledType
<1>3. stamp' \in [Ops \X Lots -> Requests \cup {NoRequest}]
  <2>1. \A a \in Ops \X Lots : stamp[a] \in Requests \cup {NoRequest}
    BY DEF LedgerInv, TypeOK
  <2> QED
    BY <1>1, <2>1
<1>4. TypeOK' /\ TxnFresh' /\ CreditedSpent' /\ CreditedRestored'
  BY <1>1, <1>2, <1>3
     DEF LedgerInv, TypeOK, TxnFresh, CreditedSpent, CreditedRestored
<1>5. NoDoubleCompensation'
  <2> SUFFICES ASSUME NEW o \in Ops, refund[o] > 0, CashCompensated(o)'
               PROVE  FALSE
    BY <1>1 DEF NoDoubleCompensation
  <2>1. ~CashCompensated(o)
    BY DEF LedgerInv, NoDoubleCompensation
  <2>2. \A x \in Requests : ~Covers(x, o)'
    BY <1>2, <2>1 DEF CashCompensated, Covers
  <2>3. PICK g \in Lots : stamp'[o, g] # NoRequest
    BY <2>2 DEF CashCompensated, Covers
  <2>4. stamp[o, g] = NoRequest
    BY <2>1 DEF CashCompensated
  <2>5. o = op /\ g \in paid
    BY <1>1, <2>3, <2>4
  <2>6. alloc[op][g] > 0 /\ <<op, g>> \notin restored
    BY <1>1, <2>5 DEF PaidLotsOf
  <2> QED
    BY <2>5, <2>6 DEF LedgerInv, CreditedRestored
<1> QED
  BY <1>2, <1>4, <1>5 DEF LedgerInv

\* A clawback takes no more than the lot holds.
LEMMA FinalizeRemainderInv ==
    ASSUME LedgerInv, NEW r \in Requests, FinalizeRemainder(r)
    PROVE  LedgerInv'
<1> DEFINE p == req[r].purchase
           u == req[r].units
<1>1. /\ req[r].status \in InFlight /\ p \in Lots /\ u \in Nat
      /\ req' = [req EXCEPT ![r] = Settled(r)]
      /\ UNCHANGED <<createdAt, alloc, restored, stamp, spend, refund, txn>>
  BY LotsAssumption DEF FinalizeRemainder, LedgerInv, TypeOK, Request,
                        RequestShape, ShapeOf, InFlight
<1>2. /\ req' \in [Requests -> Request] /\ RequestShape'
      /\ \A x \in Requests, o \in Ops : Covers(x, o)' => Covers(x, o)
  BY <1>1, SettledType
<1>3. /\ remaining' \in [Lots -> Nat] /\ clawed' \subseteq Lots
      /\ clawback' \in [Requests -> Nat]
  <2>1. CASE UNCHANGED <<remaining, clawed, clawback>>
    BY <2>1 DEF LedgerInv, TypeOK
  <2>2. CASE /\ remaining[p] >= u
             /\ remaining' = [remaining EXCEPT ![p] = @ - u]
             /\ clawed' = IF remaining[p] = u THEN clawed \cup {p} ELSE clawed
             /\ clawback' = [clawback EXCEPT ![r] = u]
    <3>1. remaining[p] - u \in Nat
      BY <1>1, <2>2 DEF LedgerInv, TypeOK
    <3> HIDE DEF p, u
    <3>2. remaining' \in [Lots -> Nat]
      BY <1>1, <2>2, <3>1 DEF LedgerInv, TypeOK
    <3> QED
      BY <1>1, <2>2, <3>2 DEF LedgerInv, TypeOK
  <2> QED
    BY <2>1, <2>2 DEF FinalizeRemainder
<1>4. TypeOK' /\ TxnFresh' /\ CreditedSpent' /\ CreditedRestored'
  BY <1>1, <1>2, <1>3
     DEF LedgerInv, TypeOK, TxnFresh, CreditedSpent, CreditedRestored
<1>5. NoDoubleCompensation'
  BY <1>1, <1>2 DEF LedgerInv, NoDoubleCompensation, CashCompensated, Covers
<1> QED
  BY <1>2, <1>4, <1>5 DEF LedgerInv

-----------------------------------------------------------------------------
(* The invariant is inductive *)

\* One case per action.
LEMMA NextInv == LedgerInv /\ [Next]_vars => LedgerInv'
<1> SUFFICES ASSUME LedgerInv, [Next]_vars PROVE LedgerInv'
  OBVIOUS
<1>1. CASE UNCHANGED vars
  BY <1>1 DEF vars, LedgerInv, TypeOK, RequestShape, TxnFresh, CreditedSpent,
              CreditedRestored, NoDoubleCompensation, CashCompensated
<1>2. ASSUME NEW g \in Lots, Grant(g) PROVE LedgerInv'
  BY <1>2, GrantInv
<1>3. ASSUME NEW op \in Ops, NEW price \in Prices, SpendBegin(op, price)
      PROVE  LedgerInv'
  BY <1>3, SpendBeginInv
<1>4. CASE SpendCommit \/ SpendAbort
  BY <1>4, SpendCommitInv, SpendAbortInv
<1>5. ASSUME NEW op \in Ops, RefundOriginalSpend(op) PROVE LedgerInv'
  BY <1>5, RefundInv
<1>6. ASSUME NEW r \in Requests,
             \/ \E p \in Paid : CreateCheck(r, "purchase_remainder", p, NoOp)
             \/ \E op \in Ops : CreateCheck(r, "operation", NoOp, op)
      PROVE  LedgerInv'
  BY <1>6, CreateInv
<1>7. ASSUME NEW r \in Requests,
             CreateCommit(r) \/ Reject(r) \/ ApprovePartial(r)
               \/ StartProcessing(r) \/ MarkFailed(r)
      PROVE  LedgerInv'
  <2>1. CASE CreateCommit(r)
    BY <2>1, SetStatusInv DEF CreateCommit, Statuses, Counted, InFlight
  <2>2. CASE Reject(r)
    BY <2>2, SetStatusInv DEF Reject, Statuses, Counted, InFlight
  <2>3. CASE ApprovePartial(r)
    BY <2>3, SetStatusInv DEF ApprovePartial, Statuses, Counted, InFlight
  <2>4. CASE StartProcessing(r)
    BY <2>4, SetStatusInv DEF StartProcessing, Statuses, Counted, InFlight
  <2>5. CASE MarkFailed(r)
    BY <2>5, SetStatusInv DEF MarkFailed, Statuses, Counted, InFlight
  <2> QED
    BY <1>7, <2>1, <2>2, <2>3, <2>4, <2>5
<1>8. ASSUME NEW r \in Requests,
             ApproveFull(r) \/ MarkAttempt(r) \/ Park(r)
               \/ FinalizeOperation(r) \/ FinalizeRemainder(r)
      PROVE  LedgerInv'
  BY <1>8, ApproveFullInv, MarkAttemptInv, ParkInv, FinalizeOperationInv,
     FinalizeRemainderInv
<1> QED
  BY <1>1, <1>2, <1>3, <1>4, <1>5, <1>6, <1>7, <1>8 DEF Next

\* The inductive invariant holds in every reachable state of the ledger.
THEOREM LedgerInvariant == Spec => []LedgerInv
<1>1. Init => LedgerInv
  BY InitInv
<1>2. LedgerInv /\ [Next]_vars => LedgerInv'
  BY NextInv
<1> QED
  BY <1>1, <1>2, PTL DEF Spec

\* Whatever grants, spends and refunds do, the tables hold what their schema
\* says: no lot goes below zero, no allocation or stamp names a missing row.
THEOREM TypeCorrect == Spec => []TypeOK
<1>1. LedgerInv => TypeOK
  BY DEF LedgerInv
<1> QED
  BY <1>1, LedgerInvariant, PTL

\* The reciprocal guards of spend-credit-compensation.ts and of
\* resolveOperationCashRefund keep the two kinds of compensation of one spend
\* apart, for any number of spends, lots and concurrent refund requests.
THEOREM NeverCompensatedTwice == Spec => []NoDoubleCompensation
<1>1. LedgerInv => NoDoubleCompensation
  BY DEF LedgerInv
<1> QED
  BY <1>1, LedgerInvariant, PTL

-----------------------------------------------------------------------------
(* Where the units are: the invariants that add up *)

\* A lot that is not open holds nothing, and one that was never granted paid
\* for nothing.
LotsQuiet ==
    \A g \in Lots :
        /\ g \notin OpenLots => remaining[g] = 0
        /\ g \in clawed => g \in Granted
        /\ g \notin Granted => \A op \in Ops : alloc[op][g] = 0

\* Only what was drawn is restored, and only a spend draws.
AllocsDrawn ==
    \A op \in Ops, g \in Lots :
        /\ <<op, g>> \in restored => alloc[op][g] > 0
        /\ alloc[op][g] > 0 => spend[op] > 0

\* A clawback belongs to a request that has reached its worker.
ClawbackSettled ==
    \A r \in Requests :
        clawback[r] > 0 => /\ req[r].status \in InFlight
                           /\ req[r].purchase \in Granted

\* A request moves on; its purchase is given when it is created, and it comes
\* to count as money only with units for which its purchase has room.
ReqMoves(r) ==
    /\ req' \in [Requests -> Request]
    /\ \A x \in Requests : x # r => req'[x] = req[x]
    /\ req[r].status # "none" => req'[r].purchase = req[r].purchase
    /\ req[r].status \in InFlight => req'[r].status \in InFlight
    /\ req'[r].status \in Counted =>
          /\ req'[r].purchase = req[r].purchase
          /\ \/ req[r].status \in Counted /\ req'[r].units = req[r].units
             \/ /\ req[r].status \notin Counted
                /\ Monetized(req[r].purchase) + req'[r].units
                     <= GrantUnits[req[r].purchase]

\* No lot, allocation or row is touched, only stamps.
UnitsSame ==
    UNCHANGED <<createdAt, remaining, clawed, alloc, restored, rowVars, txn>>

\* The clawback of a remainder.
Claws(r) ==
    LET p == req[r].purchase
        u == req[r].units
    IN  /\ txn = NoTxn /\ req[r].status \in InFlight
        /\ p \in Lots /\ u \in Nat \ {0}
        /\ clawback[r] = 0 /\ remaining[p] >= u
        /\ remaining' = [remaining EXCEPT ![p] = @ - u]
        /\ clawed' = IF remaining[p] = u THEN clawed \cup {p} ELSE clawed
        /\ clawback' = [clawback EXCEPT ![r] = u]
        /\ UNCHANGED <<createdAt, alloc, restored, spend, refund, txn>>

\* What LedgerInv says of one request, field by field.
LEMMA RequestFields ==
    ASSUME LedgerInv, NEW r \in Requests
    PROVE  /\ req[r] \in Request /\ ShapeOf(req[r])
           /\ req[r].status \in Statuses /\ req[r].units \in Nat
  BY DEF LedgerInv, TypeOK, RequestShape, Request

\* A change of status alone neither makes a request count as money that did
\* not before nor takes it out of its worker's hands.
LEMMA SetStatusMoves ==
    ASSUME LedgerInv, NEW r \in Requests, NEW from, NEW to \in Statuses,
           SetStatus(r, from, to),
           to \in Counted => from \subseteq Counted,
           to \in InFlight \/ from \cap InFlight = {}
    PROVE  ReqMoves(r) /\ UnitsSame
<1>1. req[r] \in Request
  BY RequestFields
<1>2. req' = [req EXCEPT ![r] = [req[r] EXCEPT !.status = to]]
  BY DEF SetStatus
<1>3. [req[r] EXCEPT !.status = to] \in Request
  BY <1>1 DEF Request
<1>4. req \in [Requests -> Request]
  BY DEF LedgerInv, TypeOK
<1> QED
  BY <1>1, <1>2, <1>3, <1>4 DEF SetStatus, ReqMoves, UnitsSame, Request

\* What the requests of one purchase count for, request by request.
CountedUnits(q, p) ==
    [r \in Requests |-> IF q[r].purchase = p /\ q[r].status \in Counted
                       THEN q[r].units ELSE 0]

\* alreadyMonetizedCreditUnits adds over the counted requests of a purchase;
\* the same sum over all requests, with zero for the others.
LEMMA MonetizedSum ==
    ASSUME NEW q, q \in [Requests -> Request], NEW p
    PROVE  SumFunctionOnSet([r \in Requests |-> q[r].units],
                            {r \in Requests : /\ q[r].purchase = p
                                              /\ q[r].status \in Counted})
             = SumFunctionOnSet(CountedUnits(q, p), Requests)
<1> DEFINE A == {r \in Requests : /\ q[r].purchase = p
                                  /\ q[r].status \in Counted}
           f == [r \in Requests |-> q[r].units]
           g == CountedUnits(q, p)
<1>1. A \subseteq Requests
  OBVIOUS
<1>2. \A r \in Requests : f[r] \in Int /\ g[r] = IF r \in A THEN f[r] ELSE 0
  BY DEF Request, CountedUnits
<1> HIDE DEF A, f, g
<1>3. SumFunctionOnSet(f, A) = SumFunctionOnSet(g, Requests)
  BY <1>1, <1>2, OpsAssumption, SumWhere
<1> QED
  BY <1>3 DEF A, f, g

\* What was monetized of a purchase is a natural number of units.
LEMMA MonetizedNat == ASSUME LedgerInv, NEW p PROVE Monetized(p) \in Nat
<1>1. req \in [Requests -> Request]
  BY DEF LedgerInv, TypeOK
<1>2. Monetized(p) = SumFunctionOnSet(CountedUnits(req, p), Requests)
  BY <1>1, MonetizedSum DEF Monetized
<1>3. \A r \in Requests : CountedUnits(req, p)[r] \in Nat
  BY <1>1 DEF CountedUnits, Request
<1> QED
  BY <1>2, <1>3, SumNat, OpsAssumption

\* Each step of a request, and what it does to the units.
LEMMA CreateMoves ==
    ASSUME LedgerInv, NEW r \in Requests,
           \/ \E p \in Paid : CreateCheck(r, "purchase_remainder", p, NoOp)
           \/ \E op \in Ops : CreateCheck(r, "operation", NoOp, op)
    PROVE  ReqMoves(r) /\ UnitsSame
<1>1. LedgerInv'
  BY CreateInv
<1>2. req' \in [Requests -> Request]
  BY <1>1 DEF LedgerInv, TypeOK
<1>3. /\ req[r].status = "none" /\ req \in [Requests -> Request]
      /\ \A x \in Requests : x # r => req'[x] = req[x]
      /\ req'[r].status = "creating"
      /\ UnitsSame
  <2>1. /\ req[r].status = "none" /\ req \in [Requests -> Request]
        /\ UnitsSame
    BY DEF CreateCheck, LedgerInv, TypeOK, UnitsSame
  <2>2. PICK e : req' = [req EXCEPT ![r] = [BlankRequest EXCEPT
                            !.status = "creating", !.scope = e.scope,
                            !.purchase = e.purchase, !.spend = e.spend]]
    BY DEF CreateCheck
  <2> DEFINE q == [BlankRequest EXCEPT
                            !.status = "creating", !.scope = e.scope,
                            !.purchase = e.purchase, !.spend = e.spend]
  <2>3. q.status = "creating" /\ req' = [req EXCEPT ![r] = q]
    BY <2>2 DEF BlankRequest
  <2> HIDE DEF q
  <2> QED
    BY <2>1, <2>3
<1> QED
  BY <1>2, <1>3 DEF ReqMoves, InFlight, Counted

\* The approval under the user lock is the only step that makes a request
\* count, and the entitlement it stores leaves room in the purchase.
LEMMA ApproveFullMoves ==
    ASSUME LedgerInv, NEW r \in Requests, ApproveFull(r)
    PROVE  ReqMoves(r) /\ UnitsSame
<1> DEFINE E == Entitlement(req[r].scope, req[r].purchase, req[r].spend)
<1>1. LedgerInv'
  BY ApproveFullInv
<1>2. req' \in [Requests -> Request] /\ req \in [Requests -> Request]
  BY <1>1 DEF LedgerInv, TypeOK
<1>3. /\ req[r] \in Request /\ req[r].status = "requested"
      /\ req[r].purchase \in Paid
      /\ UnitsSame
  BY <1>2 DEF LedgerInv, RequestShape, ShapeOf, Request, ApproveFull, UnitsSame
<1>4. CASE /\ E = {}
           /\ req' = [req EXCEPT ![r].status = "needs_review"]
  BY <1>2, <1>3, <1>4 DEF ReqMoves, InFlight, Counted, Request
<1>5. CASE \E e \in E : /\ e.purchase = req[r].purchase
                        /\ req' = [req EXCEPT ![r].status = "approved",
                                              ![r].units = e.units]
  <2>1. PICK e \in E : /\ e.purchase = req[r].purchase
                       /\ req' = [req EXCEPT ![r].status = "approved",
                                             ![r].units = e.units]
    BY <1>5
  <2>2. Monetized(e.purchase) + e.units <= GrantUnits[e.purchase]
    <3>1. CASE req[r].scope = "operation"
      <4>1. e \in OperationEntitlement(req[r].spend)
        BY <2>1, <3>1 DEF Entitlement
      <4>2. PICK p \in Paid :
                /\ e = [scope |-> "operation", purchase |-> p,
                        spend |-> req[r].spend, units |-> alloc[req[r].spend][p]]
                /\ Monetized(p) + alloc[req[r].spend][p] <= GrantUnits[p]
        BY <4>1 DEF OperationEntitlement
      <4> QED
        BY <4>2
    <3>2. CASE req[r].scope # "operation"
      <4>1. e \in RemainderEntitlement(req[r].purchase)
        BY <2>1, <3>2 DEF Entitlement
      <4>2. /\ e.units = Min2(remaining[req[r].purchase],
                              GrantUnits[req[r].purchase]
                                - Monetized(req[r].purchase))
            /\ e.purchase = req[r].purchase
        BY <4>1 DEF RemainderEntitlement
      <4>3. /\ remaining[req[r].purchase] \in Nat
            /\ GrantUnits[req[r].purchase] \in Nat
            /\ Monetized(req[r].purchase) \in Nat
        BY <1>3, LotsAssumption, MonetizedNat DEF LedgerInv, TypeOK
      <4> QED
        BY <4>2, <4>3 DEF Min2
    <3> QED
      BY <3>1, <3>2
  <2>3. /\ req'[r].status = "approved" /\ req'[r].units = e.units
        /\ req'[r].purchase = req[r].purchase
        /\ \A x \in Requests : x # r => req'[x] = req[x]
    BY <1>2, <1>3, <2>1 DEF Request
  <2> QED
    BY <1>2, <1>3, <2>1, <2>2, <2>3 DEF ReqMoves, InFlight, Counted
<1> QED
  BY <1>4, <1>5 DEF ApproveFull

\* Marking the attempt leaves status, purchase and units alone.
LEMMA MarkAttemptMoves ==
    ASSUME LedgerInv, NEW r \in Requests, MarkAttempt(r)
    PROVE  ReqMoves(r) /\ UnitsSame
<1>1. req' \in [Requests -> Request] /\ req \in [Requests -> Request]
  BY MarkAttemptInv DEF LedgerInv, TypeOK
<1> QED
  BY <1>1 DEF MarkAttempt, ReqMoves, UnitsSame, InFlight, Counted, Request

\* Parking a request in needs_review leaves its purchase and units alone.
LEMMA ParkMoves ==
    ASSUME LedgerInv, NEW r \in Requests, Park(r)
    PROVE  ReqMoves(r) /\ UnitsSame
<1>1. req' \in [Requests -> Request] /\ req \in [Requests -> Request]
  BY ParkInv DEF LedgerInv, TypeOK
<1> QED
  BY <1>1 DEF Park, ReqMoves, UnitsSame, InFlight, Counted, Request

\* markRefunded moves a processing request to refunded and no other; both
\* statuses count.
LEMMA SettledMoves ==
    ASSUME LedgerInv, NEW r \in Requests, req[r].status \in InFlight,
           req' = [req EXCEPT ![r] = Settled(r)]
    PROVE  ReqMoves(r)
<1>1. req' \in [Requests -> Request] /\ req \in [Requests -> Request]
  BY SettledType DEF LedgerInv, TypeOK
<1>2. /\ req'[r] = Settled(r) /\ req[r] \in Request
      /\ \A x \in Requests : x # r => req'[x] = req[x]
  BY <1>1
<1>3. /\ Settled(r).purchase = req[r].purchase
      /\ Settled(r).units = req[r].units
      /\ Settled(r).status \in InFlight
      /\ Settled(r).status \in Counted => req[r].status \in Counted
  BY <1>2 DEF Settled, Request, InFlight, Counted
<1> QED
  BY <1>1, <1>2, <1>3 DEF ReqMoves

\* The stamps of an operation refund move no units.
LEMMA FinalizeOperationMoves ==
    ASSUME LedgerInv, NEW r \in Requests, FinalizeOperation(r)
    PROVE  ReqMoves(r) /\ UnitsSame
  BY SettledMoves DEF FinalizeOperation, UnitsSame

\* A remainder refund claws its units back, or finds its clawback row and
\* moves nothing.
LEMMA FinalizeRemainderMoves ==
    ASSUME LedgerInv, NEW r \in Requests, FinalizeRemainder(r)
    PROVE  ReqMoves(r) /\ (UnitsSame \/ Claws(r))
<1>1. ReqMoves(r)
  BY SettledMoves DEF FinalizeRemainder
<1>2. /\ req[r].purchase \in Lots /\ req[r].units \in Nat
      /\ req[r].status \in InFlight
  BY LotsAssumption, RequestFields DEF FinalizeRemainder, ShapeOf, InFlight
<1>3. CASE UNCHANGED <<remaining, clawed, clawback>>
  BY <1>1, <1>3 DEF FinalizeRemainder, UnitsSame
<1>4. CASE ~ UNCHANGED <<remaining, clawed, clawback>>
  BY <1>1, <1>2, <1>4 DEF FinalizeRemainder, Claws
<1> QED
  BY <1>3, <1>4

\* Every step of the ledger is one of these six.
LEMMA StepKinds ==
    ASSUME LedgerInv, Next
    PROVE  \/ \E g \in Lots : Grant(g)
           \/ \E op \in Ops, price \in Prices : SpendBegin(op, price)
           \/ SpendCommit
           \/ SpendAbort
           \/ \E op \in Ops : RefundOriginalSpend(op)
           \/ \E r \in Requests : ReqMoves(r) /\ (UnitsSame \/ Claws(r))
<1>1. ASSUME NEW r \in Requests,
             CreateCommit(r) \/ Reject(r) \/ ApprovePartial(r)
               \/ StartProcessing(r) \/ MarkFailed(r)
      PROVE  ReqMoves(r) /\ UnitsSame
  <2>1. CASE CreateCommit(r)
    BY <2>1, SetStatusMoves DEF CreateCommit, Statuses, Counted, InFlight
  <2>2. CASE Reject(r)
    BY <2>2, SetStatusMoves DEF Reject, Statuses, Counted, InFlight
  <2>3. CASE ApprovePartial(r)
    BY <2>3, SetStatusMoves DEF ApprovePartial, Statuses, Counted, InFlight
  <2>4. CASE StartProcessing(r)
    BY <2>4, SetStatusMoves DEF StartProcessing, Statuses, Counted, InFlight
  <2>5. CASE MarkFailed(r)
    BY <2>5, SetStatusMoves DEF MarkFailed, Statuses, Counted, InFlight
  <2> QED
    BY <1>1, <2>1, <2>2, <2>3, <2>4, <2>5
<1>2. ASSUME NEW r \in Requests,
             \/ \E p \in Paid : CreateCheck(r, "purchase_remainder", p, NoOp)
             \/ \E op \in Ops : CreateCheck(r, "operation", NoOp, op)
      PROVE  ReqMoves(r) /\ UnitsSame
  BY <1>2, CreateMoves
<1>3. ASSUME NEW r \in Requests,
             ApproveFull(r) \/ MarkAttempt(r) \/ Park(r)
               \/ FinalizeOperation(r) \/ FinalizeRemainder(r)
      PROVE  ReqMoves(r) /\ (UnitsSame \/ Claws(r))
  BY <1>3, ApproveFullMoves, MarkAttemptMoves, ParkMoves,
     FinalizeOperationMoves, FinalizeRemainderMoves
<1> QED
  BY <1>1, <1>2, <1>3 DEF Next

\* The part of the invariant that speaks of single lots and requests, without
\* sums.
LotsInv == LotsQuiet /\ AllocsDrawn /\ ClawbackSettled

\* No lot is granted, drawn from or clawed at first.
LEMMA InitLots == Init => LotsInv
  BY DEF Init, LotsInv, LotsQuiet, AllocsDrawn, ClawbackSettled

\* A grant opens its lot and no other.
LEMMA GrantLots ==
    ASSUME LedgerInv, LotsInv, NEW g \in Lots, Grant(g)
    PROVE  LotsInv' /\ g \notin Granted /\ Granted' = Granted \cup {g}
<1>1. createdAt' = [createdAt EXCEPT ![g] = Cardinality(Granted) + 1]
  BY DEF Grant
<1>2. Cardinality(Granted) \in Nat
  <2>1. IsFiniteSet(Granted)
    BY FS_Subset, LotsAssumption DEF Granted
  <2> QED
    BY <2>1, FS_CardinalityType
<1> DEFINE n == Cardinality(Granted) + 1
<1>3. /\ n > 0 /\ createdAt' = [createdAt EXCEPT ![g] = n]
      /\ createdAt[g] = 0 /\ createdAt \in [Lots -> Nat]
  BY <1>1, <1>2 DEF Grant, LedgerInv, TypeOK
<1> HIDE DEF n
<1>4. g \notin Granted /\ Granted' = Granted \cup {g}
  BY <1>3 DEF Granted
<1>5. g \notin clawed
  BY <1>4 DEF LotsInv, LotsQuiet
<1>6. OpenLots' = OpenLots \cup {g}
  BY <1>4, <1>5 DEF OpenLots, Grant
<1>7. LotsQuiet'
  BY <1>4, <1>6 DEF LotsQuiet, LotsInv, LedgerInv, TypeOK, Grant
<1>8. AllocsDrawn' /\ ClawbackSettled'
  BY <1>4 DEF LotsInv, AllocsDrawn, ClawbackSettled, Grant
<1> QED
  BY <1>4, <1>7, <1>8 DEF LotsInv

\* A draw touches open lots only.
LEMMA SpendCommitLots ==
    ASSUME LedgerInv, LotsInv, SpendCommit
    PROVE  LotsInv'
<1>1. PICK d \in FifoDraws(txn.price - Min2(Unlotted(txn.balance), txn.price)) :
          /\ remaining' = [g \in Lots |-> remaining[g] - d[g]]
          /\ alloc' = [alloc EXCEPT ![txn.op] = d]
  BY DEF SpendCommit
<1>2. /\ d \in [Lots -> Nat]
      /\ \A g \in Lots : d[g] <= remaining[g]
      /\ \A g \in Lots : d[g] > 0 => g \in OpenLots
  BY <1>1, DrawBounds, NeedNat DEF LedgerInv, SpendCommit
<1>3. txn.op \in Ops /\ txn.price \in Nat \ {0} /\ txn # NoTxn
  BY OpsAssumption DEF LedgerInv, TypeOK, SpendCommit
<1>4. Granted' = Granted /\ OpenLots' = OpenLots /\ clawed' = clawed
  BY DEF SpendCommit, Granted, OpenLots
<1>5. LotsQuiet'
  <2> SUFFICES ASSUME NEW g \in Lots
               PROVE  /\ g \notin OpenLots => remaining'[g] = 0
                      /\ g \in clawed => g \in Granted
                      /\ g \notin Granted => \A op \in Ops : alloc'[op][g] = 0
    BY <1>4 DEF LotsQuiet
  <2>1. remaining'[g] = remaining[g] - d[g] /\ d[g] \in Nat
    BY <1>1, <1>2
  <2>2. \A op \in Ops : alloc'[op][g] = IF op = txn.op THEN d[g] ELSE alloc[op][g]
    BY <1>1, <1>3 DEF LedgerInv, TypeOK
  <2>3. g \notin Granted => g \notin OpenLots
    BY DEF OpenLots
  <2> QED
    BY <1>2, <2>1, <2>2, <2>3 DEF LotsInv, LotsQuiet, LedgerInv, TypeOK
<1>6. AllocsDrawn'
  <2> SUFFICES ASSUME NEW op \in Ops, NEW g \in Lots
               PROVE  /\ <<op, g>> \in restored => alloc'[op][g] > 0
                      /\ alloc'[op][g] > 0 => spend'[op] > 0
    BY DEF AllocsDrawn, SpendCommit
  <2>1. CASE op = txn.op
    <3>1. spend[op] = 0
      BY <1>3, <2>1 DEF LedgerInv, TxnFresh
    <3>2. <<op, g>> \notin restored
      BY <3>1 DEF LotsInv, AllocsDrawn
    <3>3. spend'[op] > 0
      BY <1>3, <2>1 DEF SpendCommit, LedgerInv, TypeOK
    <3> QED
      BY <3>2, <3>3
  <2>2. CASE op # txn.op
    <3>1. alloc'[op] = alloc[op] /\ spend'[op] = spend[op]
      BY <1>1, <1>3, <2>2 DEF SpendCommit, LedgerInv, TypeOK
    <3> QED
      BY <3>1 DEF LotsInv, AllocsDrawn
  <2> QED
    BY <2>1, <2>2
<1>7. ClawbackSettled'
  BY <1>4 DEF LotsInv, ClawbackSettled, SpendCommit
<1> QED
  BY <1>5, <1>6, <1>7 DEF LotsInv

\* What is restored goes back to open lots only.
LEMMA RefundLots ==
    ASSUME LedgerInv, LotsInv, NEW op \in Ops, RefundOriginalSpend(op)
    PROVE  LotsInv'
<1>1. /\ Granted' = Granted /\ OpenLots' = OpenLots /\ clawed' = clawed
      /\ alloc' = alloc /\ spend' = spend
  BY DEF RefundOriginalSpend, Granted, OpenLots
<1>2. \A g \in Lots : remaining'[g] = IF g \in Restorable(op) \ clawed
                                      THEN remaining[g] + alloc[op][g]
                                      ELSE remaining[g]
  BY DEF RefundOriginalSpend, RestoreLots
<1>3. LotsQuiet'
  <2> SUFFICES ASSUME NEW g \in Lots, g \notin OpenLots
               PROVE  remaining'[g] = 0
    BY <1>1 DEF LotsQuiet, LotsInv
  <2>1. remaining[g] = 0
    BY DEF LotsInv, LotsQuiet
  <2>2. CASE g \in clawed
    BY <1>2, <2>1, <2>2
  <2>3. CASE g \notin clawed
    <3>1. alloc[op][g] = 0
      BY <2>3 DEF LotsInv, LotsQuiet, OpenLots
    <3>2. ~(alloc[op][g] > 0)
      BY <3>1
    <3>3. g \notin Restorable(op)
      BY <3>2, Zenon DEF Restorable
    <3> QED
      BY <1>2, <2>1, <3>3
  <2> QED
    BY <2>2, <2>3
<1>4. AllocsDrawn'
  BY <1>1 DEF LotsInv, AllocsDrawn, RefundOriginalSpend, RestoreLots, Restorable
<1>5. ClawbackSettled'
  BY <1>1 DEF LotsInv, ClawbackSettled, RefundOriginalSpend
<1> QED
  BY <1>3, <1>4, <1>5 DEF LotsInv

\* A clawback empties a lot only when it also closes it.
LEMMA RequestLots ==
    ASSUME LedgerInv, LotsInv, NEW r \in Requests, ReqMoves(r),
           UnitsSame \/ Claws(r)
    PROVE  LotsInv'
<1>1. createdAt' = createdAt /\ alloc' = alloc /\ restored' = restored
      /\ spend' = spend /\ Granted' = Granted
  BY DEF UnitsSame, Claws, Granted
<1>2. AllocsDrawn'
  BY <1>1 DEF LotsInv, AllocsDrawn
<1>3. CASE UnitsSame
  <2>1. LotsQuiet'
    BY <1>1, <1>3 DEF LotsInv, LotsQuiet, UnitsSame, OpenLots
  <2>2. ClawbackSettled'
    BY <1>1, <1>3 DEF LotsInv, ClawbackSettled, UnitsSame, ReqMoves, InFlight
  <2> QED
    BY <1>2, <2>1, <2>2 DEF LotsInv
<1>4. CASE Claws(r)
  <2> DEFINE p == req[r].purchase
             u == req[r].units
  <2>1. /\ p \in Lots /\ u \in Nat \ {0} /\ remaining[p] >= u
        /\ remaining' = [remaining EXCEPT ![p] = @ - u]
        /\ clawed' = IF remaining[p] = u THEN clawed \cup {p} ELSE clawed
        /\ clawback' = [clawback EXCEPT ![r] = u]
        /\ req[r].status \in InFlight
    BY <1>4 DEF Claws
  <2>2. req'[r].status \in InFlight /\ req'[r].purchase = p
    <3>1. req[r].status \in InFlight
      BY <1>4 DEF Claws
    <3>2. req[r].status # "none"
      BY <3>1 DEF InFlight
    <3> QED
      BY <3>1, <3>2 DEF ReqMoves
  <2> HIDE DEF p, u
  <2>3. remaining \in [Lots -> Nat] /\ clawback \in [Requests -> Nat]
    BY DEF LedgerInv, TypeOK
  <2>4. remaining[p] > 0
    BY <2>1, <2>3
  <2>5. p \in OpenLots /\ p \in Granted
    BY <2>1, <2>4 DEF LotsInv, LotsQuiet, OpenLots
  <2>6. LotsQuiet'
    <3> SUFFICES ASSUME NEW g \in Lots
                 PROVE  /\ g \notin OpenLots' => remaining'[g] = 0
                        /\ g \in clawed' => g \in Granted
      BY <1>1 DEF LotsQuiet, LotsInv
    <3>1. g \in clawed' => g \in Granted
      BY <2>1, <2>5 DEF LotsInv, LotsQuiet
    <3>2. CASE g = p
      BY <1>1, <2>1, <2>3, <2>5, <3>1, <3>2 DEF OpenLots
    <3>3. CASE g # p
      BY <1>1, <2>1, <2>3, <3>1, <3>3 DEF LotsInv, LotsQuiet, OpenLots
    <3> QED
      BY <3>2, <3>3
  <2>7. ClawbackSettled'
    BY <1>1, <2>1, <2>2, <2>3, <2>5
       DEF LotsInv, ClawbackSettled, ReqMoves
  <2> QED
    BY <1>2, <2>6, <2>7 DEF LotsInv
<1> QED
  BY <1>3, <1>4

\* LotsInv is inductive relative to LedgerInv.
LEMMA NextLots == LedgerInv /\ LotsInv /\ [Next]_vars => LotsInv'
<1> SUFFICES ASSUME LedgerInv, LotsInv, [Next]_vars PROVE LotsInv'
  OBVIOUS
<1>1. CASE UNCHANGED vars
  BY <1>1 DEF vars, LotsInv, LotsQuiet, AllocsDrawn, ClawbackSettled,
              OpenLots, Granted
<1>2. ASSUME \/ \E op \in Ops, price \in Prices : SpendBegin(op, price)
             \/ SpendAbort
      PROVE  LotsInv'
  <2>1. /\ createdAt' = createdAt /\ remaining' = remaining
        /\ clawed' = clawed /\ alloc' = alloc /\ restored' = restored
        /\ spend' = spend /\ clawback' = clawback /\ req' = req
    BY <1>2 DEF SpendBegin, SpendAbort
  <2> QED
    BY <2>1 DEF LotsInv, LotsQuiet, AllocsDrawn, ClawbackSettled, OpenLots,
                Granted
<1>3. CASE Next
  BY <1>2, <1>3, StepKinds, GrantLots, SpendCommitLots, RefundLots, RequestLots
<1> QED
  BY <1>1, <1>3

-----------------------------------------------------------------------------
(* Monetized units stay within the grant *)

\* One request changes, and the sum with it: by nothing, downwards, or by
\* units for which the purchase had room.
LEMMA MonetizedMoves ==
    ASSUME LedgerInv, MonetizedWithinGrant, NEW r \in Requests, ReqMoves(r)
    PROVE  MonetizedWithinGrant'
<1> SUFFICES ASSUME NEW p \in Paid PROVE Monetized(p)' <= GrantUnits[p]
  BY DEF MonetizedWithinGrant
<1> DEFINE f == CountedUnits(req, p)
           g == CountedUnits(req', p)
<1>1. req \in [Requests -> Request] /\ req' \in [Requests -> Request]
  BY DEF LedgerInv, TypeOK, ReqMoves
<1>2. /\ Monetized(p) = SumFunctionOnSet(f, Requests)
      /\ Monetized(p)' = SumFunctionOnSet(g, Requests)
  BY <1>1, MonetizedSum DEF Monetized
<1>3. \A x \in Requests : f[x] \in Nat /\ g[x] \in Nat
  BY <1>1 DEF CountedUnits, Request
<1>4. \A x \in Requests : x # r => f[x] = g[x]
  BY DEF CountedUnits, ReqMoves
<1>5. \/ g[r] <= f[r]
      \/ f[r] = 0 /\ Monetized(p) + g[r] <= GrantUnits[p]
  <2>1. CASE req'[r].status \in Counted /\ req'[r].purchase = p
    <3>1. req[r].purchase = p /\ g[r] = req'[r].units
      BY <2>1 DEF ReqMoves, CountedUnits
    <3>2. CASE req[r].status \in Counted /\ req'[r].units = req[r].units
      BY <1>3, <3>1, <3>2 DEF CountedUnits
    <3>3. CASE /\ req[r].status \notin Counted
               /\ Monetized(p) + req'[r].units <= GrantUnits[p]
      BY <3>1, <3>3 DEF CountedUnits
    <3> QED
      BY <2>1, <3>1, <3>2, <3>3 DEF ReqMoves
  <2>2. CASE ~(req'[r].status \in Counted /\ req'[r].purchase = p)
    <3>1. g[r] = 0
      BY <2>2 DEF CountedUnits
    <3> QED
      BY <1>3, <3>1
  <2> QED
    BY <2>1, <2>2
<1> HIDE DEF f, g
<1>6. SumFunctionOnSet(g, Requests) = SumFunctionOnSet(f, Requests) - f[r] + g[r]
  <2>1. \A x \in Requests : f[x] \in Int /\ g[x] \in Int
    BY <1>3
  <2> QED
    BY <1>4, <2>1, OpsAssumption, SumUpdate
<1>7. Monetized(p) \in Nat /\ GrantUnits[p] \in Nat
  BY MonetizedNat, LotsAssumption
<1>8. Monetized(p) <= GrantUnits[p]
  BY DEF MonetizedWithinGrant
<1>9. f[r] \in Nat /\ g[r] \in Nat
  BY <1>3
<1>10. Monetized(p)' = Monetized(p) - f[r] + g[r]
  BY <1>2, <1>6
<1> HIDE <1>2, <1>6
<1> QED
  BY <1>5, <1>7, <1>8, <1>9, <1>10

\* No request counts as money at first.
LEMMA InitMonetized == Init => MonetizedWithinGrant
<1> SUFFICES ASSUME Init, NEW p \in Paid PROVE Monetized(p) <= GrantUnits[p]
  BY DEF MonetizedWithinGrant
<1>1. LedgerInv
  BY InitInv
<1>2. req \in [Requests -> Request] /\ \A r \in Requests : req[r].status = "none"
  BY <1>1 DEF Init, BlankRequest, LedgerInv, TypeOK
<1>3. \A r \in Requests : CountedUnits(req, p)[r] = 0
  BY <1>2 DEF CountedUnits, Counted
<1>4. Monetized(p) = 0
  BY <1>2, <1>3, MonetizedSum, SumZero, OpsAssumption DEF Monetized
<1>5. GrantUnits[p] \in Nat
  BY LotsAssumption
<1> QED
  BY <1>4, <1>5

-----------------------------------------------------------------------------
(* Where the units of one lot went *)

\* What each operation still has from lot g, and what each request took back.
Drawn(al, rs, g) == [op \in Ops |-> IF <<op, g>> \in rs THEN 0 ELSE al[op][g]]
TakenBack(cb, q, g) ==
    [r \in Requests |-> IF q[r].purchase = g THEN cb[r] ELSE 0]

\* UnitsOut with its rows as parameters, so that it can be compared between a
\* state and the next.
OutOf(al, rs, cb, q, g) ==
    SumFunctionOnSet([op \in Ops |-> al[op][g]], {op \in Ops : <<op, g>> \notin rs})
      + SumFunctionOnSet(cb, {r \in Requests : q[r].purchase = g})

\* The two sums of UnitsOut, over all operations and all requests.
LEMMA OutSums ==
    ASSUME NEW al \in [Ops -> [Lots -> Nat]], NEW rs,
           NEW cb \in [Requests -> Nat], NEW q, NEW g \in Lots
    PROVE  /\ OutOf(al, rs, cb, q, g)
                = SumFunctionOnSet(Drawn(al, rs, g), Ops)
                    + SumFunctionOnSet(TakenBack(cb, q, g), Requests)
           /\ \A op \in Ops : Drawn(al, rs, g)[op] \in Nat
           /\ \A r \in Requests : TakenBack(cb, q, g)[r] \in Nat
           /\ SumFunctionOnSet(Drawn(al, rs, g), Ops) \in Nat
           /\ SumFunctionOnSet(TakenBack(cb, q, g), Requests) \in Nat
<1> DEFINE A == {op \in Ops : <<op, g>> \notin rs}
           f == [op \in Ops |-> al[op][g]]
           d == Drawn(al, rs, g)
           B == {r \in Requests : q[r].purchase = g}
           t == TakenBack(cb, q, g)
<1>1. \A op \in Ops : f[op] \in Nat
  OBVIOUS
<1>2. \A op \in Ops : d[op] = IF op \in A THEN f[op] ELSE 0
  BY DEF Drawn
<1>3. \A r \in Requests : t[r] = IF r \in B THEN cb[r] ELSE 0
  BY DEF TakenBack
<1>4. A \subseteq Ops /\ B \subseteq Requests
  OBVIOUS
<1> HIDE DEF A, B, f, d, t
<1>5. \A op \in Ops : d[op] \in Nat
  BY <1>1, <1>2
<1>6. \A r \in Requests : t[r] \in Nat
  BY <1>3
<1>7. SumFunctionOnSet(f, A) = SumFunctionOnSet(d, Ops)
  <2>1. \A op \in Ops : f[op] \in Int /\ d[op] = IF op \in A THEN f[op] ELSE 0
    BY <1>1, <1>2
  <2> QED
    BY <2>1, <1>4, OpsAssumption, SumWhere
<1>8. SumFunctionOnSet(cb, B) = SumFunctionOnSet(t, Requests)
  <2>1. \A r \in Requests : cb[r] \in Int /\ t[r] = IF r \in B THEN cb[r] ELSE 0
    BY <1>3
  <2> QED
    BY <2>1, <1>4, OpsAssumption, SumWhere
<1>9. SumFunctionOnSet(d, Ops) \in Nat /\ SumFunctionOnSet(t, Requests) \in Nat
  BY <1>5, <1>6, SumNat, OpsAssumption
<1>10. OutOf(al, rs, cb, q, g)
         = SumFunctionOnSet(f, A) + SumFunctionOnSet(cb, B)
  BY DEF OutOf, f, A, B
<1> QED
  BY <1>5, <1>6, <1>7, <1>8, <1>9, <1>10 DEF d, t

\* UnitsOut in this state and in the next, as OutOf.
LEMMA OutIs ==
    ASSUME NEW g
    PROVE  /\ UnitsOut(g) = OutOf(alloc, restored, clawback, req, g)
           /\ UnitsOut(g)' = OutOf(alloc', restored', clawback', req', g)
  BY DEF UnitsOut, OutOf

\* The sums of UnitsOut in this state.
LEMMA OutParts ==
    ASSUME LedgerInv, NEW g \in Lots
    PROVE  /\ UnitsOut(g)
                = SumFunctionOnSet(Drawn(alloc, restored, g), Ops)
                    + SumFunctionOnSet(TakenBack(clawback, req, g), Requests)
           /\ \A op \in Ops : Drawn(alloc, restored, g)[op] \in Nat
           /\ \A r \in Requests : TakenBack(clawback, req, g)[r] \in Nat
           /\ SumFunctionOnSet(Drawn(alloc, restored, g), Ops) \in Nat
           /\ SumFunctionOnSet(TakenBack(clawback, req, g), Requests) \in Nat
<1>1. alloc \in [Ops -> [Lots -> Nat]] /\ clawback \in [Requests -> Nat]
  BY DEF LedgerInv, TypeOK
<1>2. UnitsOut(g) = OutOf(alloc, restored, clawback, req, g)
  BY OutIs
<1> QED
  BY <1>1, <1>2, OutSums, Zenon

\* The same in the next state.
LEMMA OutPartsNext ==
    ASSUME LedgerInv', NEW g \in Lots
    PROVE  /\ UnitsOut(g)'
                = SumFunctionOnSet(Drawn(alloc', restored', g), Ops)
                    + SumFunctionOnSet(TakenBack(clawback', req', g), Requests)
           /\ \A op \in Ops : Drawn(alloc', restored', g)[op] \in Nat
           /\ \A r \in Requests : TakenBack(clawback', req', g)[r] \in Nat
           /\ SumFunctionOnSet(Drawn(alloc', restored', g), Ops) \in Nat
           /\ SumFunctionOnSet(TakenBack(clawback', req', g), Requests) \in Nat
<1>1. alloc' \in [Ops -> [Lots -> Nat]] /\ clawback' \in [Requests -> Nat]
  BY DEF LedgerInv, TypeOK
<1>2. UnitsOut(g)' = OutOf(alloc', restored', clawback', req', g)
  BY OutIs
<1> QED
  BY <1>1, <1>2, OutSums, Zenon

\* The units that left a lot are a natural number.
LEMMA OutNat == ASSUME LedgerInv, NEW g \in Lots PROVE UnitsOut(g) \in Nat
  BY OutParts

\* One operation draws or gives back; one request takes back.
LEMMA DrawnMoves ==
    ASSUME LedgerInv, LedgerInv', NEW g \in Lots, NEW op \in Ops,
           UNCHANGED <<clawback, req>>,
           \A o \in Ops : o # op =>
               Drawn(alloc', restored', g)[o] = Drawn(alloc, restored, g)[o]
    PROVE  UnitsOut(g)' = UnitsOut(g) - Drawn(alloc, restored, g)[op]
                            + Drawn(alloc', restored', g)[op]
<1> DEFINE d == Drawn(alloc, restored, g)
           e == Drawn(alloc', restored', g)
           t == SumFunctionOnSet(TakenBack(clawback, req, g), Requests)
<1>2. /\ UnitsOut(g) = SumFunctionOnSet(d, Ops) + t
      /\ SumFunctionOnSet(d, Ops) \in Nat /\ t \in Nat
      /\ \A o \in Ops : d[o] \in Nat
  BY OutParts
<1>3. /\ UnitsOut(g)' = SumFunctionOnSet(e, Ops) + t
      /\ SumFunctionOnSet(e, Ops) \in Nat
      /\ \A o \in Ops : e[o] \in Nat
  <2>1. clawback' = clawback /\ req' = req
    OBVIOUS
  <2> QED
    BY <2>1, OutPartsNext
<1>4. \A o \in Ops : o # op => d[o] = e[o]
  OBVIOUS
<1> HIDE DEF d, e, t
<1>5. SumFunctionOnSet(e, Ops) = SumFunctionOnSet(d, Ops) - d[op] + e[op]
  <2>1. \A o \in Ops : d[o] \in Int /\ e[o] \in Int
    BY <1>2, <1>3
  <2> QED
    BY <2>1, <1>4, OpsAssumption, SumUpdate
<1>6. UnitsOut(g)' = UnitsOut(g) - d[op] + e[op]
  <2>1. d[op] \in Nat /\ e[op] \in Nat
    BY <1>2, <1>3
  <2> QED
    BY <1>2, <1>3, <1>5, <2>1
<1> QED
  BY <1>6 DEF d, e

\* When one request takes back units, UnitsOut moves by as many.
LEMMA TakenBackMoves ==
    ASSUME LedgerInv, LedgerInv', NEW g \in Lots, NEW r \in Requests,
           UNCHANGED <<alloc, restored>>,
           \A x \in Requests : x # r =>
               TakenBack(clawback', req', g)[x] = TakenBack(clawback, req, g)[x]
    PROVE  UnitsOut(g)' = UnitsOut(g) - TakenBack(clawback, req, g)[r]
                            + TakenBack(clawback', req', g)[r]
<1> DEFINE t == TakenBack(clawback, req, g)
           v == TakenBack(clawback', req', g)
           d == SumFunctionOnSet(Drawn(alloc, restored, g), Ops)
<1>2. /\ UnitsOut(g) = d + SumFunctionOnSet(t, Requests)
      /\ SumFunctionOnSet(t, Requests) \in Nat /\ d \in Nat
      /\ \A x \in Requests : t[x] \in Nat
  BY OutParts
<1>3. /\ UnitsOut(g)' = d + SumFunctionOnSet(v, Requests)
      /\ SumFunctionOnSet(v, Requests) \in Nat
      /\ \A x \in Requests : v[x] \in Nat
  <2>1. alloc' = alloc /\ restored' = restored
    OBVIOUS
  <2> QED
    BY <2>1, OutPartsNext
<1>4. \A x \in Requests : x # r => t[x] = v[x]
  OBVIOUS
<1> HIDE DEF d, t, v
<1>5. SumFunctionOnSet(v, Requests)
        = SumFunctionOnSet(t, Requests) - t[r] + v[r]
  <2>1. \A x \in Requests : t[x] \in Int /\ v[x] \in Int
    BY <1>2, <1>3
  <2> QED
    BY <2>1, <1>4, OpsAssumption, SumUpdate
<1>6. UnitsOut(g)' = UnitsOut(g) - t[r] + v[r]
  <2>1. t[r] \in Nat /\ v[r] \in Nat
    BY <1>2, <1>3
  <2> QED
    BY <1>2, <1>3, <1>5, <2>1
<1> QED
  BY <1>6 DEF t, v

\* Nothing left a lot before it was granted.
LEMMA UngrantedOut ==
    ASSUME LedgerInv, LotsInv, NEW g \in Lots, g \notin Granted
    PROVE  UnitsOut(g) = 0
<1>1. /\ alloc \in [Ops -> [Lots -> Nat]] /\ clawback \in [Requests -> Nat]
  BY DEF LedgerInv, TypeOK
<1>2. \A op \in Ops : Drawn(alloc, restored, g)[op] = 0
  BY DEF Drawn, LotsInv, LotsQuiet
<1>3. \A r \in Requests : TakenBack(clawback, req, g)[r] = 0
  BY <1>1 DEF TakenBack, LotsInv, ClawbackSettled
<1>4. /\ SumFunctionOnSet(Drawn(alloc, restored, g), Ops) = 0
      /\ SumFunctionOnSet(TakenBack(clawback, req, g), Requests) = 0
  BY <1>2, <1>3, SumZero, OpsAssumption
<1> QED
  BY <1>4, OutParts

\* The conservation of one lot.
Conserved(g) ==
    /\ remaining[g] + UnitsOut(g) <= GrantUnits[g]
    /\ g \notin clawed => remaining[g] + UnitsOut(g) = GrantUnits[g]

\* A granted lot starts full, and no other lot changes.
LEMMA GrantConserves ==
    ASSUME LedgerInv, LotsInv, LotConservation, NEW h \in Lots, Grant(h)
    PROVE  LotConservation'
<1>1. Granted' = Granted \cup {h} /\ h \notin Granted
  BY GrantLots
<1>2. \A g \in Lots : UnitsOut(g)' = UnitsOut(g)
  BY DEF Grant, UnitsOut
<1> SUFFICES ASSUME NEW g \in Granted \cup {h} PROVE Conserved(g)'
  BY <1>1 DEF LotConservation, Conserved
<1>3. remaining' = [remaining EXCEPT ![h] = GrantUnits[h]] /\ clawed' = clawed
  BY DEF Grant
<1>4. g \in Lots /\ remaining \in [Lots -> Nat] /\ GrantUnits[g] \in Nat
  BY LotsAssumption DEF Granted, LedgerInv, TypeOK
<1>5. CASE g = h
  BY <1>1, <1>2, <1>3, <1>4, <1>5, UngrantedOut DEF Conserved
<1>6. CASE g # h
  BY <1>2, <1>3, <1>4, <1>6 DEF LotConservation, Conserved
<1> QED
  BY <1>5, <1>6

\* What a spend draws leaves the lot and enters the allocation, which was
\* empty before.
LEMMA SpendCommitConserves ==
    ASSUME LedgerInv, LotsInv, LotConservation, SpendCommit
    PROVE  LotConservation'
<1>1. PICK d \in FifoDraws(txn.price - Min2(Unlotted(txn.balance), txn.price)) :
          /\ remaining' = [g \in Lots |-> remaining[g] - d[g]]
          /\ alloc' = [alloc EXCEPT ![txn.op] = d]
  BY DEF SpendCommit
<1>2. d \in [Lots -> Nat] /\ \A g \in Lots : d[g] <= remaining[g]
  BY <1>1, DrawBounds, NeedNat DEF LedgerInv, SpendCommit
<1>3. txn.op \in Ops /\ LedgerInv' /\ Granted' = Granted /\ clawed' = clawed
  BY SpendCommitInv DEF LedgerInv, TypeOK, SpendCommit, Granted
<1>4. UNCHANGED <<restored, clawback, req>>
  BY DEF SpendCommit
<1> SUFFICES ASSUME NEW g \in Granted PROVE Conserved(g)'
  BY <1>3 DEF LotConservation, Conserved
<1>5. /\ g \in Lots /\ remaining \in [Lots -> Nat] /\ GrantUnits[g] \in Nat
      /\ alloc \in [Ops -> [Lots -> Nat]]
  BY LotsAssumption DEF Granted, LedgerInv, TypeOK
<1> DEFINE e == Drawn(alloc, restored, g)
           f == Drawn(alloc', restored', g)
<1>6. /\ spend[txn.op] = 0
      /\ alloc[txn.op][g] \in Nat
  BY <1>3, <1>5 DEF LedgerInv, TxnFresh, SpendCommit
<1>7. ~(alloc[txn.op][g] > 0) /\ <<txn.op, g>> \notin restored
  BY <1>3, <1>5, <1>6 DEF LotsInv, AllocsDrawn
<1>8. e[txn.op] = 0 /\ f[txn.op] = d[g]
  BY <1>1, <1>3, <1>4, <1>5, <1>6, <1>7 DEF Drawn
<1>9. \A o \in Ops : o # txn.op => f[o] = e[o]
  BY <1>1, <1>3, <1>4, <1>5 DEF Drawn
<1>10. UnitsOut(g)' = UnitsOut(g) - e[txn.op] + f[txn.op]
  BY <1>3, <1>4, <1>5, <1>9, DrawnMoves
<1>11. UnitsOut(g)' = UnitsOut(g) + d[g] /\ UnitsOut(g) \in Nat
  BY <1>5, <1>8, <1>10, OutNat
<1>12. remaining'[g] = remaining[g] - d[g] /\ d[g] \in Nat
  BY <1>1, <1>2, <1>5
<1> HIDE DEF e, f
<1>13. Conserved(g)
  BY DEF LotConservation, Conserved
<1> QED
  BY <1>3, <1>5, <1>11, <1>12, <1>13 DEF Conserved

\* What a credit refund restores leaves the allocation, and enters the lot
\* unless that was clawed.
LEMMA RefundConserves ==
    ASSUME LedgerInv, LotsInv, LotConservation, NEW op \in Ops,
           RefundOriginalSpend(op)
    PROVE  LotConservation'
<1>1. /\ restored' = restored \cup ({op} \X Restorable(op))
      /\ \A g \in Lots : remaining'[g] = IF g \in Restorable(op) \ clawed
                                         THEN remaining[g] + alloc[op][g]
                                         ELSE remaining[g]
      /\ UNCHANGED <<alloc, clawback, req, clawed>>
  BY DEF RefundOriginalSpend, RestoreLots
<1>2. LedgerInv' /\ Granted' = Granted
  BY RefundInv DEF RefundOriginalSpend, Granted
<1> SUFFICES ASSUME NEW g \in Granted PROVE Conserved(g)'
  BY <1>2 DEF LotConservation, Conserved
<1>3. /\ g \in Lots /\ remaining[g] \in Nat /\ GrantUnits[g] \in Nat
      /\ alloc \in [Ops -> [Lots -> Nat]]
  BY LotsAssumption DEF Granted, LedgerInv, TypeOK
<1> DEFINE e == Drawn(alloc, restored, g)
           f == Drawn(alloc', restored', g)
<1>4. \A o \in Ops : o # op => f[o] = e[o]
  BY <1>1, <1>3 DEF Drawn
<1>5. UnitsOut(g)' = UnitsOut(g) - e[op] + f[op] /\ UnitsOut(g) \in Nat
  BY <1>1, <1>2, <1>3, <1>4, DrawnMoves, OutNat
<1>6. Conserved(g)
  BY DEF LotConservation, Conserved
<1>7. CASE g \in Restorable(op)
  <2>1. <<op, g>> \notin restored /\ <<op, g>> \in restored'
    BY <1>1, <1>7 DEF Restorable
  <2>2. e[op] = alloc[op][g] /\ f[op] = 0 /\ alloc[op][g] \in Nat
    BY <1>3, <2>1 DEF Drawn
  <2> HIDE DEF e, f
  <2> QED
    BY <1>1, <1>3, <1>5, <1>6, <1>7, <2>2 DEF Conserved
<1>8. CASE g \notin Restorable(op)
  <2>1. <<op, g>> \in restored' <=> <<op, g>> \in restored
    BY <1>1, <1>8
  <2>2. e[op] = f[op] /\ e[op] \in Nat
    BY <1>1, <1>3, <2>1 DEF Drawn
  <2> HIDE DEF e, f
  <2> QED
    BY <1>1, <1>3, <1>5, <1>6, <1>8, <2>2 DEF Conserved
<1> QED
  BY <1>7, <1>8

\* What a clawback takes leaves the lot and enters the clawback row, which did
\* not exist before.
LEMMA RequestConserves ==
    ASSUME LedgerInv, LedgerInv', LotsInv, LotConservation, NEW r \in Requests,
           ReqMoves(r), UnitsSame \/ Claws(r)
    PROVE  LotConservation'
<1>1. UNCHANGED <<alloc, restored>> /\ Granted' = Granted
  BY DEF UnitsSame, Claws, Granted
<1> SUFFICES ASSUME NEW g \in Granted PROVE Conserved(g)'
  BY <1>1 DEF LotConservation, Conserved
<1>2. /\ g \in Lots /\ remaining \in [Lots -> Nat] /\ GrantUnits[g] \in Nat
      /\ clawback \in [Requests -> Nat] /\ req \in [Requests -> Request]
  BY LotsAssumption DEF Granted, LedgerInv, TypeOK
<1> DEFINE t == TakenBack(clawback, req, g)
           v == TakenBack(clawback', req', g)
<1>3. \A x \in Requests : x # r => v[x] = t[x]
  BY <1>2 DEF TakenBack, ReqMoves, UnitsSame, Claws
<1>4. UnitsOut(g)' = UnitsOut(g) - t[r] + v[r] /\ UnitsOut(g) \in Nat
  BY <1>1, <1>2, <1>3, TakenBackMoves, OutNat
<1>5. Conserved(g)
  BY DEF LotConservation, Conserved
<1>6. CASE UnitsSame
  <2>1. clawback' = clawback /\ remaining' = remaining /\ clawed' = clawed
    BY <1>6 DEF UnitsSame
  <2>2. clawback[r] = 0 \/ req'[r].purchase = req[r].purchase
    BY <1>2 DEF LotsInv, ClawbackSettled, ReqMoves, InFlight
  <2>3. v[r] = t[r] /\ t[r] \in Nat
    BY <1>2, <2>1, <2>2 DEF TakenBack
  <2> HIDE DEF t, v
  <2> QED
    BY <1>2, <1>4, <1>5, <2>1, <2>3 DEF Conserved
<1>7. CASE Claws(r)
  <2> DEFINE p == req[r].purchase
             u == req[r].units
  <2>1. /\ p \in Lots /\ u \in Nat \ {0} /\ remaining[p] >= u
        /\ remaining' = [remaining EXCEPT ![p] = @ - u]
        /\ clawed' = IF remaining[p] = u THEN clawed \cup {p} ELSE clawed
        /\ clawback[r] = 0
        /\ clawback' = [clawback EXCEPT ![r] = u]
        /\ req[r].status \in InFlight
    BY <1>7 DEF Claws
  <2>2. req'[r].purchase = p
    <3>1. req[r].status # "none"
      BY <2>1 DEF InFlight
    <3> QED
      BY <3>1 DEF ReqMoves
  <2>3. t[r] = 0 /\ v[r] = IF p = g THEN u ELSE 0
    BY <1>2, <2>1, <2>2 DEF TakenBack
  <2> HIDE DEF t, v, p, u
  <2>4. CASE p = g
    BY <1>2, <1>4, <1>5, <2>1, <2>3, <2>4 DEF Conserved
  <2>5. CASE p # g
    BY <1>2, <1>4, <1>5, <2>1, <2>3, <2>5 DEF Conserved
  <2> QED
    BY <2>4, <2>5
<1> QED
  BY <1>6, <1>7

\* A spend row is at least what its allocations draw, and is credited whole.
AllocsCovered ==
    \A op \in Ops : /\ SumFunction(alloc[op]) <= spend[op]
                    /\ refund[op] \in {0, spend[op]}

\* While a spend holds the lock the balance it read is not lost.
TxnBacked == txn # NoTxn => txn.balance \in Int /\ txn.balance <= Balance

\* SumFunction of a function with a known domain.
LEMMA SumOverDomain ==
    ASSUME NEW S, NEW T, NEW f \in [S -> T]
    PROVE  SumFunction(f) = SumFunctionOnSet(f, S)
<1>1. DOMAIN f = S
  OBVIOUS
<1> QED
  BY <1>1, Zenon DEF SumFunction

\* The granted lots are finitely many, now and after a step.
LEMMA GrantedFinite == /\ IsFiniteSet(Granted) /\ Granted \subseteq Lots
                       /\ IsFiniteSet(Granted') /\ Granted' \subseteq Lots
<1>1. Granted \subseteq Lots /\ Granted' \subseteq Lots
  BY DEF Granted
<1> QED
  BY <1>1, FS_Subset, LotsAssumption

\* The balance as four sums over fixed sets.
LEMMA BalanceParts ==
    ASSUME LedgerInv
    PROVE  /\ Balance = LegacyUnits + SumFunctionOnSet(GrantUnits, Granted)
                          - SumFunctionOnSet(spend, Ops)
                          + SumFunctionOnSet(refund, Ops)
                          - SumFunctionOnSet(clawback, Requests)
           /\ LegacyUnits \in Nat
           /\ SumFunctionOnSet(GrantUnits, Granted) \in Nat
           /\ SumFunctionOnSet(spend, Ops) \in Nat
           /\ SumFunctionOnSet(refund, Ops) \in Nat
           /\ SumFunctionOnSet(clawback, Requests) \in Nat
<1>1. /\ spend \in [Ops -> Nat] /\ refund \in [Ops -> Nat]
      /\ clawback \in [Requests -> Nat]
  BY DEF LedgerInv, TypeOK
<1>2. /\ SumFunction(spend) = SumFunctionOnSet(spend, Ops)
      /\ SumFunction(refund) = SumFunctionOnSet(refund, Ops)
      /\ SumFunction(clawback) = SumFunctionOnSet(clawback, Requests)
  BY <1>1, SumOverDomain
<1>3. /\ SumFunctionOnSet(spend, Ops) \in Nat
      /\ SumFunctionOnSet(refund, Ops) \in Nat
      /\ SumFunctionOnSet(clawback, Requests) \in Nat
  BY <1>1, SumNat, OpsAssumption
<1>4. SumFunctionOnSet(GrantUnits, Granted) \in Nat
  BY GrantedFinite, LotsAssumption, SumNat
<1> QED
  BY <1>2, <1>3, <1>4, LotsAssumption DEF Balance

\* The same in the next state.
LEMMA BalancePartsNext ==
    ASSUME LedgerInv'
    PROVE  /\ Balance' = LegacyUnits + SumFunctionOnSet(GrantUnits, Granted')
                          - SumFunctionOnSet(spend', Ops)
                          + SumFunctionOnSet(refund', Ops)
                          - SumFunctionOnSet(clawback', Requests)
           /\ SumFunctionOnSet(GrantUnits, Granted') \in Nat
           /\ SumFunctionOnSet(spend', Ops) \in Nat
           /\ SumFunctionOnSet(refund', Ops) \in Nat
           /\ SumFunctionOnSet(clawback', Requests) \in Nat
<1>1. /\ spend' \in [Ops -> Nat] /\ refund' \in [Ops -> Nat]
      /\ clawback' \in [Requests -> Nat]
  BY DEF LedgerInv, TypeOK
<1>2. /\ SumFunction(spend') = SumFunctionOnSet(spend', Ops)
      /\ SumFunction(refund') = SumFunctionOnSet(refund', Ops)
      /\ SumFunction(clawback') = SumFunctionOnSet(clawback', Requests)
  BY <1>1, SumOverDomain
<1>3. /\ SumFunctionOnSet(spend', Ops) \in Nat
      /\ SumFunctionOnSet(refund', Ops) \in Nat
      /\ SumFunctionOnSet(clawback', Requests) \in Nat
  BY <1>1, SumNat, OpsAssumption
<1>4. SumFunctionOnSet(GrantUnits, Granted') \in Nat
  BY GrantedFinite, LotsAssumption, SumNat
<1> QED
  BY <1>2, <1>3, <1>4, LotsAssumption DEF Balance

\* A lot that is not open holds nothing, so the open lots hold what all do.
LEMMA OpenUnits ==
    ASSUME LedgerInv, LotsInv
    PROVE  OpenLotUnits = SumFunctionOnSet(remaining, Lots) /\ OpenLotUnits \in Nat
<1>1. OpenLots \subseteq Lots
  BY DEF OpenLots, Granted
<1>2. \A g \in Lots : remaining[g] \in Nat
  BY DEF LedgerInv, TypeOK
<1>3. \A g \in Lots : /\ remaining[g] \in Int
                      /\ remaining[g] = IF g \in OpenLots THEN remaining[g] ELSE 0
  BY <1>2 DEF LotsInv, LotsQuiet
<1>4. SumFunctionOnSet(remaining, OpenLots) = SumFunctionOnSet(remaining, Lots)
  BY <1>1, <1>3, LotsAssumption, SumWhere
<1>5. SumFunctionOnSet(remaining, Lots) \in Nat
  BY <1>2, LotsAssumption, SumNat
<1> QED
  BY <1>4, <1>5 DEF OpenLotUnits

\* The same in the next state.
LEMMA OpenUnitsNext ==
    ASSUME LedgerInv', LotsInv'
    PROVE  /\ OpenLotUnits' = SumFunctionOnSet(remaining', Lots)
           /\ OpenLotUnits' \in Nat
<1>1. OpenLots' \subseteq Lots
  BY DEF OpenLots, Granted
<1>2. \A g \in Lots : remaining'[g] \in Nat
  BY DEF LedgerInv, TypeOK
<1>3. \A g \in Lots : /\ remaining'[g] \in Int
                      /\ remaining'[g] = IF g \in OpenLots' THEN remaining'[g] ELSE 0
  BY <1>2 DEF LotsInv, LotsQuiet
<1>4. SumFunctionOnSet(remaining', OpenLots') = SumFunctionOnSet(remaining', Lots)
  BY <1>1, <1>3, LotsAssumption, SumWhere
<1>5. SumFunctionOnSet(remaining', Lots) \in Nat
  BY <1>2, LotsAssumption, SumNat
<1> QED
  BY <1>4, <1>5 DEF OpenLotUnits

\* The part of the invariant that compares lots with ledger rows.
BackedInv == AllocsCovered /\ TxnBacked /\ LotsBackedByBalance

\* No lot holds anything at first, and the unlotted balance is not negative.
LEMMA InitBacked == Init => BackedInv
<1> SUFFICES ASSUME Init PROVE BackedInv
  OBVIOUS
<1>1. LedgerInv /\ LotsInv
  BY InitInv, InitLots
<1>2. /\ \A op \in Ops : spend[op] = 0 /\ refund[op] = 0
      /\ \A r \in Requests : clawback[r] = 0
      /\ \A g \in Lots : remaining[g] = 0
      /\ Granted = {}
  BY DEF Init, Granted
<1>3. /\ SumFunctionOnSet(spend, Ops) = 0 /\ SumFunctionOnSet(refund, Ops) = 0
      /\ SumFunctionOnSet(clawback, Requests) = 0
      /\ SumFunctionOnSet(remaining, Lots) = 0
      /\ SumFunctionOnSet(GrantUnits, Granted) = 0
  BY <1>2, SumZero, SumEmpty, LotsAssumption, OpsAssumption
<1>4. LotsBackedByBalance
  BY <1>1, <1>3, BalanceParts, OpenUnits DEF LotsBackedByBalance
<1>5. AllocsCovered
  <2> SUFFICES ASSUME NEW op \in Ops PROVE SumFunction(alloc[op]) <= spend[op]
    BY <1>2 DEF AllocsCovered
  <2>1. alloc[op] \in [Lots -> Nat] /\ \A g \in Lots : alloc[op][g] = 0
    BY <1>1 DEF Init, LedgerInv, TypeOK
  <2>2. SumFunction(alloc[op]) = 0
    BY <2>1, SumOverDomain, SumZero, LotsAssumption
  <2> QED
    BY <1>2, <2>2
<1> QED
  BY <1>4, <1>5 DEF BackedInv, TxnBacked, Init

\* A grant adds the same units to the balance and to its lot; the balance a
\* concurrent spend has read can only be too low.
LEMMA GrantBacked ==
    ASSUME LedgerInv, LotsInv, BackedInv, NEW g \in Lots, Grant(g)
    PROVE  BackedInv'
<1>1. /\ LedgerInv' /\ LotsInv' /\ g \notin Granted
      /\ Granted' = Granted \cup {g}
  BY GrantInv, GrantLots
<1>2. /\ remaining' = [remaining EXCEPT ![g] = GrantUnits[g]]
      /\ UNCHANGED <<alloc, spend, refund, clawback, txn>>
  BY DEF Grant
<1>3. remaining \in [Lots -> Nat] /\ GrantUnits \in [Lots -> Nat]
  BY LotsAssumption DEF LedgerInv, TypeOK
<1>4. SumFunctionOnSet(GrantUnits, Granted')
        = SumFunctionOnSet(GrantUnits, Granted) + GrantUnits[g]
  <2>1. /\ \A y \in Granted \cup {g} : GrantUnits[y] \in Int
        /\ IsFiniteSet(Granted)
    BY <1>3, GrantedFinite
  <2>2. SumFunctionOnSet(GrantUnits, Granted \cup {g})
          = SumFunctionOnSet(GrantUnits, Granted) + GrantUnits[g]
    BY <1>1, <2>1, SumAdd
  <2> QED
    BY <1>1, <2>2, Zenon
<1>5. Balance' = Balance + GrantUnits[g] /\ Balance \in Int
  BY <1>1, <1>2, <1>3, <1>4, BalanceParts, BalancePartsNext
<1>6. remaining[g] = 0
  BY <1>1 DEF LotsInv, LotsQuiet, OpenLots
<1>7. OpenLotUnits' = OpenLotUnits + GrantUnits[g] /\ OpenLotUnits \in Nat
  <2>1. /\ \A y \in Lots : remaining[y] \in Int /\ remaining'[y] \in Int
        /\ \A y \in Lots : y # g => remaining[y] = remaining'[y]
        /\ remaining'[g] = GrantUnits[g]
    BY <1>2, <1>3
  <2>2. SumFunctionOnSet(remaining', Lots)
          = SumFunctionOnSet(remaining, Lots) - remaining[g] + remaining'[g]
    BY <2>1, SumUpdate, LotsAssumption
  <2> QED
    BY <1>1, <1>3, <1>6, <2>1, <2>2, OpenUnits, OpenUnitsNext
<1>8. GrantUnits[g] \in Nat
  BY <1>3
<1>9. LotsBackedByBalance'
  BY <1>5, <1>7, <1>8 DEF BackedInv, LotsBackedByBalance
<1>10. AllocsCovered'
  BY <1>2 DEF BackedInv, AllocsCovered
<1>11. TxnBacked'
  BY <1>2, <1>5, <1>8 DEF BackedInv, TxnBacked
<1> QED
  BY <1>9, <1>10, <1>11 DEF BackedInv

\* Rows and lots are left alone; the lock is taken or released.
LEMMA TxnBackedMoves ==
    ASSUME LedgerInv, BackedInv, UNCHANGED <<lotVars, rowVars>>,
           \/ txn' = txn
           \/ txn' = NoTxn
           \/ txn'.balance = Balance
    PROVE  BackedInv'
<1>1. /\ createdAt' = createdAt /\ remaining' = remaining /\ clawed' = clawed
      /\ spend' = spend /\ refund' = refund /\ clawback' = clawback
      /\ alloc' = alloc
  OBVIOUS
<1>2. Granted' = Granted /\ OpenLots' = OpenLots
  BY <1>1 DEF Granted, OpenLots
<1>3. Balance' = Balance /\ OpenLotUnits' = OpenLotUnits
  BY <1>1, <1>2, Zenon DEF Balance, OpenLotUnits
<1>4. Balance \in Int
  BY BalanceParts
<1>5. LotsBackedByBalance' /\ AllocsCovered'
  BY <1>1, <1>3 DEF BackedInv, LotsBackedByBalance, AllocsCovered
<1>6. TxnBacked'
  BY <1>3, <1>4 DEF BackedInv, TxnBacked
<1> QED
  BY <1>5, <1>6 DEF BackedInv

\* The row takes the whole price from the balance and the lots take what the
\* unlotted part of the balance does not cover; that part was computed from a
\* balance no larger than the real one, so the lots stay backed.
LEMMA SpendCommitBacked ==
    ASSUME LedgerInv, LotsInv, BackedInv, SpendCommit
    PROVE  BackedInv'
<1> DEFINE need == txn.price - Min2(Unlotted(txn.balance), txn.price)
           op == txn.op
<1>1. PICK d \in FifoDraws(need) :
          /\ remaining' = [g \in Lots |-> remaining[g] - d[g]]
          /\ alloc' = [alloc EXCEPT ![op] = d]
  BY DEF SpendCommit
<1>2. /\ d \in [Lots -> Nat] /\ \A g \in Lots : d[g] <= remaining[g]
      /\ SumFunction(d) = need
  BY <1>1, DrawBounds, DrawSum, NeedNat DEF LedgerInv, SpendCommit
<1>3. SumFunction(d) = need
  BY <1>2
<1>4. /\ op \in Ops /\ txn.price \in Nat /\ spend[op] = 0
      /\ txn.balance \in Int /\ txn.balance <= Balance
      /\ spend' = [spend EXCEPT ![op] = txn.price]
      /\ txn' = NoTxn
      /\ UNCHANGED <<createdAt, refund, clawback>>
  BY OpsAssumption DEF SpendCommit, LedgerInv, TypeOK, TxnFresh, BackedInv,
                       TxnBacked
<1>5. LedgerInv' /\ LotsInv'
  BY SpendCommitInv, SpendCommitLots
<1>6. /\ Balance \in Int /\ OpenLotUnits \in Nat /\ OpenLotUnits <= Balance
      /\ remaining \in [Lots -> Nat] /\ spend \in [Ops -> Nat]
      /\ refund \in [Ops -> Nat] /\ alloc \in [Ops -> [Lots -> Nat]]
  BY BalanceParts, OpenUnits DEF LedgerInv, TypeOK, BackedInv, LotsBackedByBalance
<1>7. /\ need \in Int /\ need <= txn.price
      /\ OpenLotUnits - need <= Balance - txn.price
  BY <1>4, <1>6 DEF Min2, Max2, Unlotted
<1> HIDE DEF need, op
<1>8. Balance' = Balance - txn.price
  <2>1. /\ \A y \in Ops : spend[y] \in Int /\ spend'[y] \in Int
        /\ \A y \in Ops : y # op => spend[y] = spend'[y]
        /\ spend'[op] = txn.price
    BY <1>4, <1>6
  <2>2. SumFunctionOnSet(spend', Ops)
          = SumFunctionOnSet(spend, Ops) - spend[op] + spend'[op]
    <3>1. op \in Ops
      BY <1>4
    <3> QED
      BY <2>1, <3>1, SumUpdate, OpsAssumption
  <2>3. Granted' = Granted
    BY <1>4 DEF Granted
  <2>4. SumFunctionOnSet(GrantUnits, Granted') = SumFunctionOnSet(GrantUnits, Granted)
    BY <2>3, Zenon
  <2>5. /\ spend[op] = 0 /\ refund' = refund /\ clawback' = clawback
        /\ spend'[op] = txn.price /\ txn.price \in Nat
    BY <1>4, <2>1
  <2> QED
    BY <1>5, <2>2, <2>4, <2>5, BalanceParts, BalancePartsNext
<1>9. OpenLotUnits' = OpenLotUnits - need
  <2>1. \A g \in Lots : /\ remaining'[g] \in Int /\ d[g] \in Int
                        /\ remaining[g] = remaining'[g] + d[g]
    BY <1>1, <1>2, <1>6
  <2>2. SumFunctionOnSet(remaining, Lots)
          = SumFunctionOnSet(remaining', Lots) + SumFunctionOnSet(d, Lots)
    BY <2>1, SumPlus, LotsAssumption
  <2>3. SumFunctionOnSet(d, Lots) = need
    BY <1>2, <1>3, SumOverDomain
  <2> QED
    BY <1>5, <1>7, <2>2, <2>3, OpenUnits, OpenUnitsNext
<1>10. LotsBackedByBalance'
  BY <1>7, <1>8, <1>9 DEF LotsBackedByBalance
<1>11. AllocsCovered'
  <2> SUFFICES ASSUME NEW o \in Ops
               PROVE  /\ SumFunction(alloc'[o]) <= spend'[o]
                      /\ refund'[o] \in {0, spend'[o]}
    BY DEF AllocsCovered
  <2>1. CASE o = op
    <3>1. alloc'[o] = d /\ spend'[o] = txn.price
      BY <1>1, <1>4, <1>6, <2>1
    <3>2. refund'[o] = 0
      BY <1>4, <1>6, <2>1 DEF BackedInv, AllocsCovered
    <3>3. SumFunction(alloc'[o]) = need
      BY <1>3, <3>1
    <3> QED
      BY <1>7, <3>1, <3>2, <3>3
  <2>2. CASE o # op
    <3>1. alloc'[o] = alloc[o] /\ spend'[o] = spend[o] /\ refund'[o] = refund[o]
      BY <1>1, <1>4, <1>6, <2>2
    <3> QED
      BY <3>1 DEF BackedInv, AllocsCovered
  <2> QED
    BY <2>1, <2>2
<1> QED
  BY <1>4, <1>10, <1>11 DEF BackedInv, TxnBacked

\* The refund row returns the units of the spend row, and the lots take back
\* at most what was drawn from them; a repeated call changes neither.
LEMMA RefundBacked ==
    ASSUME LedgerInv, LotsInv, BackedInv, NEW op \in Ops,
           RefundOriginalSpend(op)
    PROVE  BackedInv'
<1>1. /\ \A g \in Lots : remaining'[g] = IF g \in Restorable(op) \ clawed
                                         THEN remaining[g] + alloc[op][g]
                                         ELSE remaining[g]
      /\ refund' = [refund EXCEPT ![op] = spend[op]]
      /\ UNCHANGED <<createdAt, alloc, spend, clawback, txn>>
      /\ txn = NoTxn
  BY DEF RefundOriginalSpend, RestoreLots
<1>2. LedgerInv' /\ LotsInv'
  BY RefundInv, RefundLots
<1>3. /\ remaining \in [Lots -> Nat] /\ spend \in [Ops -> Nat]
      /\ refund \in [Ops -> Nat] /\ alloc[op] \in [Lots -> Nat]
      /\ Balance \in Int /\ OpenLotUnits <= Balance
  BY BalanceParts DEF LedgerInv, TypeOK, BackedInv, LotsBackedByBalance
<1>4. Balance' = Balance - refund[op] + spend[op]
  <2>1. /\ \A y \in Ops : refund[y] \in Int /\ refund'[y] \in Int
        /\ \A y \in Ops : y # op => refund[y] = refund'[y]
        /\ refund'[op] = spend[op]
    BY <1>1, <1>3
  <2>2. SumFunctionOnSet(refund', Ops)
          = SumFunctionOnSet(refund, Ops) - refund[op] + refund'[op]
    BY <2>1, SumUpdate, OpsAssumption
  <2>3. Granted' = Granted
    BY <1>1 DEF Granted
  <2>4. SumFunctionOnSet(GrantUnits, Granted') = SumFunctionOnSet(GrantUnits, Granted)
    BY <2>3, Zenon
  <2> QED
    BY <1>1, <1>2, <1>3, <2>1, <2>2, <2>4, BalanceParts, BalancePartsNext
<1>5. OpenLotUnits' <= OpenLotUnits - refund[op] + spend[op]
  <2>1. CASE refund[op] > 0
    <3>1. \A g \in Lots : g \notin Restorable(op)
      BY <2>1, Zenon DEF LedgerInv, CreditedRestored, Restorable
    <3>2. \A g \in Lots : remaining'[g] = remaining[g]
      BY <1>1, <3>1
    <3>3. SumFunctionOnSet(remaining', Lots) = SumFunctionOnSet(remaining, Lots)
      BY <3>2, SumSame, LotsAssumption
    <3>4. refund[op] = spend[op]
      BY <1>3, <2>1 DEF BackedInv, AllocsCovered
    <3> QED
      BY <1>2, <1>3, <3>3, <3>4, OpenUnits, OpenUnitsNext
  <2>2. CASE ~(refund[op] > 0)
    <3> DEFINE top == [g \in Lots |-> remaining[g] + alloc[op][g]]
    <3>1. \A g \in Lots : /\ remaining[g] \in Int /\ alloc[op][g] \in Int
                          /\ top[g] = remaining[g] + alloc[op][g]
      BY <1>3
    <3>2. \A g \in Lots : /\ remaining'[g] \in Int /\ top[g] \in Int
                          /\ remaining'[g] <= top[g]
      BY <1>1, <1>3
    <3> HIDE DEF top
    <3>3. SumFunctionOnSet(top, Lots)
            = SumFunctionOnSet(remaining, Lots) + SumFunctionOnSet(alloc[op], Lots)
      BY <3>1, SumPlus, LotsAssumption
    <3>4. SumFunctionOnSet(remaining', Lots) <= SumFunctionOnSet(top, Lots)
      BY <3>2, SumMonotone, LotsAssumption
    <3>5. /\ SumFunctionOnSet(alloc[op], Lots) <= spend[op]
          /\ SumFunctionOnSet(alloc[op], Lots) \in Int
      <4>1. SumFunction(alloc[op]) = SumFunctionOnSet(alloc[op], Lots)
        BY <1>3, SumOverDomain
      <4>2. SumFunctionOnSet(alloc[op], Lots) \in Int
        BY <3>1, SumInt, LotsAssumption
      <4> QED
        BY <4>1, <4>2 DEF BackedInv, AllocsCovered
    <3>6. refund[op] = 0 /\ spend[op] \in Nat
      BY <1>3, <2>2
    <3>7. /\ OpenLotUnits = SumFunctionOnSet(remaining, Lots)
          /\ OpenLotUnits' = SumFunctionOnSet(remaining', Lots)
          /\ OpenLotUnits \in Nat /\ OpenLotUnits' \in Nat
      BY <1>2, OpenUnits, OpenUnitsNext
    <3> QED
      BY <3>3, <3>4, <3>5, <3>6, <3>7
  <2> QED
    BY <2>1, <2>2
<1>6. /\ OpenLotUnits \in Nat /\ OpenLotUnits' \in Nat
      /\ refund[op] \in Nat /\ spend[op] \in Nat
  BY <1>2, <1>3, OpenUnits, OpenUnitsNext
<1>7. LotsBackedByBalance'
  BY <1>3, <1>4, <1>5, <1>6 DEF LotsBackedByBalance
<1>8. AllocsCovered'
  BY <1>1, <1>3 DEF BackedInv, AllocsCovered
<1> QED
  BY <1>1, <1>7, <1>8 DEF BackedInv, TxnBacked

\* A clawback takes the same units from the lot and from the balance.
LEMMA RequestBacked ==
    ASSUME LedgerInv, LedgerInv', LotsInv, LotsInv', BackedInv,
           NEW r \in Requests, UnitsSame \/ Claws(r)
    PROVE  BackedInv'
<1>1. CASE UnitsSame
  <2>1. /\ createdAt' = createdAt /\ remaining' = remaining /\ clawed' = clawed
        /\ spend' = spend /\ refund' = refund /\ clawback' = clawback
        /\ alloc' = alloc /\ txn' = txn
    BY <1>1 DEF UnitsSame
  <2>2. Granted' = Granted /\ OpenLots' = OpenLots
    BY <2>1 DEF Granted, OpenLots
  <2>3. Balance' = Balance /\ OpenLotUnits' = OpenLotUnits
    BY <2>1, <2>2, Zenon DEF Balance, OpenLotUnits
  <2> QED
    BY <2>1, <2>3 DEF BackedInv, LotsBackedByBalance, AllocsCovered, TxnBacked
<1>2. CASE Claws(r)
  <2> DEFINE p == req[r].purchase
             u == req[r].units
  <2>1. /\ p \in Lots /\ u \in Nat \ {0} /\ remaining[p] >= u
        /\ remaining' = [remaining EXCEPT ![p] = @ - u]
        /\ clawback[r] = 0
        /\ clawback' = [clawback EXCEPT ![r] = u]
        /\ UNCHANGED <<createdAt, alloc, spend, refund, txn>>
        /\ txn = NoTxn
    BY <1>2 DEF Claws
  <2> HIDE DEF p, u
  <2>2. /\ remaining \in [Lots -> Nat] /\ clawback \in [Requests -> Nat]
        /\ Balance \in Int /\ OpenLotUnits <= Balance
    BY BalanceParts DEF LedgerInv, TypeOK, BackedInv, LotsBackedByBalance
  <2>3. Balance' = Balance - u
    <3>1. /\ \A y \in Requests : clawback[y] \in Int /\ clawback'[y] \in Int
          /\ \A y \in Requests : y # r => clawback[y] = clawback'[y]
          /\ clawback'[r] = u
      BY <2>1, <2>2
    <3>2. SumFunctionOnSet(clawback', Requests)
            = SumFunctionOnSet(clawback, Requests) - clawback[r] + clawback'[r]
      BY <3>1, SumUpdate, OpsAssumption
    <3>3. Granted' = Granted
      BY <2>1 DEF Granted
    <3>4. SumFunctionOnSet(GrantUnits, Granted')
            = SumFunctionOnSet(GrantUnits, Granted)
      BY <3>3, Zenon
    <3> QED
      BY <2>1, <3>1, <3>2, <3>4, BalanceParts, BalancePartsNext
  <2>4. OpenLotUnits' = OpenLotUnits - u /\ OpenLotUnits \in Nat
    <3>1. /\ \A y \in Lots : remaining[y] \in Int /\ remaining'[y] \in Int
          /\ \A y \in Lots : y # p => remaining[y] = remaining'[y]
          /\ remaining'[p] = remaining[p] - u
      BY <2>1, <2>2
    <3>2. SumFunctionOnSet(remaining', Lots)
            = SumFunctionOnSet(remaining, Lots) - remaining[p] + remaining'[p]
      <4>1. p \in Lots
        BY <2>1
      <4> QED
        BY <3>1, <4>1, SumUpdate, LotsAssumption
    <3> QED
      BY <2>1, <3>1, <3>2, OpenUnits, OpenUnitsNext
  <2>5. LotsBackedByBalance'
    BY <2>1, <2>2, <2>3, <2>4 DEF LotsBackedByBalance
  <2>6. AllocsCovered'
    BY <2>1 DEF BackedInv, AllocsCovered
  <2> QED
    BY <2>1, <2>5, <2>6 DEF BackedInv, TxnBacked
<1> QED
  BY <1>1, <1>2

-----------------------------------------------------------------------------
(* The units are where they should be, in every reachable state *)

\* The inductive invariant of all the properties that add up units.
UnitsInv == /\ LedgerInv /\ LotsInv /\ BackedInv
            /\ MonetizedWithinGrant /\ LotConservation

\* The empty tables satisfy it.
LEMMA InitUnits == Init => UnitsInv
<1> SUFFICES ASSUME Init PROVE UnitsInv
  OBVIOUS
<1>1. LotConservation
  BY DEF Init, LotConservation, Granted
<1> QED
  BY <1>1, InitInv, InitLots, InitBacked, InitMonetized DEF UnitsInv

\* Each step keeps it: one case per kind of step.
LEMMA NextUnits == UnitsInv /\ [Next]_vars => UnitsInv'
<1> SUFFICES ASSUME UnitsInv, [Next]_vars PROVE UnitsInv'
  OBVIOUS
<1>1. LedgerInv /\ LotsInv /\ BackedInv /\ MonetizedWithinGrant /\ LotConservation
  BY DEF UnitsInv
<1>2. LedgerInv' /\ LotsInv'
  BY <1>1, NextInv, NextLots
<1> SUFFICES BackedInv' /\ MonetizedWithinGrant' /\ LotConservation'
  BY <1>2 DEF UnitsInv
<1>3. ASSUME UNCHANGED <<lotVars, rowVars, req>>
      PROVE  MonetizedWithinGrant' /\ LotConservation'
  <2>1. /\ createdAt' = createdAt /\ remaining' = remaining /\ clawed' = clawed
        /\ alloc' = alloc /\ restored' = restored /\ clawback' = clawback
        /\ req' = req
    BY <1>3
  <2>2. Granted' = Granted /\ \A g : UnitsOut(g)' = UnitsOut(g)
    BY <2>1, Zenon DEF Granted, UnitsOut
  <2>3. \A p : Monetized(p)' = Monetized(p)
    BY <2>1, Zenon DEF Monetized
  <2> QED
    BY <1>1, <2>1, <2>2, <2>3 DEF MonetizedWithinGrant, LotConservation
<1>4. ASSUME req' = req PROVE MonetizedWithinGrant'
  <2>1. \A p : Monetized(p)' = Monetized(p)
    BY <1>4, Zenon DEF Monetized
  <2> QED
    BY <1>1, <2>1 DEF MonetizedWithinGrant
<1>5. CASE UNCHANGED vars
  BY <1>1, <1>3, <1>5, TxnBackedMoves DEF vars
<1>6. ASSUME NEW g \in Lots, Grant(g)
      PROVE  BackedInv' /\ MonetizedWithinGrant' /\ LotConservation'
  BY <1>1, <1>4, <1>6, GrantBacked, GrantConserves DEF Grant
<1>7. ASSUME NEW op \in Ops, NEW price \in Prices, SpendBegin(op, price)
      PROVE  BackedInv' /\ MonetizedWithinGrant' /\ LotConservation'
  <2>1. txn'.balance = Balance /\ UNCHANGED <<lotVars, rowVars, req>>
    BY <1>7 DEF SpendBegin
  <2> QED
    BY <1>1, <1>3, <2>1, TxnBackedMoves
<1>8. CASE SpendCommit
  BY <1>1, <1>4, <1>8, SpendCommitBacked, SpendCommitConserves DEF SpendCommit
<1>9. CASE SpendAbort
  <2>1. txn' = NoTxn /\ UNCHANGED <<lotVars, rowVars, req>>
    BY <1>9 DEF SpendAbort
  <2> QED
    BY <1>1, <1>3, <2>1, TxnBackedMoves
<1>10. ASSUME NEW op \in Ops, RefundOriginalSpend(op)
       PROVE  BackedInv' /\ MonetizedWithinGrant' /\ LotConservation'
  BY <1>1, <1>4, <1>10, RefundBacked, RefundConserves DEF RefundOriginalSpend
<1>11. ASSUME NEW r \in Requests, ReqMoves(r), UnitsSame \/ Claws(r)
       PROVE  BackedInv' /\ MonetizedWithinGrant' /\ LotConservation'
  BY <1>1, <1>2, <1>11, RequestBacked, RequestConserves, MonetizedMoves
<1>12. CASE Next
  BY <1>1, <1>6, <1>7, <1>8, <1>9, <1>10, <1>11, <1>12, StepKinds
<1> QED
  BY <1>5, <1>12

\* The strengthened invariant holds in every reachable state of the ledger.
THEOREM UnitsInvariant == Spec => []UnitsInv
  BY InitUnits, NextUnits, PTL DEF Spec

\* consumeLotsForSpend, restoreLotsForSpend and the clawback of
\* finalizePurchaseRemainderEffects never leave more units in the open lots
\* than the ledger rows sum to, for any number of lots, spends and refund
\* requests, although a grant may commit in the middle of a spend.
THEOREM LotsNeverExceedBalance == Spec => []LotsBackedByBalance
<1>1. UnitsInv => LotsBackedByBalance
  BY DEF UnitsInv, BackedInv
<1> QED
  BY <1>1, UnitsInvariant, PTL

\* Each granted unit is in its lot, in one allocation that was not restored or
\* in one clawback row: no interleaving of spends, credit refunds and cash
\* refunds creates or (outside clawed lots) loses a unit.
THEOREM EveryUnitAccountedFor == Spec => []LotConservation
<1>1. UnitsInv => LotConservation
  BY DEF UnitsInv
<1> QED
  BY <1>1, UnitsInvariant, PTL

\* The entitlement checks of approveRefundRequest keep the units counted as
\* money within what the purchase granted, for any number of concurrent
\* requests of either scope.
THEOREM CashedWithinPurchase == Spec => []MonetizedWithinGrant
<1>1. UnitsInv => MonetizedWithinGrant
  BY DEF UnitsInv
<1> QED
  BY <1>1, UnitsInvariant, PTL

-----------------------------------------------------------------------------
\* Only the commit of a spend writes a spend row.
LEMMA SpendRowStep ==
    ASSUME LedgerInv, Next, NEW op \in Ops, spend'[op] # spend[op]
    PROVE  SpendCommit
  BY StepKinds
     DEF Grant, SpendBegin, SpendAbort, RefundOriginalSpend, UnitsSame, Claws

\* planFifoLotConsumption: whenever a spend draws from a lot, every older open
\* lot is left empty.  By DrawBounds: an older lot has its turn earlier in the
\* sorted order, and a turn that leaves anything to draw has emptied its lot.
THEOREM SpendsOldestFirst == Spec => OldestLotFirst
<1>1. LedgerInv /\ [Next]_vars => [OldestFirst]_vars
  <2> SUFFICES ASSUME LedgerInv, Next, NEW g \in OpenLots, NEW h \in OpenLots,
                      \E op \in Ops : spend'[op] # spend[op],
                      remaining'[g] < remaining[g], createdAt[h] < createdAt[g]
               PROVE  remaining'[h] = 0
    BY DEF OldestFirst
  <2>1. SpendCommit
    BY SpendRowStep
  <2>2. PICK d \in FifoDraws(txn.price - Min2(Unlotted(txn.balance), txn.price)) :
            remaining' = [x \in Lots |-> remaining[x] - d[x]]
    BY <2>1 DEF SpendCommit
  <2>3. /\ g \in Lots /\ h \in Lots
        /\ remaining[g] \in Nat /\ remaining[h] \in Nat
        /\ d \in [Lots -> Nat]
    BY <2>1, <2>2, DrawBounds, NeedNat
       DEF OpenLots, Granted, LedgerInv, TypeOK, SpendCommit
  <2>4. d[g] > 0 /\ remaining'[h] = remaining[h] - d[h]
    BY <2>2, <2>3
  <2>5. d[h] = remaining[h]
    BY <2>1, <2>2, <2>4, DrawBounds, NeedNat DEF LedgerInv, SpendCommit
  <2> QED
    BY <2>3, <2>4, <2>5
<1> QED
  BY <1>1, LedgerInvariant, PTL DEF Spec, OldestLotFirst, OldestFirst
=============================================================================
