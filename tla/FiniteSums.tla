----------------------------- MODULE FiniteSums -----------------------------
(***************************************************************************)
(* Facts about SumFunctionOnSet, with which the models add up credits and  *)
(* money, for any finite set; and about the least and the greatest member  *)
(* of a set of numbers, and the ranks of a finite set in an order.         *)
(*                                                                         *)
(* The sum is defined by recursion over subsets, that is by the choice of  *)
(* a table of the sums of all subsets.  The first part shows that there is *)
(* one table, so that the sum obeys its recursive equation; the second     *)
(* states what a sum does when a term or the set changes; the third has    *)
(* numbers and ranks.  Induction is over a set of subsets, SubsetInduction,*)
(* and needs no operator parameter.                                        *)
(***************************************************************************)
EXTENDS Integers, FiniteSets, FiniteSetsExt, Functions, FiniteSetTheorems, TLAPS

\* The element at which the recursion takes a set apart.
Chosen(s) == CHOOSE x \in s : TRUE

\* g holds the sum of f over every subset of S.
IsSumTable(g, f, S) ==
    g = [s \in SUBSET S |->
            IF s = {} THEN 0 ELSE f[Chosen(s)] + g[s \ {Chosen(s)}]]

\* SumFunctionOnSet, with the folds it is defined by expanded.
LEMMA SumIsTable ==
    ASSUME NEW f, NEW S
    PROVE  SumFunctionOnSet(f, S) = (CHOOSE g : IsSumTable(g, f, S))[S]
  BY DEF SumFunctionOnSet, FoldFunctionOnSet, MapThenFoldSet, IsSumTable, Chosen

-----------------------------------------------------------------------------
(* Induction over the subsets of a finite set *)

\* A set of subsets of a finite set has a member that contains no other.
LEMMA LeastSubset ==
    ASSUME NEW S, IsFiniteSet(S), NEW T, T \subseteq SUBSET S, T # {}
    PROVE  \E s \in T : \A t \in T : ~(t \subseteq s /\ t # s)
<1>1. FiniteSubsetsOf(S) = SUBSET S
  BY FS_FiniteSubsetsOfFinite
<1>2. IsWellFoundedOn(StrictSubsetOrdering(S), SUBSET S)
  BY <1>1, FS_StrictSubsetOrderingWellFounded
<1>3. \E x \in T : \A y \in T : ~ (<<y, x>> \in StrictSubsetOrdering(S))
  BY <1>2, WFMin
<1> QED
  BY <1>3 DEF StrictSubsetOrdering

\* A set of subsets to which each subset belongs once its smaller ones do has
\* them all.
LEMMA SubsetInduction ==
    ASSUME NEW S, IsFiniteSet(S), NEW Good,
           \A s \in SUBSET S :
               (\A t \in SUBSET s : t # s => t \in Good) => s \in Good
    PROVE  \A s \in SUBSET S : s \in Good
<1> DEFINE Bad == {s \in SUBSET S : s \notin Good}
<1> SUFFICES ASSUME Bad # {} PROVE FALSE
  OBVIOUS
<1>1. PICK s \in Bad : \A t \in Bad : ~(t \subseteq s /\ t # s)
  <2>1. Bad \subseteq SUBSET S
    OBVIOUS
  <2> HIDE DEF Bad
  <2> QED
    BY <2>1, LeastSubset
<1>2. \A t \in SUBSET s : t # s => t \in Good
  BY <1>1
<1> QED
  BY <1>2

\* Taking the chosen element leaves a smaller finite set.
LEMMA ChosenIsTaken ==
    ASSUME NEW S, IsFiniteSet(S), S # {}
    PROVE  /\ Chosen(S) \in S
           /\ S \ {Chosen(S)} \in SUBSET S /\ S \ {Chosen(S)} # S
           /\ IsFiniteSet(S \ {Chosen(S)})
<1>1. Chosen(S) \in S
  BY DEF Chosen
<1> QED
  BY <1>1, FS_RemoveElement

-----------------------------------------------------------------------------
(* There is one table *)

\* Two tables of one function agree on the finite sets both have.
LEMMA TablesAgree ==
    ASSUME NEW f, NEW S, NEW T, NEW g, NEW h,
           IsSumTable(g, f, S), IsSumTable(h, f, T),
           NEW U, IsFiniteSet(U), U \subseteq S, U \subseteq T
    PROVE  g[U] = h[U]
<1> DEFINE Good == {s \in SUBSET U : g[s] = h[s]}
<1>1. ASSUME NEW s \in SUBSET U, \A t \in SUBSET s : t # s => t \in Good
      PROVE  s \in Good
  <2>1. /\ g[s] = IF s = {} THEN 0 ELSE f[Chosen(s)] + g[s \ {Chosen(s)}]
        /\ h[s] = IF s = {} THEN 0 ELSE f[Chosen(s)] + h[s \ {Chosen(s)}]
    BY DEF IsSumTable
  <2>2. CASE s = {}
    BY <2>1, <2>2
  <2>3. CASE s # {}
    <3>1. s \ {Chosen(s)} \in Good
      BY <1>1, <2>3, ChosenIsTaken, FS_Subset
    <3> QED
      BY <2>1, <2>3, <3>1
  <2> QED
    BY <2>2, <2>3
<1> HIDE DEF Good
<1>2. U \in Good
  BY <1>1, SubsetInduction
<1> QED
  BY <1>2 DEF Good

\* The table of a set is put together from those of its smaller subsets.
LEMMA TableExists ==
    ASSUME NEW f, NEW S, IsFiniteSet(S)
    PROVE  \E g : IsSumTable(g, f, S)
<1> DEFINE Good == {s \in SUBSET S : \E g : IsSumTable(g, f, s)}
           Table(t) == CHOOSE g : IsSumTable(g, f, t)
<1>1. ASSUME NEW s \in SUBSET S, \A t \in SUBSET s : t # s => t \in Good
      PROVE  s \in Good
  <2> DEFINE G == [t \in SUBSET s |->
                      IF t = {} THEN 0
                      ELSE f[Chosen(t)] + Table(t \ {Chosen(t)})[t \ {Chosen(t)}]]
  <2>1. ASSUME NEW t \in SUBSET s, t # s PROVE IsSumTable(Table(t), f, t)
    BY <1>1, <2>1
  <2>2. ASSUME NEW t \in SUBSET s, t # s PROVE Table(t)[t] = G[t]
    <3> HIDE DEF Table
    <3>1. Table(t)[t] = IF t = {} THEN 0
                        ELSE f[Chosen(t)] + Table(t)[t \ {Chosen(t)}]
      BY <2>1, <2>2 DEF IsSumTable
    <3>2. CASE t = {}
      BY <3>1, <3>2
    <3>3. CASE t # {}
      <4> DEFINE u == t \ {Chosen(t)}
      <4>1. /\ u \in SUBSET s /\ u # s /\ u \subseteq t /\ u \subseteq u
            /\ IsFiniteSet(u)
        BY <3>3, ChosenIsTaken, FS_Subset
      <4>2. IsSumTable(Table(t), f, t) /\ IsSumTable(Table(u), f, u)
        BY <2>1, <2>2, <4>1
      <4> HIDE DEF u
      <4>3. Table(t)[u] = Table(u)[u]
        BY <4>1, <4>2, TablesAgree
      <4> QED
        BY <3>1, <3>3, <4>3 DEF u
    <3> QED
      BY <3>2, <3>3
  <2>3. ASSUME NEW t \in SUBSET s, t # {}
        PROVE  Table(t \ {Chosen(t)})[t \ {Chosen(t)}] = G[t \ {Chosen(t)}]
    <3>1. t \ {Chosen(t)} \in SUBSET s /\ t \ {Chosen(t)} # s
      BY <2>3, ChosenIsTaken, FS_Subset
    <3> HIDE DEF Table, G
    <3> QED
      BY <3>1, <2>2
  <2>4. IsSumTable(G, f, s)
    <3>1. G = [t \in SUBSET s |->
                  IF t = {} THEN 0 ELSE f[Chosen(t)] + G[t \ {Chosen(t)}]]
      <4> HIDE DEF Table
      <4> QED
        BY <2>3
    <3> QED
      BY <3>1 DEF IsSumTable
  <2> QED
    BY <2>4
<1> HIDE DEF Good
<1>2. S \in Good
  BY <1>1, SubsetInduction
<1> QED
  BY <1>2 DEF Good

-----------------------------------------------------------------------------
(* What the other modules use *)

\* The sum over no elements.
LEMMA SumEmpty == ASSUME NEW f PROVE SumFunctionOnSet(f, {}) = 0
<1>1. PICK g : IsSumTable(g, f, {})
  BY TableExists, FS_EmptySet
<1> DEFINE h == CHOOSE g1 : IsSumTable(g1, f, {})
<1>2. IsSumTable(h, f, {})
  BY <1>1
<1> HIDE DEF h
<1>3. h[{}] = 0
  BY <1>2 DEF IsSumTable
<1> QED
  BY <1>3, SumIsTable DEF h

\* The equation of the recursive definition.
LEMMA SumUnfold ==
    ASSUME NEW f, NEW S, IsFiniteSet(S), S # {}
    PROVE  SumFunctionOnSet(f, S)
             = f[Chosen(S)] + SumFunctionOnSet(f, S \ {Chosen(S)})
<1> DEFINE R == S \ {Chosen(S)}
           h == CHOOSE g : IsSumTable(g, f, S)
           k == CHOOSE g : IsSumTable(g, f, R)
<1>1. IsFiniteSet(R)
  BY FS_RemoveElement
<1>2. (\E g : IsSumTable(g, f, S)) /\ (\E g : IsSumTable(g, f, R))
  BY <1>1, TableExists
<1>3. IsSumTable(h, f, S) /\ IsSumTable(k, f, R)
  BY <1>2
<1>4. SumFunctionOnSet(f, S) = h[S] /\ SumFunctionOnSet(f, R) = k[R]
  BY SumIsTable
<1> HIDE DEF h, k
<1>5. h[S] = f[Chosen(S)] + h[R]
  BY <1>3 DEF IsSumTable
<1>6. h[R] = k[R]
  BY <1>1, <1>3, TablesAgree
<1> QED
  BY <1>4, <1>5, <1>6

\* A sum of integers is an integer.
LEMMA SumInt ==
    ASSUME NEW f, NEW S, IsFiniteSet(S), \A x \in S : f[x] \in Int
    PROVE  SumFunctionOnSet(f, S) \in Int
<1> DEFINE Good == {s \in SUBSET S : SumFunctionOnSet(f, s) \in Int}
<1>1. ASSUME NEW s \in SUBSET S, \A t \in SUBSET s : t # s => t \in Good
      PROVE  s \in Good
  <2>1. CASE s = {}
    BY <2>1, SumEmpty
  <2>2. CASE s # {}
    <3>1. Chosen(s) \in s /\ s \ {Chosen(s)} \in Good
      BY <1>1, <2>2, ChosenIsTaken, FS_Subset
    <3>2. SumFunctionOnSet(f, s)
            = f[Chosen(s)] + SumFunctionOnSet(f, s \ {Chosen(s)})
      BY <2>2, SumUnfold, FS_Subset
    <3> QED
      BY <3>1, <3>2
  <2> QED
    BY <2>1, <2>2
<1> HIDE DEF Good
<1>2. S \in Good
  BY <1>1, SubsetInduction
<1> QED
  BY <1>2 DEF Good

\* Any element can be taken first.
LEMMA SumTake ==
    ASSUME NEW f, NEW S, IsFiniteSet(S), \A x \in S : f[x] \in Int, NEW x \in S
    PROVE  /\ SumFunctionOnSet(f, S) = f[x] + SumFunctionOnSet(f, S \ {x})
           /\ SumFunctionOnSet(f, S \ {x}) \in Int
<1> DEFINE Takes(s, y) ==
               SumFunctionOnSet(f, s) = f[y] + SumFunctionOnSet(f, s \ {y})
           Good == {s \in SUBSET S : \A y \in s : Takes(s, y)}
<1>1. ASSUME NEW s \in SUBSET S, \A t \in SUBSET s : t # s => t \in Good
      PROVE  s \in Good
  <2> SUFFICES ASSUME NEW y \in s PROVE Takes(s, y)
    OBVIOUS
  <2> DEFINE c == Chosen(s)
             rest == (s \ {c}) \ {y}
  <2>1. IsFiniteSet(s) /\ c \in s
    BY ChosenIsTaken, FS_Subset
  <2>2. Takes(s, c)
    BY <2>1, SumUnfold
  <2> HIDE DEF c
  <2>3. CASE c = y
    BY <2>2, <2>3
  <2>4. CASE c # y
    <3>1. Takes(s \ {c}, y) /\ Takes(s \ {y}, c)
      BY <1>1, <2>1, <2>4
    <3>2. (s \ {y}) \ {c} = rest
      OBVIOUS
    <3>3. SumFunctionOnSet(f, rest) \in Int
      <4>1. IsFiniteSet(rest) /\ \A z \in rest : f[z] \in Int
        BY <2>1, FS_RemoveElement
      <4> HIDE DEF rest
      <4> QED
        BY <4>1, SumInt
    <3>4. f[c] \in Int /\ f[y] \in Int
      BY <2>1
    <3>5. SumFunctionOnSet(f, s) = f[c] + (f[y] + SumFunctionOnSet(f, rest))
      BY <2>2, <3>1
    <3>6. SumFunctionOnSet(f, s \ {y}) = f[c] + SumFunctionOnSet(f, rest)
      BY <3>1, <3>2
    <3> QED
      BY <3>3, <3>4, <3>5, <3>6
  <2> QED
    BY <2>3, <2>4
<1>2. S \in Good
  <2> HIDE DEF Good
  <2> QED
    BY <1>1, SubsetInduction
<1>3. IsFiniteSet(S \ {x}) /\ \A y \in S \ {x} : f[y] \in Int
  BY FS_RemoveElement
<1> QED
  BY <1>2, <1>3, SumInt

\* Only the values on the set count.
LEMMA SumSame ==
    ASSUME NEW f, NEW g, NEW S, IsFiniteSet(S), \A x \in S : f[x] = g[x]
    PROVE  SumFunctionOnSet(f, S) = SumFunctionOnSet(g, S)
<1> DEFINE Good == {s \in SUBSET S :
                       SumFunctionOnSet(f, s) = SumFunctionOnSet(g, s)}
<1>1. ASSUME NEW s \in SUBSET S, \A t \in SUBSET s : t # s => t \in Good
      PROVE  s \in Good
  <2>1. CASE s = {}
    BY <2>1, SumEmpty
  <2>2. CASE s # {}
    <3>1. Chosen(s) \in s /\ s \ {Chosen(s)} \in Good /\ IsFiniteSet(s)
      BY <1>1, <2>2, ChosenIsTaken, FS_Subset
    <3> QED
      BY <2>2, <3>1, SumUnfold
  <2> QED
    BY <2>1, <2>2
<1> HIDE DEF Good
<1>2. S \in Good
  BY <1>1, SubsetInduction
<1> QED
  BY <1>2 DEF Good

\* One term changes.
LEMMA SumUpdate ==
    ASSUME NEW f, NEW g, NEW S, IsFiniteSet(S), NEW x \in S,
           \A y \in S : f[y] \in Int /\ g[y] \in Int,
           \A y \in S : y # x => f[y] = g[y]
    PROVE  SumFunctionOnSet(g, S) = SumFunctionOnSet(f, S) - f[x] + g[x]
<1>1. IsFiniteSet(S \ {x})
  BY FS_RemoveElement
<1>2. SumFunctionOnSet(f, S \ {x}) = SumFunctionOnSet(g, S \ {x})
  BY <1>1, SumSame
<1>3. /\ SumFunctionOnSet(f, S) = f[x] + SumFunctionOnSet(f, S \ {x})
      /\ SumFunctionOnSet(f, S \ {x}) \in Int
  BY SumTake
<1>4. SumFunctionOnSet(g, S) = g[x] + SumFunctionOnSet(g, S \ {x})
  BY SumTake
<1>5. f[x] \in Int /\ g[x] \in Int
  OBVIOUS
<1> QED
  BY <1>2, <1>3, <1>4, <1>5

\* An element is added to the set.
LEMMA SumAdd ==
    ASSUME NEW f, NEW S, IsFiniteSet(S), NEW x, x \notin S,
           \A y \in S \cup {x} : f[y] \in Int
    PROVE  SumFunctionOnSet(f, S \cup {x}) = SumFunctionOnSet(f, S) + f[x]
<1> DEFINE T == S \cup {x}
<1>1. IsFiniteSet(T) /\ T \ {x} = S /\ x \in T
  BY FS_AddElement
<1>2. SumFunctionOnSet(f, S) \in Int /\ f[x] \in Int
  <2>1. \A y \in S : f[y] \in Int
    OBVIOUS
  <2> QED
    BY <2>1, SumInt
<1>3. \A y \in T : f[y] \in Int
  OBVIOUS
<1> HIDE DEF T
<1>4. SumFunctionOnSet(f, T) = f[x] + SumFunctionOnSet(f, T \ {x})
  BY <1>1, <1>3, SumTake
<1>5. SumFunctionOnSet(f, T \ {x}) = SumFunctionOnSet(f, S)
  BY <1>1, Zenon
<1>6. SumFunctionOnSet(f, T) = SumFunctionOnSet(f, S) + f[x]
  BY <1>2, <1>4, <1>5
<1> QED
  BY <1>6 DEF T

\* The sum of two functions is the sum of their sums.
LEMMA SumPlus ==
    ASSUME NEW f, NEW g, NEW h, NEW S, IsFiniteSet(S),
           \A x \in S : f[x] \in Int /\ g[x] \in Int /\ h[x] = f[x] + g[x]
    PROVE  SumFunctionOnSet(h, S) = SumFunctionOnSet(f, S) + SumFunctionOnSet(g, S)
<1> DEFINE Adds(s) ==
               SumFunctionOnSet(h, s) = SumFunctionOnSet(f, s) + SumFunctionOnSet(g, s)
           Good == {s \in SUBSET S : Adds(s)}
<1>1. ASSUME NEW s \in SUBSET S, \A t \in SUBSET s : t # s => t \in Good
      PROVE  s \in Good
  <2>1. CASE s = {}
    BY <2>1, SumEmpty
  <2>2. CASE s # {}
    <3> DEFINE c == Chosen(s)
    <3>1. c \in s /\ Adds(s \ {c}) /\ IsFiniteSet(s) /\ IsFiniteSet(s \ {c})
      BY <1>1, <2>2, ChosenIsTaken, FS_Subset
    <3>2. /\ SumFunctionOnSet(f, s) = f[c] + SumFunctionOnSet(f, s \ {c})
          /\ SumFunctionOnSet(g, s) = g[c] + SumFunctionOnSet(g, s \ {c})
          /\ SumFunctionOnSet(h, s) = h[c] + SumFunctionOnSet(h, s \ {c})
      BY <2>2, <3>1, SumUnfold
    <3> HIDE DEF c
    <3>3. SumFunctionOnSet(f, s \ {c}) \in Int /\ SumFunctionOnSet(g, s \ {c}) \in Int
      <4>1. \A x \in s \ {c} : f[x] \in Int /\ g[x] \in Int
        OBVIOUS
      <4> QED
        BY <3>1, <4>1, SumInt
    <3>4. f[c] \in Int /\ g[c] \in Int /\ h[c] = f[c] + g[c]
      BY <3>1
    <3> QED
      BY <3>1, <3>2, <3>3, <3>4
  <2> QED
    BY <2>1, <2>2
<1> HIDE DEF Good
<1>2. S \in Good
  BY <1>1, SubsetInduction
<1> QED
  BY <1>2 DEF Good

\* Terms that are natural numbers have such a sum, and none exceeds it.
LEMMA SumNat ==
    ASSUME NEW f, NEW S, IsFiniteSet(S), \A x \in S : f[x] \in Nat
    PROVE  SumFunctionOnSet(f, S) \in Nat
<1> DEFINE Good == {s \in SUBSET S : SumFunctionOnSet(f, s) \in Nat}
<1>1. ASSUME NEW s \in SUBSET S, \A t \in SUBSET s : t # s => t \in Good
      PROVE  s \in Good
  <2>1. CASE s = {}
    BY <2>1, SumEmpty
  <2>2. CASE s # {}
    <3>1. Chosen(s) \in s /\ s \ {Chosen(s)} \in Good
      BY <1>1, <2>2, ChosenIsTaken, FS_Subset
    <3>2. SumFunctionOnSet(f, s)
            = f[Chosen(s)] + SumFunctionOnSet(f, s \ {Chosen(s)})
      BY <2>2, SumUnfold, FS_Subset
    <3> QED
      BY <3>1, <3>2
  <2> QED
    BY <2>1, <2>2
<1> HIDE DEF Good
<1>2. S \in Good
  BY <1>1, SubsetInduction
<1> QED
  BY <1>2 DEF Good

\* No term exceeds a sum of natural numbers.
LEMMA SumBounds ==
    ASSUME NEW f, NEW S, IsFiniteSet(S), \A x \in S : f[x] \in Nat, NEW x \in S
    PROVE  f[x] <= SumFunctionOnSet(f, S)
<1>1. IsFiniteSet(S \ {x}) /\ \A y \in S \ {x} : f[y] \in Nat
  BY FS_RemoveElement
<1>2. SumFunctionOnSet(f, S \ {x}) \in Nat
  BY <1>1, SumNat
<1>3. SumFunctionOnSet(f, S) = f[x] + SumFunctionOnSet(f, S \ {x})
  BY SumTake
<1> QED
  BY <1>2, <1>3

\* A sum is at most another whose every term is at least as large.
LEMMA SumMonotone ==
    ASSUME NEW f, NEW g, NEW S, IsFiniteSet(S),
           \A x \in S : f[x] \in Int /\ g[x] \in Int /\ f[x] <= g[x]
    PROVE  SumFunctionOnSet(f, S) <= SumFunctionOnSet(g, S)
<1> DEFINE d == [x \in S |-> g[x] - f[x]]
<1>1. \A x \in S : d[x] \in Nat
  OBVIOUS
<1>2. \A x \in S : f[x] \in Int /\ d[x] \in Int /\ g[x] = f[x] + d[x]
  OBVIOUS
<1> HIDE DEF d
<1>3. SumFunctionOnSet(d, S) \in Nat /\ SumFunctionOnSet(f, S) \in Int
  BY <1>1, SumNat, SumInt
<1>4. SumFunctionOnSet(g, S) = SumFunctionOnSet(f, S) + SumFunctionOnSet(d, S)
  BY <1>2, SumPlus
<1> QED
  BY <1>3, <1>4

\* The sum over a part of a set is that over the set with the other terms 0.
LEMMA SumWhere ==
    ASSUME NEW f, NEW g, NEW S, IsFiniteSet(S), NEW A, A \subseteq S,
           \A x \in S : f[x] \in Int /\ g[x] = IF x \in A THEN f[x] ELSE 0
    PROVE  SumFunctionOnSet(f, A) = SumFunctionOnSet(g, S)
<1> DEFINE Agrees(s) == SumFunctionOnSet(f, s \cap A) = SumFunctionOnSet(g, s)
           Good == {s \in SUBSET S : Agrees(s)}
<1>1. ASSUME NEW s \in SUBSET S, \A t \in SUBSET s : t # s => t \in Good
      PROVE  s \in Good
  <2>1. CASE s = {}
    <3>1. s \cap A = {}
      BY <2>1
    <3> QED
      BY <2>1, <3>1, SumEmpty
  <2>2. CASE s # {}
    <3> DEFINE c == Chosen(s)
    <3>1. c \in s /\ Agrees(s \ {c}) /\ IsFiniteSet(s) /\ IsFiniteSet(s \cap A)
      BY <1>1, <2>2, ChosenIsTaken, FS_Subset
    <3>2. SumFunctionOnSet(g, s) = g[c] + SumFunctionOnSet(g, s \ {c})
      BY <2>2, <3>1, SumUnfold
    <3> HIDE DEF c
    <3>3. SumFunctionOnSet(g, s \ {c}) \in Int
      <4>1. (\A x \in s \ {c} : g[x] \in Int) /\ IsFiniteSet(s \ {c})
        BY <3>1, FS_RemoveElement
      <4> QED
        BY <4>1, SumInt
    <3>4. CASE c \in A
      <4>1. /\ (s \cap A) \ {c} = (s \ {c}) \cap A /\ c \in s \cap A
            /\ \A x \in s \cap A : f[x] \in Int
        BY <3>1, <3>4
      <4>2. SumFunctionOnSet(f, s \cap A)
              = f[c] + SumFunctionOnSet(f, (s \cap A) \ {c})
        BY <3>1, <4>1, SumTake
      <4>3. f[c] = g[c]
        BY <3>1, <3>4
      <4> QED
        BY <3>1, <3>2, <4>1, <4>2, <4>3
    <3>5. CASE c \notin A
      <4>1. s \cap A = (s \ {c}) \cap A
        BY <3>5
      <4>2. g[c] = 0
        BY <3>1, <3>5
      <4>3. SumFunctionOnSet(f, s \cap A) = SumFunctionOnSet(f, (s \ {c}) \cap A)
        BY <4>1, Zenon
      <4> QED
        BY <3>1, <3>2, <3>3, <4>2, <4>3
    <3> QED
      BY <3>4, <3>5
  <2> QED
    BY <2>1, <2>2
<1> HIDE DEF Good
<1>2. S \in Good
  BY <1>1, SubsetInduction
<1>3. S \cap A = A
  OBVIOUS
<1> QED
  BY <1>2, <1>3 DEF Good

\* The sum over more elements, of values that are as great, is as great.
LEMMA SumGrows ==
    ASSUME NEW f, NEW g, NEW B, IsFiniteSet(B), NEW A, A \subseteq B,
           \A x \in B : f[x] \in Nat /\ g[x] \in Nat,
           \A x \in A : f[x] <= g[x]
    PROVE  SumFunctionOnSet(f, A) <= SumFunctionOnSet(g, B)
<1> DEFINE h == [x \in B |-> IF x \in A THEN f[x] ELSE 0]
<1>1. \A x \in B : f[x] \in Int /\ h[x] = IF x \in A THEN f[x] ELSE 0
  OBVIOUS
<1>2. \A x \in B : h[x] \in Int /\ g[x] \in Int /\ h[x] <= g[x]
  OBVIOUS
<1> HIDE DEF h
<1>3. SumFunctionOnSet(f, A) = SumFunctionOnSet(h, B)
  BY <1>1, SumWhere
<1>4. SumFunctionOnSet(h, B) <= SumFunctionOnSet(g, B)
  BY <1>2, SumMonotone
<1> QED
  BY <1>3, <1>4

\* Terms that are all zero add up to zero.
LEMMA SumZero ==
    ASSUME NEW f, NEW S, IsFiniteSet(S), \A x \in S : f[x] = 0
    PROVE  SumFunctionOnSet(f, S) = 0
<1>1. SumFunctionOnSet(f, {}) = SumFunctionOnSet(f, S)
  BY SumWhere
<1> QED
  BY <1>1, SumEmpty

-----------------------------------------------------------------------------
(* Finite sets of numbers, and orders on finite sets *)

\* A finite set of numbers has a greatest member.
LEMMA MaxExists ==
    ASSUME NEW S \in SUBSET Int, IsFiniteSet(S), S # {}
    PROVE  Max(S) \in S /\ \A x \in S : Max(S) >= x
  <1> DEFINE Topped == {s \in SUBSET S : s = {} \/ \E m \in s : \A x \in s : m >= x}
  <1>1. ASSUME NEW s \in SUBSET S, \A t \in SUBSET s : t # s => t \in Topped
        PROVE  s \in Topped
    <2> SUFFICES ASSUME s # {} PROVE \E m \in s : \A x \in s : m >= x OBVIOUS
    <2>1. PICK y \in s : TRUE OBVIOUS
    <2>2. s \ {y} \in Topped BY <1>1, <2>1
    <2>3. CASE s \ {y} = {} BY <2>1, <2>3
    <2>4. CASE s \ {y} # {}
      <3>1. PICK m \in s \ {y} : \A x \in s \ {y} : m >= x BY <2>2, <2>4
      <3>2. CASE m >= y BY <3>1, <3>2
      <3>3. CASE ~(m >= y)
        <4>1. \A x \in s : y >= x BY <2>1, <3>1, <3>3
        <4> QED BY <2>1, <4>1
      <3> QED BY <3>2, <3>3
    <2> QED BY <2>3, <2>4
  <1> HIDE DEF Topped
  <1>2. S \in Topped BY <1>1, SubsetInduction
  <1>3. \E m \in S : \A x \in S : m >= x BY <1>2 DEF Topped
  <1> QED BY <1>3 DEF Max

\* A finite set of numbers has a least member.
LEMMA MinExists ==
    ASSUME NEW S \in SUBSET Int, IsFiniteSet(S), S # {}
    PROVE  Min(S) \in S /\ \A x \in S : Min(S) <= x
  <1> DEFINE T == {-x : x \in S}
             f == [x \in S |-> -x]
  <1>1. f \in Surjection(S, T) BY DEF Surjection
  <1>2. IsFiniteSet(T)
    <2> HIDE DEF T, f
    <2> QED BY <1>1, FS_Surjection
  <1>3. T \in SUBSET Int /\ T # {} OBVIOUS
  <1>4. PICK m \in S : \A x \in T : -m >= x
    <2> DEFINE top == Max(T)
    <2>1. top \in T /\ \A x \in T : top >= x
      <3> HIDE DEF T
      <3> QED BY <1>2, <1>3, MaxExists
    <2> HIDE DEF top
    <2> QED BY <2>1
  <1>5. \A x \in S : m <= x
    <2> TAKE x \in S
    <2>1. -m >= -x /\ m \in Int /\ x \in Int BY <1>4
    <2> QED BY <2>1
  <1> QED BY <1>5 DEF Min

\* The lesser of two numbers.
LEMMA MinOfTwo ==
    ASSUME NEW a \in Int, NEW b \in Int PROVE Min({a, b}) = IF a <= b THEN a ELSE b
  BY DEF Min

\* R orders D strictly.
Orders(R, D) ==
    /\ \A x \in D : <<x, x>> \notin R
    /\ \A x, y, z \in D : <<x, y>> \in R /\ <<y, z>> \in R => <<x, z>> \in R
    /\ \A x, y \in D : x # y => <<x, y>> \in R \/ <<y, x>> \in R

\* How many members of D come before x.
Rank(R, D, x) == Cardinality({q \in D : <<q, x>> \in R})

\* The ranks of an order on a finite set are different, smaller than its size,
\* and in that order.
LEMMA RanksOrder ==
    ASSUME NEW D, IsFiniteSet(D), NEW R, Orders(R, D)
    PROVE  /\ \A x \in D : Rank(R, D, x) \in Nat /\ Rank(R, D, x) < Cardinality(D)
           /\ \A x, y \in D : <<x, y>> \in R <=> Rank(R, D, x) < Rank(R, D, y)
  <1> DEFINE Before(x) == {q \in D : <<q, x>> \in R}
  <1>1. ASSUME NEW x \in D
        PROVE  IsFiniteSet(Before(x)) /\ Cardinality(Before(x)) \in Nat
               /\ Cardinality(Before(x)) < Cardinality(D)
    <2>1. Before(x) \in SUBSET D /\ x \notin Before(x) BY <1>1 DEF Orders
    <2>2. IsFiniteSet(Before(x)) /\ Cardinality(Before(x)) <= Cardinality(D)
          /\ Before(x) # D
          /\ (Cardinality(D) = Cardinality(Before(x)) => D = Before(x))
      <3> HIDE DEF Before
      <3> QED BY <1>1, <2>1, FS_Subset
    <2>3. Cardinality(Before(x)) \in Nat /\ Cardinality(D) \in Nat
      <3> HIDE DEF Before
      <3> QED BY <2>2, FS_CardinalityType
    <2> HIDE DEF Before
    <2> QED BY <2>2, <2>3
  <1>2. ASSUME NEW x \in D, NEW y \in D, <<x, y>> \in R
        PROVE  Cardinality(Before(x)) < Cardinality(Before(y))
    <2>1. Before(x) \in SUBSET Before(y) BY <1>2 DEF Orders
    <2>2. x \in Before(y) /\ x \notin Before(x) BY <1>2 DEF Orders
    <2>3. IsFiniteSet(Before(y)) /\ Cardinality(Before(y)) \in Nat
          /\ Cardinality(Before(x)) \in Nat
      BY <1>1
    <2> HIDE DEF Before
    <2>4. /\ Cardinality(Before(x)) <= Cardinality(Before(y))
          /\ Cardinality(Before(y)) = Cardinality(Before(x)) => Before(y) = Before(x)
      BY <2>1, <2>3, FS_Subset
    <2> QED BY <2>2, <2>3, <2>4
  <1>3. ASSUME NEW x \in D, NEW y \in D, Cardinality(Before(x)) < Cardinality(Before(y))
        PROVE  <<x, y>> \in R
    <2>1. Cardinality(Before(x)) \in Nat /\ Cardinality(Before(y)) \in Nat BY <1>1
    <2>2. x # y
      <3> SUFFICES ASSUME x = y PROVE FALSE OBVIOUS
      <3>1. Before(x) = Before(y) OBVIOUS
      <3> HIDE DEF Before
      <3> QED BY <1>3, <2>1, <3>1
    <2>3. <<y, x>> \notin R BY <1>2, <1>3, <2>1
    <2> QED BY <2>2, <2>3 DEF Orders
  <1> QED BY <1>1, <1>2, <1>3 DEF Rank

\* Different numbers below the size of a set are all the numbers below it, and
\* each counts the members that have a smaller one.
LEMMA NumbersCount ==
    ASSUME NEW D, IsFiniteSet(D), NEW f \in [D -> 0 .. Cardinality(D) - 1],
           \A x, y \in D : f[x] = f[y] => x = y
    PROVE  /\ {f[x] : x \in D} = 0 .. Cardinality(D) - 1
           /\ \A x \in D : Cardinality({q \in D : f[q] < f[x]}) = f[x]
  <1> DEFINE n == Cardinality(D)
  <1>1. n \in Nat BY FS_CardinalityType
  <1>2. IsFiniteSet(0 .. n - 1) /\ Cardinality(0 .. n - 1) = n
    <2> HIDE DEF n
    <2>1. 0 \in Int /\ n - 1 \in Int BY <1>1
    <2>2. IsFiniteSet(0 .. n - 1) /\ Cardinality(0 .. n - 1) = IF 0 > n - 1 THEN 0 ELSE n - 1 - 0 + 1
      BY <2>1, FS_Interval
    <2> QED BY <1>1, <2>2
  <1>3. f \in Injection(D, 0 .. n - 1) BY DEF Injection, IsInjective
  <1>4. f \in Surjection(D, 0 .. n - 1)
    <2> HIDE DEF n
    <2>1. Cardinality(D) = Cardinality(0 .. n - 1) BY <1>2 DEF n
    <2> QED BY <1>2, <1>3, <2>1, FS_Injection
  <1>5. \A k \in 0 .. n - 1 : \E x \in D : f[x] = k BY <1>4 DEF Surjection
  <1>6. {f[x] : x \in D} = 0 .. n - 1 BY <1>5
  <1>7. ASSUME NEW x \in D PROVE Cardinality({q \in D : f[q] < f[x]}) = f[x]
    <2> DEFINE B == {q \in D : f[q] < f[x]}
               g == [q \in B |-> f[q]]
    <2>1. f[x] \in 0 .. n - 1 OBVIOUS
    <2>2. g \in [B -> 0 .. f[x] - 1] BY <1>1, <2>1
    <2>3. \A p, q \in B : g[p] = g[q] => p = q OBVIOUS
    <2>4. \A k \in 0 .. f[x] - 1 : \E q \in B : g[q] = k BY <1>1, <1>5, <2>1
    <2>5. g \in Bijection(B, 0 .. f[x] - 1)
      <3> HIDE DEF B, g
      <3> QED BY <2>2, <2>3, <2>4 DEF Bijection, Injection, IsInjective, Surjection
    <2>6. IsFiniteSet(B)
      <3>1. B \in SUBSET D OBVIOUS
      <3> HIDE DEF B
      <3> QED BY <3>1, FS_Subset
    <2> HIDE DEF B, g
    <2>7. Cardinality(0 .. f[x] - 1) = Cardinality(B)
      BY <2>5, <2>6, FS_Bijection DEF ExistsBijection
    <2>8. f[x] \in Nat /\ f[x] - 1 \in Int BY <1>1, <2>1
    <2>9. Cardinality(0 .. f[x] - 1) = IF 0 > f[x] - 1 THEN 0 ELSE f[x] - 1 - 0 + 1
      <3> DEFINE m == f[x] - 1
      <3>1. 0 \in Int /\ m \in Int BY <2>8
      <3> HIDE DEF m
      <3>2. Cardinality(0 .. m) = IF 0 > m THEN 0 ELSE m - 0 + 1 BY <3>1, FS_Interval
      <3> QED BY <3>2 DEF m
    <2>10. Cardinality(B) = f[x] BY <2>7, <2>8, <2>9
    <2> QED BY <2>10 DEF B
  <1> QED BY <1>6, <1>7
=============================================================================
