---------------------------- MODULE AmountsProofs ----------------------------
(***************************************************************************)
(* What the proofs about offerings need of fees and of sums of amounts.    *)
(***************************************************************************)
EXTENDS Amounts, FiniteSetTheorems, TLAPS

\* The units of every member of the family but x.
UnitsBut(f, x) == {u \in Units(f) : u[1] # x}

\* One member's units are as many as its amount.
LEMMA CellSize ==
    ASSUME NEW x, NEW n \in Nat
    PROVE  IsFiniteSet({x} \X (1..n)) /\ Cardinality({x} \X (1..n)) = n
<1>1. IsFiniteSet({x}) /\ Cardinality({x}) = 1
  BY FS_Singleton
<1>2. IsFiniteSet(1..n) /\ Cardinality(1..n) = n
  BY FS_Interval
<1>3. /\ IsFiniteSet({x} \X (1..n))
      /\ Cardinality({x} \X (1..n)) = Cardinality({x}) * Cardinality(1..n)
  <2> DEFINE own == {x}
             idx == 1..n
  <2> HIDE DEF own, idx
  <2>1. /\ IsFiniteSet(own \X idx)
        /\ Cardinality(own \X idx) = Cardinality(own) * Cardinality(idx)
    <3>1. IsFiniteSet(own) /\ IsFiniteSet(idx)
      BY <1>1, <1>2 DEF own, idx
    <3> QED BY <3>1, FS_Product
  <2> QED BY <2>1 DEF own, idx
<1>4. 1 * n = n
  OBVIOUS
<1> QED BY <1>1, <1>2, <1>3, <1>4

\* A family of natural amounts over a finite set has finitely many units.
LEMMA UnitsFinite ==
    ASSUME NEW S, IsFiniteSet(S), NEW f \in [S -> Nat]
    PROVE  IsFiniteSet(Units(f))
<1> DEFINE cell == [x \in S |-> {x} \X (1..f[x])]
           cells == {{x} \X (1..f[x]) : x \in S}
<1>1. cell \in Surjection(S, cells)
  BY DEF Surjection
<1>2. IsFiniteSet(cells)
  BY <1>1, FS_Surjection
<1>3. \A T \in cells : IsFiniteSet(T)
  <2> SUFFICES ASSUME NEW x \in S PROVE IsFiniteSet({x} \X (1..f[x]))
    OBVIOUS
  <2> f[x] \in Nat
    OBVIOUS
  <2> QED BY CellSize, Zenon
<1>4. Units(f) = UNION cells
  BY DEF Units
<1> QED BY <1>2, <1>3, <1>4, FS_UNION

\* The sum of natural amounts over a finite set is a natural number.
LEMMA TotalType ==
    ASSUME NEW S, IsFiniteSet(S), NEW f \in [S -> Nat]
    PROVE  Total(f) \in Nat
BY UnitsFinite, FS_CardinalityType DEF Total

\* A sum is one member's amount and the sum over the other members.
LEMMA TotalSplit ==
    ASSUME NEW S, IsFiniteSet(S), NEW f \in [S -> Nat], NEW x \in S
    PROVE  /\ Cardinality(UnitsBut(f, x)) \in Nat
           /\ Total(f) = f[x] + Cardinality(UnitsBut(f, x))
<1> DEFINE own == {x} \X (1..f[x])
<1> f[x] \in Nat
  OBVIOUS
<1>1. IsFiniteSet(Units(f)) /\ IsFiniteSet(UnitsBut(f, x))
  BY UnitsFinite, FS_Subset DEF UnitsBut
<1>2. IsFiniteSet(own) /\ Cardinality(own) = f[x]
  BY CellSize
<1>3. Units(f) = own \cup UnitsBut(f, x)
  BY DEF Units, UnitsBut
<1>4. own \cap UnitsBut(f, x) = {}
  BY DEF UnitsBut
<1>5. Cardinality(own \cap UnitsBut(f, x)) = 0
  BY <1>4, FS_EmptySet
<1>6. Cardinality(UnitsBut(f, x)) \in Nat
  BY <1>1, FS_CardinalityType
<1>7. Cardinality(own \cup UnitsBut(f, x))
        = Cardinality(own) + Cardinality(UnitsBut(f, x))
          - Cardinality(own \cap UnitsBut(f, x))
  BY <1>1, <1>2, FS_Union
<1>8. Total(f) = f[x] + Cardinality(UnitsBut(f, x)) - 0
  BY <1>2, <1>3, <1>5, <1>7 DEF Total
<1> QED BY <1>6, <1>8

\* Changing one member's amount changes the sum by as much.
LEMMA TotalExcept ==
    ASSUME NEW S, IsFiniteSet(S), NEW f \in [S -> Nat], NEW x \in S, NEW v \in Nat
    PROVE  Total([f EXCEPT ![x] = v]) = Total(f) - f[x] + v
<1> DEFINE g == [f EXCEPT ![x] = v]
<1>1. g \in [S -> Nat] /\ g[x] = v /\ f[x] \in Nat
  OBVIOUS
<1>2. UnitsBut(g, x) = UnitsBut(f, x)
  BY DEF Units, UnitsBut
<1>3. /\ Total(f) = f[x] + Cardinality(UnitsBut(f, x))
      /\ Cardinality(UnitsBut(f, x)) \in Nat
  BY TotalSplit
<1>4. Total(g) = v + Cardinality(UnitsBut(g, x))
  BY <1>1, TotalSplit, Zenon
<1> HIDE DEF g
<1> QED BY <1>1, <1>2, <1>3, <1>4 DEF g

\* No member's amount exceeds the sum.
LEMMA TotalBoundsMembers ==
    ASSUME NEW S, IsFiniteSet(S), NEW f \in [S -> Nat], NEW x \in S
    PROVE  f[x] <= Total(f)
<1>1. f[x] \in Nat
  OBVIOUS
<1>2. /\ Total(f) = f[x] + Cardinality(UnitsBut(f, x))
      /\ Cardinality(UnitsBut(f, x)) \in Nat
  BY TotalSplit
<1> QED BY <1>1, <1>2

\* Amounts that are at most as large have a sum at most as large.
LEMMA TotalMonotone ==
    ASSUME NEW S, IsFiniteSet(S), NEW f \in [S -> Nat], NEW g \in [S -> Nat],
           \A x \in S : f[x] <= g[x]
    PROVE  Total(f) <= Total(g)
<1>1. Units(f) \subseteq Units(g)
  BY DEF Units
<1>2. IsFiniteSet(Units(g))
  BY UnitsFinite
<1> QED BY <1>1, <1>2, FS_Subset DEF Total

\* The sum of zeros is zero.
LEMMA TotalOfZeros ==
    ASSUME NEW S, NEW f \in [S -> Nat], \A x \in S : f[x] = 0
    PROVE  Total(f) = 0
<1>1. Units(f) = {}
  BY DEF Units
<1> QED BY <1>1, FS_EmptySet DEF Total

\* Fees are natural numbers.
LEMMA FeeType ==
    ASSUME NEW amount \in Nat, NEW bps \in Nat
    PROVE  Fee(amount, bps) \in Nat
<1>1. amount * bps \in Nat
  OBVIOUS
<1>2. \A n \in Nat : n \div 10000 \in Nat
  OBVIOUS
<1> QED BY <1>1, <1>2 DEF Fee, BpsScale

\* Rounded-down quotients of two numbers add up to at most that of their sum.
LEMMA FloorsAdd ==
    \A m, n \in Nat : (m \div 10000) + (n \div 10000) <= (m + n) \div 10000
OBVIOUS

\* The interest on a part and on the rest is at most that on the whole: the
\* fact claim's unchecked interest_pool -= interest rests on.
LEMMA FeesOfParts ==
    ASSUME NEW a \in Nat, NEW b \in Nat, NEW bps \in Nat
    PROVE  Fee(a, bps) + Fee(b, bps) <= Fee(a + b, bps)
<1>1. a * bps \in Nat /\ b * bps \in Nat /\ (a + b) * bps = a * bps + b * bps
  OBVIOUS
<1> QED BY <1>1, FloorsAdd DEF Fee, BpsScale

\* The fees at two rates add up to at most the fee at their sum: the allowance
\* rwa.service.ts has a shipper approve covers what create_rwa_token pulls.
THEOREM ApprovalCoversUpfront ==
    ASSUME NEW raise \in Nat, NEW interestBps \in Nat, NEW feeBps \in Nat
    PROVE  Fee(raise, interestBps) + Fee(raise, feeBps)
             <= Fee(raise, interestBps + feeBps)
<1>1. /\ raise * interestBps \in Nat /\ raise * feeBps \in Nat
      /\ raise * (interestBps + feeBps) = raise * interestBps + raise * feeBps
  OBVIOUS
<1> QED BY <1>1, FloorsAdd DEF Fee, BpsScale
=============================================================================
