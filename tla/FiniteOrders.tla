---------------------------- MODULE FiniteOrders -----------------------------
(***************************************************************************)
(* Facts about numbers and finite ordered sets that the libraries do not   *)
(* state, or state of an operator where the provers need a set, and what   *)
(* the reading order of FamilyOrder does to a list of siblings.            *)
(***************************************************************************)
EXTENDS FamilyOrder, Integers, FiniteSetTheorems, WellFoundedInduction, TLAPS

-----------------------------------------------------------------------------
(* Induction, as a fact about sets: what a set of numbers closed under the *)
(* successor holds.                                                        *)

\* A set of natural numbers has a least one.
LEMMA LeastNumber ==
    ASSUME NEW T, T \subseteq Nat, T # {}
    PROVE  \E x \in T : \A y \in T : x <= y
<1>1. PICK x \in T : \A y \in T : ~(<<y, x>> \in OpToRel(<, Nat))
    BY NatLessThanWellFounded, WFMin, Zenon
<1>2. \A y \in T : ~(y < x)
    BY <1>1 DEF OpToRel
<1> QED BY <1>2

\* A set of natural numbers with a bound has a greatest one.
LEMMA GreatestNumber ==
    ASSUME NEW bound \in Nat, NEW T, T \subseteq 0 .. bound, T # {}
    PROVE  \E x \in T : \A y \in T : y <= x
<1> DEFINE U == {bound - x : x \in T}
<1>1. U \subseteq Nat /\ U # {}
  <2>1. \A x \in T : bound - x \in Nat
    OBVIOUS
  <2>2. PICK x \in T : TRUE
    OBVIOUS
  <2>3. bound - x \in U
    OBVIOUS
  <2> QED BY <2>1, <2>3
<1>2. PICK u \in U : \A v \in U : u <= v
    BY <1>1, LeastNumber
<1>3. PICK x \in T : u = bound - x
    BY <1>2
<1>4. \A y \in T : bound - x <= bound - y
    BY <1>2, <1>3
<1> QED BY <1>4

\* A set that has 0 and the successor of each of its numbers below a bound
\* has every number up to the bound.
LEMMA Counting ==
    ASSUME NEW S, NEW bound \in Nat, 0 \in S,
           \A k \in 0..(bound - 1) : k \in S => k + 1 \in S
    PROVE  \A k \in 0..bound : k \in S
<1> DEFINE T == {k \in 0..bound : k \notin S}
<1> SUFFICES ASSUME T # {} PROVE FALSE
    OBVIOUS
<1>1. T \subseteq Nat
    OBVIOUS
<1>2. PICK x \in T : \A y \in T : x <= y
    BY <1>1, LeastNumber
<1>3. x # 0 /\ x - 1 \in 0..(bound - 1) /\ (x - 1) + 1 = x
    OBVIOUS
<1>4. x - 1 \in T
    BY <1>3
<1> QED BY <1>2, <1>3, <1>4

-----------------------------------------------------------------------------
(* The rank of an element of a finite set in a strict order, given as the  *)
(* set of its pairs: the number of elements below it.                      *)

Lower(S, R, x) == {y \in S : <<y, x>> \in R}
RankIn(S, R, x) == Cardinality(Lower(S, R, x))

StrictOrder(S, R) ==
    /\ \A x \in S : <<x, x>> \notin R
    /\ \A x, y, z \in S : <<x, y>> \in R /\ <<y, z>> \in R => <<x, z>> \in R
    /\ \A x, y \in S : x # y => <<x, y>> \in R \/ <<y, x>> \in R

\* Ranks are numbers below the size of the set and grow with the order.
LEMMA RanksGrow ==
    ASSUME NEW S, IsFiniteSet(S), NEW R, StrictOrder(S, R)
    PROVE  /\ \A x \in S : RankIn(S, R, x) \in 0 .. Cardinality(S) - 1
           /\ \A x, y \in S : <<x, y>> \in R <=> RankIn(S, R, x) < RankIn(S, R, y)
<1>1. \A T : T \subseteq S =>
        /\ IsFiniteSet(T) /\ Cardinality(T) \in Nat
        /\ T # S => Cardinality(T) < Cardinality(S)
  <2> SUFFICES ASSUME NEW T, T \subseteq S
               PROVE  /\ IsFiniteSet(T) /\ Cardinality(T) \in Nat
                      /\ T # S => Cardinality(T) < Cardinality(S)
    OBVIOUS
  <2>1. /\ IsFiniteSet(T)
        /\ Cardinality(T) <= Cardinality(S)
        /\ Cardinality(S) = Cardinality(T) => S = T
    BY FS_Subset
  <2>2. Cardinality(T) \in Nat /\ Cardinality(S) \in Nat
    BY <2>1, FS_CardinalityType
  <2> QED BY <2>1, <2>2
<1>2. Cardinality(S) \in Nat
    BY FS_CardinalityType
<1>3. ASSUME NEW x \in S
      PROVE  Lower(S, R, x) \subseteq S /\ Lower(S, R, x) # S
    BY DEF Lower, StrictOrder
<1>4. ASSUME NEW x \in S
      PROVE  RankIn(S, R, x) \in 0 .. Cardinality(S) - 1
    BY <1>1, <1>2, <1>3 DEF RankIn
<1>5. ASSUME NEW x \in S, NEW y \in S, <<x, y>> \in R
      PROVE  RankIn(S, R, x) < RankIn(S, R, y)
  <2>1. Lower(S, R, x) \subseteq Lower(S, R, y)
    BY <1>5 DEF Lower, StrictOrder
  <2>2. x \in Lower(S, R, y) /\ x \notin Lower(S, R, x)
    BY <1>5 DEF Lower, StrictOrder
  <2>3. IsFiniteSet(Lower(S, R, y))
    BY <1>1, <1>3
  <2>4. /\ RankIn(S, R, x) <= RankIn(S, R, y)
        /\ RankIn(S, R, x) # RankIn(S, R, y)
    BY <2>1, <2>2, <2>3, FS_Subset DEF RankIn
  <2> QED BY <2>4, <1>4
<1>6. ASSUME NEW x \in S, NEW y \in S, RankIn(S, R, x) < RankIn(S, R, y)
      PROVE  <<x, y>> \in R
  <2>1. x # y /\ ~(RankIn(S, R, y) < RankIn(S, R, x))
    BY <1>4, <1>6
  <2>2. <<y, x>> \notin R
    BY <1>5, <2>1
  <2> QED BY <2>1, <2>2 DEF StrictOrder
<1> QED BY <1>4, <1>5, <1>6

\* Every number below the size of the set is the rank of one element.
LEMMA RanksAreTaken ==
    ASSUME NEW S, IsFiniteSet(S), NEW R, StrictOrder(S, R),
           NEW k \in 0 .. Cardinality(S) - 1
    PROVE  \E x \in S : RankIn(S, R, x) = k
<1> DEFINE T == 0 .. Cardinality(S) - 1
           rank == [x \in S |-> RankIn(S, R, x)]
<1>1. Cardinality(S) \in Nat
    BY FS_CardinalityType
<1>2. IsFiniteSet(T) /\ Cardinality(T) = Cardinality(S)
    BY <1>1, FS_Interval
<1>3. rank \in Injection(S, T)
  <2>1. rank \in [S -> T]
    BY RanksGrow
  <2>2. ASSUME NEW x \in S, NEW y \in S, x # y
        PROVE  rank[x] # rank[y]
    <3>1. rank[x] \in T /\ rank[y] \in T
      BY <2>1
    <3>2. rank[x] < rank[y] \/ rank[y] < rank[x]
      BY <2>2, RanksGrow DEF StrictOrder
    <3> QED BY <3>1, <3>2
  <2> QED BY <2>1, <2>2 DEF Injection, IsInjective
<1>4. rank \in Surjection(S, T)
  <2> HIDE DEF rank, T
  <2> QED BY <1>2, <1>3, FS_Injection
<1>5. \E x \in S : rank[x] = k
    BY <1>4 DEF Surjection
<1> QED BY <1>5

\* A finite set whose elements have different numbers can be listed by them.
LEMMA ListedByNumber ==
    ASSUME NEW S, IsFiniteSet(S), NEW num \in [S -> Int],
           \A x, y \in S : x # y => num[x] # num[y]
    PROVE  \E s \in [1 .. Cardinality(S) -> S] :
              \A i, j \in 1 .. Cardinality(S) : i < j => num[s[i]] < num[s[j]]
<1> DEFINE R == {p \in S \X S : num[p[1]] < num[p[2]]}
           n == Cardinality(S)
           s == [i \in 1 .. n |-> CHOOSE x \in S : RankIn(S, R, x) = i - 1]
<1>1. StrictOrder(S, R)
    BY DEF StrictOrder
<1>2. n \in Nat
    BY FS_CardinalityType
<1> HIDE DEF R
<1>3. ASSUME NEW i \in 1 .. n
      PROVE  s[i] \in S /\ RankIn(S, R, s[i]) = i - 1
  <2>1. i - 1 \in 0 .. n - 1
    BY <1>2
  <2>2. \E x \in S : RankIn(S, R, x) = i - 1
    BY <1>1, <2>1, RanksAreTaken
  <2> QED BY <2>2
<1>4. ASSUME NEW i \in 1 .. n, NEW j \in 1 .. n, i < j
      PROVE  num[s[i]] < num[s[j]]
  <2>1. RankIn(S, R, s[i]) < RankIn(S, R, s[j])
    BY <1>2, <1>3, <1>4
  <2>2. <<s[i], s[j]>> \in R
    BY <1>1, <1>3, <2>1, RanksGrow
  <2> QED BY <2>2 DEF R
<1>5. s \in [1 .. n -> S]
    BY <1>3
<1> QED BY <1>4, <1>5

\* Such a list has every element.
LEMMA ListsAreComplete ==
    ASSUME NEW S, IsFiniteSet(S), NEW s \in [1 .. Cardinality(S) -> S],
           \A i, j \in 1 .. Cardinality(S) : i < j => s[i] # s[j]
    PROVE  \A x \in S : \E i \in 1 .. Cardinality(S) : s[i] = x
<1> DEFINE n == Cardinality(S)
<1>1. n \in Nat
    BY FS_CardinalityType
<1>2. IsFiniteSet(1 .. n) /\ Cardinality(1 .. n) = n
    BY <1>1, FS_Interval
<1>3. s \in Injection(1 .. n, S)
  <2>1. ASSUME NEW i \in 1 .. n, NEW j \in 1 .. n, i # j
        PROVE  s[i] # s[j]
    <3>1. i < j \/ j < i
      BY <1>1, <2>1
    <3> QED BY <3>1
  <2> QED BY <2>1 DEF Injection, IsInjective
<1>4. s \in Surjection(1 .. n, S)
    BY <1>2, <1>3, FS_Injection
<1> QED BY <1>4 DEF Surjection

\* A list of elements of a set is a sequence over it.
LEMMA ListsAreSequences ==
    ASSUME NEW S, NEW n \in Nat, NEW s \in [1 .. n -> S]
    PROVE  s \in Seq(S) /\ Len(s) = n
    OBVIOUS

-----------------------------------------------------------------------------
(* The reading order of siblings (FamilyOrder).                            *)

\* The pairs of positions in P whose labels, and whose places, are in order.
ByLabel(labels, P) == {p \in P \X P : Precedes(labels, p[1], p[2])}
ByPlace(P) == {p \in P \X P : p[1] < p[2]}

\* Two orders laid over one another are an order.
LEMMA BothAreOrders ==
    ASSUME NEW P, P \subseteq Int, NEW labels, \A i \in P : labels[i].index \in Int
    PROVE  /\ StrictOrder(P, ByLabel(labels, P))
           /\ StrictOrder(P, ByPlace(P))
           /\ \A m \in P : /\ Lower(P, ByLabel(labels, P), m) = {k \in P : Precedes(labels, k, m)}
                           /\ Lower(P, ByPlace(P), m) = {k \in P : k < m}
<1>1. \A m, k \in P : <<k, m>> \in ByLabel(labels, P) <=> Precedes(labels, k, m)
    BY DEF ByLabel
<1>2. \A m, k \in P : <<k, m>> \in ByPlace(P) <=> k < m
    BY DEF ByPlace
<1>3. StrictOrder(P, ByLabel(labels, P))
    BY <1>1 DEF StrictOrder, Precedes
<1>4. StrictOrder(P, ByPlace(P))
    BY <1>2 DEF StrictOrder
<1> QED BY <1>1, <1>2, <1>3, <1>4 DEF Lower

\* Each position of a fan-out is given to one of its members, in order.
LEMMA MembersTakeTurns ==
    ASSUME NEW n \in Nat, NEW labels, DOMAIN labels = 1 .. n,
           \A i \in 1 .. n : labels[i].index \in Int,
           NEW family
    PROVE  LET P == Positions(labels, family)
           IN /\ \A i \in P : MemberAt(labels, i) \in P
              /\ \A i, j \in P : i < j => Precedes(labels, MemberAt(labels, i), MemberAt(labels, j))
<1> DEFINE P == Positions(labels, family)
           R == ByLabel(labels, P)
           Q == ByPlace(P)
<1>1. P \subseteq 1 .. n /\ P \subseteq Int
    BY DEF Positions
<1>2. IsFiniteSet(P)
    BY <1>1, FS_Interval, FS_Subset
<1>3. \A i \in P : Positions(labels, labels[i].family) = P /\ labels[i].index \in Int
    BY <1>1 DEF Positions
<1>4. StrictOrder(P, R) /\ StrictOrder(P, Q)
    BY <1>1, <1>3, BothAreOrders
<1>5. \A m \in P : /\ RankIn(P, R, m) = Cardinality({k \in P : Precedes(labels, k, m)})
                   /\ RankIn(P, Q, m) = Cardinality({k \in P : k < m})
  <2>1. \A m \in P : /\ Lower(P, R, m) = {k \in P : Precedes(labels, k, m)}
                     /\ Lower(P, Q, m) = {k \in P : k < m}
    BY <1>1, <1>3, BothAreOrders
  <2> QED BY <2>1, Zenon DEF RankIn
<1>6. ASSUME NEW i \in P
      PROVE  MemberAt(labels, i) \in P /\ RankIn(P, R, MemberAt(labels, i)) = RankIn(P, Q, i)
  <2> DEFINE At(m) == Cardinality({k \in P : Precedes(labels, k, m)}) = Cardinality({k \in P : k < i})
  <2>1. MemberAt(labels, i) = CHOOSE m \in P : At(m)
    BY <1>3 DEF MemberAt
  <2>2. RankIn(P, Q, i) \in 0 .. Cardinality(P) - 1
    BY <1>2, <1>4, RanksGrow
  <2>3. \E m \in P : RankIn(P, R, m) = RankIn(P, Q, i)
    BY <1>2, <1>4, <2>2, RanksAreTaken
  <2>4. \E m \in P : At(m)
    BY <1>5, <2>3
  <2>5. MemberAt(labels, i) \in P /\ At(MemberAt(labels, i))
    BY <2>1, <2>4
  <2> QED BY <1>5, <2>5
<1>7. ASSUME NEW i \in P, NEW j \in P, i < j
      PROVE  Precedes(labels, MemberAt(labels, i), MemberAt(labels, j))
  <2>1. <<i, j>> \in Q
    BY <1>7 DEF ByPlace
  <2>2. RankIn(P, Q, i) < RankIn(P, Q, j)
    BY <1>2, <1>4, <2>1, RanksGrow
  <2>3. <<MemberAt(labels, i), MemberAt(labels, j)>> \in R
    BY <1>2, <1>4, <1>6, <2>2, RanksGrow
  <2> QED BY <2>3 DEF ByLabel
<1> QED BY <1>6, <1>7

\* The members of a family stand side by side.
Together(labels, family) ==
    \A i, j \in Positions(labels, family) : \A k \in i .. j : k \in Positions(labels, family)

\* A family of several that stand side by side is a fan-out.
LEMMA TogetherIsFanOut ==
    ASSUME NEW n \in Nat, NEW labels, DOMAIN labels = 1 .. n, NEW family,
           Together(labels, family),
           NEW i \in Positions(labels, family), NEW j \in Positions(labels, family), i # j
    PROVE  IsFanOut(labels, family)
<1> DEFINE P == Positions(labels, family)
           a == Min(P)
           b == Max(P)
<1>1. P \subseteq 1 .. n /\ P \subseteq Nat /\ P \subseteq 0 .. n /\ P # {} /\ IsFiniteSet(P)
  <2>1. P \subseteq 1 .. n
    BY DEF Positions
  <2>2. IsFiniteSet(P)
    BY <2>1, FS_Interval, FS_Subset
  <2>3. i \in P
    OBVIOUS
  <2> HIDE DEF P
  <2> QED BY <2>1, <2>2, <2>3
<1>2. a \in P /\ \A y \in P : a <= y
  <2>1. \E x \in P : \A y \in P : x <= y
    BY <1>1, LeastNumber
  <2> QED BY <2>1 DEF Min
<1>3. b \in P /\ \A y \in P : b >= y
  <2> HIDE DEF P
  <2>1. \E x \in P : \A y \in P : y <= x
    BY <1>1, GreatestNumber
  <2>2. \E x \in P : \A y \in P : x >= y
    BY <1>1, <2>1
  <2> QED BY <2>2 DEF Max
<1>4. P = a .. b
  <2> SUFFICES ASSUME NEW k PROVE k \in P <=> k \in a .. b
    OBVIOUS
  <2>1. k \in a .. b => k \in P
    BY <1>2, <1>3 DEF Together
  <2>2. k \in P => k \in a .. b
    <3> HIDE DEF P, a, b
    <3> QED BY <1>1, <1>2, <1>3
  <2> QED BY <2>1, <2>2
<1>5. Cardinality(P) > 1
  <2> HIDE DEF P
  <2>1. Cardinality(P) \in Nat /\ Cardinality(P) # 0
    BY <1>1, FS_EmptySet, FS_CardinalityType
  <2>2. Cardinality(P) # 1
    <3>1. \A x : P # {x}
      BY DEF P
    <3> QED BY <1>1, <3>1, FS_Singleton
  <2> QED BY <2>1, <2>2
<1> QED BY <1>4, <1>5 DEF IsFanOut

\* The reading order is an order of all the steps. It puts one before another
\* that was called earlier only within a fan-out, and by their numbers; a fan-out
\* is in the order of its numbers.
LEMMA ReadingOrder ==
    ASSUME NEW n \in Nat, NEW labels, DOMAIN labels = 1 .. n,
           \A i \in 1 .. n : labels[i].index \in Int
    PROVE  LET order == DisplayOrder(labels)
           IN /\ order \in [1 .. n -> 1 .. n]
              /\ \A i, j \in 1 .. n : i < j =>
                    /\ order[i] # order[j]
                    /\ order[j] < order[i] =>
                          /\ labels[order[i]].index < labels[order[j]].index
                          /\ \A k \in order[j] .. order[i] :
                                labels[k].family = labels[order[i]].family
                    /\ order[j] < order[i] => Together(labels, labels[order[i]].family)
                    /\ labels[order[i]].family = labels[order[j]].family
                       /\ Together(labels, labels[order[i]].family)
                       => labels[order[i]].index <= labels[order[j]].index
<1> DEFINE order == DisplayOrder(labels)
           Of(i) == Positions(labels, labels[i].family)
           Fan(i) == IsFanOut(labels, labels[i].family)
<1>1. \A i, k \in 1 .. n : k \in Of(i) <=> labels[k].family = labels[i].family
    BY DEF Positions
<1>2. \A i \in 1 .. n : i \in Of(i) /\ Of(i) \subseteq 1 .. n
    BY DEF Positions
<1>3. ASSUME NEW i \in 1 .. n, Fan(i)
      PROVE  \A j, k \in Of(i) : \A m \in j .. k : m \in Of(i)
  <2> DEFINE a == Min(Of(i))
             b == Max(Of(i))
  <2>1. Of(i) = a .. b
    BY <1>3 DEF IsFanOut
  <2>2. Of(i) \subseteq Nat /\ Of(i) \subseteq 0 .. n /\ Of(i) # {}
    <3> HIDE DEF Of
    <3> QED BY <1>2
  <2>3. a \in Of(i)
    <3>1. \E x \in Of(i) : \A y \in Of(i) : x <= y
      BY <2>2, LeastNumber
    <3> QED BY <3>1 DEF Min
  <2>4. b \in Of(i)
    <3>1. \E x \in Of(i) : \A y \in Of(i) : x >= y
      <4> HIDE DEF Of
      <4>1. \E x \in Of(i) : \A y \in Of(i) : y <= x
        BY <2>2, GreatestNumber
      <4> QED BY <2>2, <4>1
    <3> QED BY <3>1 DEF Max
  <2>5. a \in Int /\ b \in Int
    BY <2>2, <2>3, <2>4
  <2> HIDE DEF a, b, Of
  <2> QED BY <2>1, <2>5
<1>4. ASSUME NEW i \in 1 .. n
      PROVE  /\ order[i] \in Of(i)
             /\ ~Fan(i) => order[i] = i
  <2>1. order[i] = IF Fan(i) THEN MemberAt(labels, i) ELSE i
    BY DEF DisplayOrder
  <2>2. MemberAt(labels, i) \in Of(i)
    BY <1>2, MembersTakeTurns
  <2> QED BY <1>2, <2>1, <2>2
<1>5. order \in [1 .. n -> 1 .. n]
  <2>1. DOMAIN order = 1 .. n
    BY DEF DisplayOrder
  <2>2. order = [i \in 1 .. n |-> order[i]]
    BY DEF DisplayOrder
  <2> QED BY <1>2, <1>4, <2>1, <2>2
<1>6. ASSUME NEW i \in 1 .. n, NEW j \in 1 .. n, i < j,
             labels[i].family = labels[j].family, Fan(i)
      PROVE  Precedes(labels, order[i], order[j])
  <2>1. Of(i) = Of(j) /\ Fan(j) /\ i \in Of(i) /\ j \in Of(i)
    BY <1>2, <1>6
  <2>2. order[i] = MemberAt(labels, i) /\ order[j] = MemberAt(labels, j)
    BY <1>6, <2>1 DEF DisplayOrder
  <2> QED BY <1>6, <2>1, <2>2, MembersTakeTurns
<1>7. ASSUME NEW i \in 1 .. n, NEW j \in 1 .. n, i < j,
             labels[i].family # labels[j].family \/ ~Fan(i)
      PROVE  order[i] < order[j]
  <2>1. order[i] \in 1 .. n /\ order[j] \in 1 .. n
    BY <1>5
  <2>2. CASE ~Fan(i)
    <3>1. order[i] = i
      BY <1>4, <2>2
    <3>2. CASE ~Fan(j)
      BY <1>4, <1>7, <3>1, <3>2
    <3>3. CASE Fan(j)
      <4>1. labels[i].family # labels[j].family
        BY <2>2, <3>3
      <4>2. i \notin Of(j) /\ j \in Of(j) /\ order[j] \in Of(j)
        BY <1>1, <1>4, <4>1
      <4>3. order[j] <= i => i \in order[j] .. j
        BY <1>7, <2>1
      <4>4. \A a, b \in Of(j) : \A m \in a .. b : m \in Of(j)
        BY <1>3, <3>3
      <4>5. ~(order[j] <= i)
        BY <4>2, <4>3, <4>4
      <4> QED BY <2>1, <3>1, <4>5
    <3> QED BY <3>2, <3>3
  <2>3. CASE Fan(i) /\ labels[i].family # labels[j].family
    <3> HIDE DEF Of, Fan, order
    <3>1. j \notin Of(i) /\ i \in Of(i) /\ order[i] \in Of(i) /\ order[j] \in Of(j)
          /\ order[j] \notin Of(i) /\ i \notin Of(j) /\ j \in Of(j)
      BY <1>1, <1>4, <2>1, <2>3
    <3>2. order[i] < j
      <4>1. j <= order[i] => j \in i .. order[i]
        BY <1>7, <2>1
      <4> QED BY <1>3, <2>1, <2>3, <3>1, <4>1
    <3>3. CASE ~Fan(j)
      BY <1>4, <3>2, <3>3
    <3>4. CASE Fan(j)
      <4>1. i < order[j]
        <5>1. order[j] <= i => i \in order[j] .. j
          BY <1>7, <2>1
        <5> QED BY <1>3, <2>1, <3>1, <3>4, <5>1
      <4>2. order[j] <= order[i] => order[j] \in i .. order[i]
        BY <2>1, <4>1
      <4> QED BY <1>3, <2>1, <2>3, <3>1, <4>2
    <3> QED BY <3>3, <3>4
  <2> QED BY <1>7, <2>2, <2>3
<1>8. ASSUME NEW i \in 1 .. n, NEW j \in 1 .. n, i < j
      PROVE  /\ order[i] # order[j]
             /\ order[j] < order[i] =>
                   /\ labels[order[i]].index < labels[order[j]].index
                   /\ \A k \in order[j] .. order[i] :
                         labels[k].family = labels[order[i]].family
  <2>1. order[i] \in 1 .. n /\ order[j] \in 1 .. n
    BY <1>5
  <2>2. CASE labels[i].family = labels[j].family /\ Fan(i)
    <3>1. Precedes(labels, order[i], order[j])
      BY <1>6, <1>8, <2>2
    <3>2. labels[order[i]].index \in Int /\ labels[order[j]].index \in Int
      BY <2>1
    <3>3. order[i] \in Of(i) /\ order[j] \in Of(i)
      BY <1>1, <1>4, <2>1, <2>2
    <3>4. \A k \in order[j] .. order[i] : labels[k].family = labels[order[i]].family
      <4> SUFFICES ASSUME NEW k \in order[j] .. order[i]
                   PROVE  labels[k].family = labels[order[i]].family
        OBVIOUS
      <4>1. k \in Of(i) /\ k \in 1 .. n
        BY <1>3, <2>1, <2>2, <3>3
      <4> QED BY <1>1, <2>1, <3>3, <4>1
    <3> QED BY <2>1, <3>1, <3>2, <3>4 DEF Precedes
  <2>3. CASE labels[i].family # labels[j].family \/ ~Fan(i)
    <3>1. order[i] < order[j]
      BY <1>7, <1>8, <2>3
    <3> QED BY <2>1, <3>1
  <2> QED BY <2>2, <2>3
<1>9. \A i \in 1 .. n : Of(order[i]) = Of(i) /\ labels[order[i]].family = labels[i].family
  <2> SUFFICES ASSUME NEW i \in 1 .. n
               PROVE  Of(order[i]) = Of(i) /\ labels[order[i]].family = labels[i].family
    OBVIOUS
  <2>1. labels[order[i]].family = labels[i].family
    BY <1>1, <1>4, <1>5
  <2> QED BY <2>1
<1>10. ASSUME NEW i \in 1 .. n, NEW j \in 1 .. n, i < j
       PROVE  /\ order[j] < order[i] => Together(labels, labels[order[i]].family)
              /\ labels[order[i]].family = labels[order[j]].family
                 /\ Together(labels, labels[order[i]].family)
                 => labels[order[i]].index <= labels[order[j]].index
  <2>1. order[i] \in 1 .. n /\ order[j] \in 1 .. n
    BY <1>5
  <2>2. ASSUME order[j] < order[i] PROVE Together(labels, labels[order[i]].family)
    <3>1. labels[i].family = labels[j].family /\ Fan(i)
      BY <1>7, <1>10, <2>1, <2>2
    <3> QED BY <1>3, <1>9, <3>1 DEF Together
  <2>3. ASSUME labels[order[i]].family = labels[order[j]].family,
               Together(labels, labels[order[i]].family)
        PROVE  labels[order[i]].index <= labels[order[j]].index
    <3>1. labels[i].family = labels[j].family /\ Together(labels, labels[i].family)
      BY <1>9, <2>3
    <3>2. i \in Of(i) /\ j \in Of(i) /\ i # j
      BY <1>1, <1>10, <3>1
    <3>3. Fan(i)
      BY <3>1, <3>2, TogetherIsFanOut
    <3>4. Precedes(labels, order[i], order[j])
      BY <1>6, <1>10, <3>1, <3>3
    <3>5. labels[order[i]].index \in Int /\ labels[order[j]].index \in Int
      BY <2>1
    <3> QED BY <3>4, <3>5 DEF Precedes
  <2> QED BY <2>2, <2>3
<1> QED BY <1>5, <1>8, <1>10
==============================================================================
