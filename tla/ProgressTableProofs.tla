------------------------- MODULE ProgressTableProofs -------------------------
(***************************************************************************)
(* Proofs about the progress table for trees of any size: what the rows of *)
(* a tree are, by induction from the last process to the first, and what   *)
(* a walk has read while the daemon goes on, as an inductive invariant.    *)
(***************************************************************************)
EXTENDS ProgressTable, FiniteOrders, SequenceTheorems

-----------------------------------------------------------------------------
(* Trees of processes, as sets.                                            *)

\* What a row depends on, for a set of processes that were read: who called a
\* process and what role it has. None of it ever changes.
Shape(S) == [p \in S |-> [up |-> process[p].parent, role |-> process[p].role]]

\* A tree of processes: those that a process called have larger pks than it.
IsTree(sh) ==
    /\ DOMAIN sh \subseteq Nat \ {0} /\ Root \in DOMAIN sh /\ sh[Root].up = 0
    /\ \A p \in DOMAIN sh \ {Root} : sh[p].up \in DOMAIN sh /\ sh[p].up < p

\* Whoever was called by a member is a member.
Closed(sh, T) == \A k \in DOMAIN sh : sh[k].up \in T => k \in T

\* A process and those it called, by way of others or not: the least closed set.
Under(sh, p) == {q \in DOMAIN sh : \A T \in SUBSET DOMAIN sh : p \in T /\ Closed(sh, T) => q \in T}

\* A process, and all that those under it called, are under it ...
LEMMA UnderIsClosed ==
    ASSUME NEW sh, NEW p \in DOMAIN sh
    PROVE  /\ Under(sh, p) \subseteq DOMAIN sh /\ p \in Under(sh, p)
           /\ \A k \in DOMAIN sh : sh[k].up \in Under(sh, p) => k \in Under(sh, p)
<1>1. \A k \in DOMAIN sh : sh[k].up \in Under(sh, p) => k \in Under(sh, p)
  <2> SUFFICES ASSUME NEW k \in DOMAIN sh, sh[k].up \in Under(sh, p),
                      NEW T \in SUBSET DOMAIN sh, p \in T, Closed(sh, T)
               PROVE  k \in T
    BY DEF Under
  <2>1. sh[k].up \in T
    BY DEF Under
  <2> QED BY <2>1 DEF Closed
<1> QED BY <1>1 DEF Under

\* ... and a set that is closed so far holds all of them.
LEMMA UnderIsLeast ==
    ASSUME NEW sh, NEW p \in DOMAIN sh, NEW T, p \in T,
           \A k \in DOMAIN sh : k \in Under(sh, p) /\ sh[k].up \in T => k \in T
    PROVE  Under(sh, p) \subseteq T
<1> DEFINE U == T \cap Under(sh, p)
<1>1. U \in SUBSET DOMAIN sh /\ p \in U
    BY UnderIsClosed
<1>2. Closed(sh, U)
    BY UnderIsClosed DEF Closed
<1>3. \A q \in Under(sh, p) : q \in U
    BY <1>1, <1>2 DEF Under
<1> QED BY <1>3

\* What is under a process has larger pks, and callers that are under it too.
LEMMA UnderIsLater ==
    ASSUME NEW sh, IsTree(sh), NEW p \in DOMAIN sh
    PROVE  /\ \A q \in Under(sh, p) : p <= q
           /\ \A q \in Under(sh, p) \ {p} : sh[q].up \in Under(sh, p) /\ p < q
<1>1. Under(sh, p) \subseteq {q \in DOMAIN sh : p <= q}
  <2> DEFINE T == {q \in DOMAIN sh : p <= q}
  <2>1. p \in T
    BY DEF IsTree
  <2>2. \A k \in DOMAIN sh : sh[k].up \in T => k \in T
    <3> SUFFICES ASSUME NEW k \in DOMAIN sh, sh[k].up \in DOMAIN sh, p <= sh[k].up
                 PROVE  p <= k
      OBVIOUS
    <3>1. k # Root
      BY DEF IsTree
    <3> QED BY <3>1 DEF IsTree
  <2> HIDE DEF T
  <2>3. Under(sh, p) \subseteq T
    BY <2>1, <2>2, UnderIsLeast
  <2> QED BY <2>3 DEF T
<1>2. Under(sh, p) \subseteq {q \in Under(sh, p) : q # p => sh[q].up \in Under(sh, p)}
  <2> DEFINE T == {q \in Under(sh, p) : q # p => sh[q].up \in Under(sh, p)}
  <2>1. p \in T
    BY UnderIsClosed
  <2>2. \A k \in DOMAIN sh : k \in Under(sh, p) /\ sh[k].up \in T => k \in T
    OBVIOUS
  <2> HIDE DEF T
  <2>3. Under(sh, p) \subseteq T
    BY <2>1, <2>2, UnderIsLeast
  <2> QED BY <2>3 DEF T
<1>3. \A q \in Under(sh, p) : q \in Nat /\ p \in Nat
    BY UnderIsClosed DEF IsTree
<1> QED BY <1>1, <1>2, <1>3

\* Under what is under a process.
LEMMA UnderIsTransitive ==
    ASSUME NEW sh, NEW p \in DOMAIN sh, NEW q \in Under(sh, p)
    PROVE  Under(sh, q) \subseteq Under(sh, p)
<1>1. q \in DOMAIN sh
    BY UnderIsClosed
<1> QED BY <1>1, UnderIsClosed, UnderIsLeast

\* Of two processes above a third, one is above the other.
LEMMA AboveIsAChain ==
    ASSUME NEW sh, IsTree(sh), NEW a \in DOMAIN sh, NEW b \in DOMAIN sh,
           NEW q \in Under(sh, a), q \in Under(sh, b)
    PROVE  a \in Under(sh, b) \/ b \in Under(sh, a)
<1> DEFINE T == {r \in Under(sh, a) : r \in Under(sh, b) =>
                                         a \in Under(sh, b) \/ b \in Under(sh, a)}
<1>1. a \in T
    BY UnderIsClosed
<1>2. \A k \in DOMAIN sh : k \in Under(sh, a) /\ sh[k].up \in T => k \in T
    BY UnderIsLater
<1> HIDE DEF T
<1>3. q \in T
    BY <1>1, <1>2, UnderIsLeast
<1> QED BY <1>3 DEF T

\* Those that p called.
Kin(sh, p) == {k \in DOMAIN sh : sh[k].up = p}

\* What is under a process is under one of those it called itself.
LEMMA UnderKin ==
    ASSUME NEW sh, IsTree(sh), NEW p \in DOMAIN sh
    PROVE  /\ Under(sh, p) \ {p} = UNION {Under(sh, k) : k \in Kin(sh, p)}
           /\ \A k \in Kin(sh, p) : k \in DOMAIN sh /\ p < k /\ p \notin Under(sh, k)
           /\ \A k, l \in Kin(sh, p) : k # l => Under(sh, k) \cap Under(sh, l) = {}
           /\ \A k \in Kin(sh, p) : \A q \in Under(sh, k) : sh[q].up = p => q = k
<1>0. p \in Nat \ {0}
    BY DEF IsTree
<1>1. ASSUME NEW k \in Kin(sh, p)
      PROVE  /\ k \in DOMAIN sh /\ p < k /\ p \notin Under(sh, k)
             /\ k \in Under(sh, p) /\ k \in Nat
  <2>1. k \in DOMAIN sh /\ sh[k].up = p
    BY DEF Kin
  <2>2. k # Root
    BY <1>0, <2>1 DEF IsTree
  <2>3. p < k /\ k \in Nat
    BY <2>1, <2>2 DEF IsTree
  <2>4. p \notin Under(sh, k)
    BY <1>0, <2>1, <2>3, UnderIsLater
  <2>5. k \in Under(sh, p)
    BY <2>1, UnderIsClosed
  <2> QED BY <2>1, <2>3, <2>4, <2>5
<1>2. \A k \in Kin(sh, p) : Under(sh, k) \subseteq Under(sh, p) \ {p}
    BY <1>1, UnderIsTransitive
<1>3. Under(sh, p) \subseteq {p} \cup UNION {Under(sh, k) : k \in Kin(sh, p)}
  <2> DEFINE T == {p} \cup UNION {Under(sh, k) : k \in Kin(sh, p)}
  <2>1. p \in T
    OBVIOUS
  <2>2. ASSUME NEW k \in DOMAIN sh, sh[k].up \in T
        PROVE  k \in T
    <3>1. CASE sh[k].up = p
      BY <3>1, UnderIsClosed DEF Kin
    <3>2. CASE sh[k].up # p
      <4>1. PICK l \in Kin(sh, p) : sh[k].up \in Under(sh, l)
        BY <2>2, <3>2
      <4> QED BY <1>1, <4>1, UnderIsClosed
    <3> QED BY <3>1, <3>2
  <2> HIDE DEF T
  <2>3. Under(sh, p) \subseteq T
    BY <2>1, <2>2, UnderIsLeast
  <2> QED BY <2>3 DEF T
<1>4. ASSUME NEW k \in Kin(sh, p), NEW q \in Under(sh, k), sh[q].up = p
      PROVE  q = k
    BY <1>1, <1>4, UnderIsLater
<1>5. ASSUME NEW k \in Kin(sh, p), NEW l \in Kin(sh, p), k # l
      PROVE  Under(sh, k) \cap Under(sh, l) = {}
  <2> SUFFICES ASSUME NEW q \in Under(sh, k), q \in Under(sh, l) PROVE FALSE
    OBVIOUS
  <2>1. k \in Under(sh, l) \/ l \in Under(sh, k)
    BY <1>1, AboveIsAChain
  <2> QED BY <1>4, <1>5, <2>1 DEF Kin
<1> QED BY <1>1, <1>2, <1>3, <1>4, <1>5

-----------------------------------------------------------------------------
(* What a row stands for.                                                  *)

\* The processes beneath one that are not passed over.
Beneath(sh, p) == {q \in Under(sh, p) \ {p} : sh[q].role # "transparent"}

\* All that is beneath is one call after the other, and none is numbered.
Alone(sh, p) ==
    /\ p # Root /\ sh[p].role # "numbered"
    /\ \A d \in Beneath(sh, p) : sh[d].role # "numbered"
    /\ \A d, e \in Beneath(sh, p) : d < e => e \in Under(sh, d)

\* A row stands for its process, and for all beneath it if that is one chain.
Group(sh, p) == IF Alone(sh, p) THEN {p} \cup Beneath(sh, p) ELSE {p}

\* Who has a row: who is not passed over nor in the group of another.
Stay(sh) ==
    {q \in DOMAIN sh : /\ sh[q].role # "transparent"
                       /\ \A a \in DOMAIN sh \ {q} :
                             sh[a].role # "transparent" => q \notin Group(sh, a)}

-----------------------------------------------------------------------------
(* Trees that grow.                                                        *)

\* Who has a row keeps it when more is read.
LEMMA StayGrows ==
    ASSUME NEW sh, IsTree(sh), NEW more, IsTree(more), DOMAIN sh \subseteq DOMAIN more,
           \A q \in DOMAIN sh : more[q] = sh[q]
    PROVE  Stay(sh) \subseteq Stay(more)
<1>1. ASSUME NEW p \in DOMAIN sh
      PROVE  \A q \in DOMAIN sh : q \in Under(more, p) <=> q \in Under(sh, p)
  <2>1. Under(sh, p) \subseteq Under(more, p)
    <3>1. p \in Under(more, p)
      BY UnderIsClosed
    <3>2. \A k \in DOMAIN sh : k \in Under(sh, p) /\ sh[k].up \in Under(more, p)
                               => k \in Under(more, p)
      BY UnderIsClosed
    <3> QED BY <3>1, <3>2, UnderIsLeast
  <2>2. Under(more, p) \subseteq {q \in DOMAIN more : q \in DOMAIN sh => q \in Under(sh, p)}
    <3> DEFINE T == {q \in DOMAIN more : q \in DOMAIN sh => q \in Under(sh, p)}
    <3>1. p \in T
      BY UnderIsClosed
    <3>2. ASSUME NEW k \in DOMAIN more, k \in Under(more, p), more[k].up \in T
          PROVE  k \in T
      <4> SUFFICES ASSUME k \in DOMAIN sh PROVE k \in Under(sh, p)
        OBVIOUS
      <4>1. CASE k = Root
        BY <3>2, <4>1 DEF IsTree
      <4>2. CASE k # Root
        <5>1. sh[k].up \in DOMAIN sh /\ sh[k].up = more[k].up
          BY <4>2 DEF IsTree
        <5> QED BY <3>2, <5>1, UnderIsClosed
      <4> QED BY <4>1, <4>2
    <3> HIDE DEF T
    <3>3. Under(more, p) \subseteq T
      BY <3>1, <3>2, UnderIsLeast
    <3> QED BY <3>3 DEF T
  <2> QED BY <2>1, <2>2
<1>2. ASSUME NEW a \in DOMAIN more, NEW q \in Under(more, a), q \in DOMAIN sh
      PROVE  a \in DOMAIN sh
  <2> DEFINE T == {r \in DOMAIN more : r \in DOMAIN sh => a \in DOMAIN sh}
  <2>1. a \in T
    OBVIOUS
  <2>2. ASSUME NEW k \in DOMAIN more, k \in Under(more, a), more[k].up \in T
        PROVE  k \in T
    <3> SUFFICES ASSUME k \in DOMAIN sh PROVE a \in DOMAIN sh
      OBVIOUS
    <3>1. CASE k = Root
      <4>1. a <= Root /\ a \in Nat \ {0}
        BY <2>2, <3>1, UnderIsLater DEF IsTree
      <4>2. a = Root
        BY <4>1 DEF Root
      <4> QED BY <4>2 DEF IsTree
    <3>2. CASE k # Root
      <4>1. sh[k].up \in DOMAIN sh /\ sh[k].up = more[k].up
        BY <3>2 DEF IsTree
      <4> QED BY <2>2, <4>1
    <3> QED BY <3>1, <3>2
  <2> HIDE DEF T
  <2>3. Under(more, a) \subseteq T
    BY <2>1, <2>2, UnderIsLeast
  <2> QED BY <1>2, <2>3 DEF T
<1> SUFFICES ASSUME NEW q \in Stay(sh), NEW a \in DOMAIN more \ {q},
                    more[a].role # "transparent", q \in Group(more, a)
             PROVE  FALSE
  BY DEF Stay
<1>3. q \in DOMAIN sh /\ Alone(more, a) /\ q \in Beneath(more, a)
  BY DEF Group, Stay
<1>4. a \in DOMAIN sh
  BY <1>2, <1>3 DEF Beneath
<1>5. Beneath(sh, a) \subseteq Beneath(more, a) /\ q \in Beneath(sh, a)
  BY <1>1, <1>3, <1>4, UnderIsClosed DEF Beneath
<1>6. Alone(sh, a)
  <2>1. \A d \in Beneath(sh, a) : d \in DOMAIN sh /\ sh[d] = more[d]
    BY <1>4, UnderIsClosed DEF Beneath
  <2>2. sh[a] = more[a]
    BY <1>4
  <2> QED BY <1>1, <1>3, <1>5, <2>1, <2>2 DEF Alone
<1>7. q \in Group(sh, a) /\ sh[a].role # "transparent"
  BY <1>4, <1>5, <1>6 DEF Group
<1> QED BY <1>4, <1>7 DEF Stay

-----------------------------------------------------------------------------
(* Lists put one behind the other.                                         *)

\* The place x of the whole is the place at[x] of the list from[x].
Joins(seqs, n, flat, from, at) ==
    /\ \A x \in DOMAIN flat : /\ from[x] \in 1 .. n /\ at[x] \in 1 .. Len(seqs[from[x]])
                              /\ flat[x] = seqs[from[x]][at[x]]
    /\ \A x, y \in DOMAIN flat :
          x < y => from[x] < from[y] \/ (from[x] = from[y] /\ at[x] < at[y])
    /\ \A i \in 1 .. n : \A j \in 1 .. Len(seqs[i]) :
          \E x \in DOMAIN flat : from[x] = i /\ at[x] = j

\* One more list behind the others.
LEMMA JoinsOneMore ==
    ASSUME NEW S, NEW n \in Nat, NEW seqs, NEW flat \in Seq(S), NEW next \in Seq(S),
           next = seqs[n + 1], NEW from, NEW at, Joins(seqs, n, flat, from, at)
    PROVE  \E f, a : Joins(seqs, n + 1, flat \o next, f, a)
<1> DEFINE l == Len(flat)
           m == Len(next)
           f == [x \in 1 .. l + m |-> IF x <= l THEN from[x] ELSE n + 1]
           a == [x \in 1 .. l + m |-> IF x <= l THEN at[x] ELSE x - l]
<1>1. l \in Nat /\ m \in Nat /\ DOMAIN flat = 1 .. l
  BY LenProperties
<1>2. PICK both : both = flat \o next
  OBVIOUS
<1>3. /\ DOMAIN both = 1 .. l + m
      /\ \A x \in 1 .. l + m : both[x] = IF x <= l THEN flat[x] ELSE next[x - l]
  <2>1. both \in Seq(S) /\ Len(both) = l + m
    BY <1>2, ConcatProperties
  <2>2. \A x \in 1 .. l + m : both[x] = IF x <= l THEN flat[x] ELSE next[x - l]
    BY <1>2, ConcatProperties
  <2> QED BY <2>1, <2>2, LenProperties
<1>4. \A x \in 1 .. l : x \in 1 .. l + m /\ f[x] = from[x] /\ a[x] = at[x] /\ f[x] \in 1 .. n
  BY <1>1 DEF Joins
<1>5. \A x \in l + 1 .. l + m : x \in 1 .. l + m /\ f[x] = n + 1 /\ a[x] = x - l /\ a[x] \in 1 .. m
  BY <1>1
<1>6. \A x \in 1 .. l + m : x \in 1 .. l \/ x \in l + 1 .. l + m
  BY <1>1
<1> HIDE DEF f, a, m
<1>7. ASSUME NEW x \in 1 .. l + m
      PROVE  /\ f[x] \in 1 .. n + 1 /\ a[x] \in 1 .. Len(seqs[f[x]])
             /\ both[x] = seqs[f[x]][a[x]]
  <2>1. CASE x \in 1 .. l
    <3>1. f[x] \in 1 .. n /\ a[x] \in 1 .. Len(seqs[f[x]]) /\ flat[x] = seqs[f[x]][a[x]]
      BY <1>1, <1>4, <2>1 DEF Joins
    <3>2. both[x] = flat[x]
      BY <1>1, <1>3, <2>1
    <3> QED BY <3>1, <3>2
  <2>2. CASE x \in l + 1 .. l + m
    <3>1. f[x] = n + 1 /\ a[x] = x - l /\ a[x] \in 1 .. m
      BY <1>5, <2>2
    <3>2. both[x] = next[x - l]
      BY <1>1, <1>3, <2>2
    <3>3. seqs[f[x]] = next /\ f[x] \in 1 .. n + 1
      BY <3>1
    <3> QED BY <3>1, <3>2, <3>3 DEF m
  <2> QED BY <1>6, <2>1, <2>2
<1>8. ASSUME NEW x \in 1 .. l + m, NEW y \in 1 .. l + m, x < y
      PROVE  f[x] < f[y] \/ (f[x] = f[y] /\ a[x] < a[y])
  <2>1. CASE y \in 1 .. l
    <3>1. x \in 1 .. l
      BY <1>1, <1>8, <2>1
    <3> QED BY <1>1, <1>4, <1>8, <2>1, <3>1 DEF Joins
  <2>2. CASE y \in l + 1 .. l + m
    <3>1. CASE x \in 1 .. l
      BY <1>4, <1>5, <2>2, <3>1
    <3>2. CASE x \in l + 1 .. l + m
      BY <1>1, <1>5, <1>8, <2>2, <3>2
    <3> QED BY <1>6, <3>1, <3>2
  <2> QED BY <1>6, <2>1, <2>2
<1>9. ASSUME NEW i \in 1 .. n + 1, NEW j \in 1 .. Len(seqs[i])
      PROVE  \E x \in 1 .. l + m : f[x] = i /\ a[x] = j
  <2>1. CASE i \in 1 .. n
    <3>1. \A h \in 1 .. n : \A k \in 1 .. Len(seqs[h]) :
             \E x \in DOMAIN flat : from[x] = h /\ at[x] = k
      BY Zenon DEF Joins
    <3>2. PICK x \in DOMAIN flat : from[x] = i /\ at[x] = j
      BY <2>1, <3>1
    <3> QED BY <1>1, <1>4, <3>2
  <2>2. CASE i = n + 1
    <3>1. j \in 1 .. m
      BY <2>2 DEF m
    <3>2. l + j \in l + 1 .. l + m /\ (l + j) - l = j
      BY <1>1, <3>1
    <3> QED BY <1>5, <2>2, <3>2
  <2> QED BY <2>1, <2>2
<1>10. Joins(seqs, n + 1, both, f, a)
  <2>1. \A x \in DOMAIN both : /\ f[x] \in 1 .. n + 1 /\ a[x] \in 1 .. Len(seqs[f[x]])
                              /\ both[x] = seqs[f[x]][a[x]]
    BY <1>3, <1>7
  <2>2. \A x, y \in DOMAIN both : x < y => f[x] < f[y] \/ (f[x] = f[y] /\ a[x] < a[y])
    BY <1>3, <1>8
  <2>3. \A i \in 1 .. n + 1 : \A j \in 1 .. Len(seqs[i]) :
           \E x \in DOMAIN both : f[x] = i /\ a[x] = j
    <3> SUFFICES ASSUME NEW i \in 1 .. n + 1, NEW j \in 1 .. Len(seqs[i])
                 PROVE  \E x \in DOMAIN both : f[x] = i /\ a[x] = j
      OBVIOUS
    <3>1. PICK x \in 1 .. l + m : f[x] = i /\ a[x] = j
      BY <1>9
    <3>2. x \in DOMAIN both
      BY <1>3
    <3> QED BY <3>1, <3>2
  <2> QED BY <2>1, <2>2, <2>3, Zenon DEF Joins
<1> QED BY <1>2, <1>10

\* FlattenSeq puts every entry of every list in one place, lists in turn.
LEMMA FlattenJoins ==
    ASSUME NEW S, NEW n \in Nat, NEW seqs \in [1 .. n -> Seq(S)]
    PROVE  /\ FlattenSeq(seqs) \in Seq(S)
           /\ \E from, at : Joins(seqs, n, FlattenSeq(seqs), from, at)
<1>0. seqs \in Seq(Seq(S)) /\ Len(seqs) = n
  OBVIOUS
<1>1. CASE n = 0
  <2>1. FlattenSeq(seqs) = seqs
    BY <1>0, <1>1 DEF FlattenSeq
  <2>2. seqs \in [1 .. 0 -> S] /\ DOMAIN seqs = {}
    BY <1>1
  <2>3. seqs \in Seq(S)
    BY <2>2
  <2>4. Joins(seqs, n, seqs, seqs, seqs)
    BY <1>1, <2>2 DEF Joins
  <2> QED BY <2>1, <2>3, <2>4
<1>2. CASE n # 0
  <2> DEFINE body(f, i) == IF i = 1 THEN seqs[i] ELSE f[i - 1] \o seqs[i]
             UpTo(f, k) == \A i \in 1 .. n : i <= k => f[i] = body(f, i)
             K == {k \in 0 .. n : \E f \in [1 .. n -> Seq(S)] : UpTo(f, k)}
  <2>1. 0 \in K
    <3>1. UpTo(seqs, 0)
      OBVIOUS
    <3> QED BY <3>1
  <2>2. ASSUME NEW k \in 0 .. n - 1, k \in K
        PROVE  k + 1 \in K
    <3>1. PICK f \in [1 .. n -> Seq(S)] : UpTo(f, k)
      BY <2>2
    <3> DEFINE j == k + 1
               g == [f EXCEPT ![j] = body(f, j)]
    <3>2. j \in 1 .. n /\ j \in Nat /\ (j # 1 => j - 1 \in 1 .. n)
      OBVIOUS
    <3>3. body(f, j) \in Seq(S)
      <4>1. CASE j = 1
        BY <3>2, <4>1
      <4>2. CASE j # 1
        <5>1. f[j - 1] \in Seq(S) /\ seqs[j] \in Seq(S)
          BY <3>2, <4>2
        <5> HIDE DEF j
        <5>2. f[j - 1] \o seqs[j] \in Seq(S)
          BY <5>1, ConcatProperties
        <5> QED BY <4>2, <5>2
      <4> QED BY <4>1, <4>2
    <3>4. g \in [1 .. n -> Seq(S)]
      <4> HIDE DEF body, j
      <4> QED BY <3>2, <3>3
    <3>5. ASSUME NEW i \in 1 .. n, i <= j
          PROVE  g[i] = body(g, i)
      <4>1. i # 1 => g[i - 1] = f[i - 1]
        <5>1. i # 1 => i - 1 \in 1 .. n /\ i - 1 # j
          BY <3>2, <3>5
        <5> HIDE DEF body, j
        <5> QED BY <5>1
      <4>2. body(g, i) = body(f, i)
        BY <4>1
      <4>3. CASE i = j
        <5>1. g[j] = body(f, j)
          <6> HIDE DEF body, j
          <6> QED BY <3>2
        <5> QED BY <4>2, <4>3, <5>1
      <4>4. CASE i # j
        <5>1. i <= k
          BY <3>5, <4>4
        <5>2. f[i] = body(f, i)
          BY <3>1, <5>1
        <5>3. g[i] = f[i]
          <6> HIDE DEF body, j
          <6> QED BY <4>4
        <5> QED BY <4>2, <5>2, <5>3
      <4> QED BY <4>3, <4>4
    <3>6. UpTo(g, j)
      BY <3>5
    <3> HIDE DEF g, UpTo
    <3> QED BY <3>2, <3>4, <3>6
  <2>3. n \in K
    <3> HIDE DEF K
    <3>1. \A k \in 0 .. n : k \in K
      BY <2>1, <2>2, Counting
    <3> QED BY <3>1
  <2>4. PICK f \in [1 .. n -> Seq(S)] : UpTo(f, n)
    BY <2>3
  <2>5. f = [i \in 1 .. n |-> body(f, i)]
    BY <2>4
  <2>6. \E h : h = [i \in 1 .. n |-> body(h, i)]
    BY <2>5
  <2> DEFINE h == CHOOSE h : h = [i \in 1 .. n |-> body(h, i)]
  <2>7. h = [i \in 1 .. n |-> body(h, i)]
    BY <2>6
  <2>8. FlattenSeq(seqs) = h[n]
    BY <1>0, <1>2 DEF FlattenSeq
  <2>9. PICK flatten : flatten = h
    OBVIOUS
  <2>10. \A i \in 1 .. n : flatten[i] = body(flatten, i)
    <3> HIDE DEF h
    <3>1. flatten = [i \in 1 .. n |-> body(flatten, i)]
      BY <2>7, <2>9
    <3> QED BY <3>1
  <2> HIDE DEF h, UpTo, K
  <2> DEFINE M == {k \in 0 .. n : k = 0 \/ (flatten[k] \in Seq(S) /\
                                           \E from, at : Joins(seqs, k, flatten[k], from, at))}
  <2>11. 0 \in M
    OBVIOUS
  <2>12. ASSUME NEW k \in 0 .. n - 1, k \in M
         PROVE  k + 1 \in M
    <3>1. k + 1 \in 1 .. n /\ k \in Nat
      OBVIOUS
    <3>2. CASE k = 0
      <4>1. flatten[1] = seqs[1] /\ seqs[1] \in Seq(S)
        BY <2>10, <3>1, <3>2
      <4> DEFINE from == [x \in 1 .. Len(seqs[1]) |-> 1]
                 at == [x \in 1 .. Len(seqs[1]) |-> x]
      <4>2. DOMAIN seqs[1] = 1 .. Len(seqs[1]) /\ Len(seqs[1]) \in Nat
        BY <4>1, LenProperties
      <4>3. /\ \A x \in DOMAIN seqs[1] : from[x] = 1 /\ at[x] = x
            /\ \A x \in DOMAIN seqs[1] : x \in 1 .. Len(seqs[1])
            /\ \A i \in 1 .. 1 : i = 1
        BY <4>2
      <4> HIDE DEF from, at
      <4>4. Joins(seqs, 1, seqs[1], from, at)
        <5>1. \A x \in DOMAIN seqs[1] :
                 /\ from[x] \in 1 .. 1 /\ at[x] \in 1 .. Len(seqs[from[x]])
                 /\ seqs[1][x] = seqs[from[x]][at[x]]
          BY <4>2, <4>3
        <5>2. \A x, y \in DOMAIN seqs[1] :
                 x < y => from[x] < from[y] \/ (from[x] = from[y] /\ at[x] < at[y])
          BY <4>2, <4>3
        <5>3. \A i \in 1 .. 1 : \A j \in 1 .. Len(seqs[i]) :
                 \E x \in DOMAIN seqs[1] : from[x] = i /\ at[x] = j
          BY <4>2, <4>3
        <5> QED BY <5>1, <5>2, <5>3, Zenon DEF Joins
      <4> QED BY <3>1, <3>2, <4>1, <4>4
    <3>3. CASE k # 0
      <4>1. PICK from, at : Joins(seqs, k, flatten[k], from, at)
        BY <2>12, <3>3
      <4>2. flatten[k + 1] = flatten[k] \o seqs[k + 1]
        <5>1. (k + 1) - 1 = k /\ k + 1 # 1
          BY <3>1, <3>3
        <5>2. flatten[k + 1] = body(flatten, k + 1)
          BY <2>10, <3>1
        <5> QED BY <5>1, <5>2
      <4>3. flatten[k] \in Seq(S) /\ seqs[k + 1] \in Seq(S)
        BY <2>12, <3>1, <3>3
      <4>4. \E fr, a : Joins(seqs, k + 1, flatten[k] \o seqs[k + 1], fr, a)
        BY <3>1, <4>1, <4>3, JoinsOneMore
      <4>5. flatten[k] \o seqs[k + 1] \in Seq(S)
        BY <4>3, ConcatProperties
      <4>6. /\ flatten[k + 1] \in Seq(S)
            /\ \E fr, a : Joins(seqs, k + 1, flatten[k + 1], fr, a)
        BY <4>2, <4>4, <4>5, Zenon
      <4> QED BY <3>1, <4>6
    <3> QED BY <3>2, <3>3
  <2>13. n \in M
    <3> HIDE DEF M
    <3>1. \A k \in 0 .. n : k \in M
      BY <2>11, <2>12, Counting
    <3> QED BY <3>1
  <2> QED BY <1>2, <2>8, <2>9, <2>13
<1> QED BY <1>1, <1>2

-----------------------------------------------------------------------------
(* The process tree, and the order in which the processes that one called  *)
(* are shown.                                                              *)

\* Calculation functions have no row: these are left of some children.
Shown(kids) == {k \in kids : process[k].role # "function"}

\* A process is called by an earlier one that is neither a calculation nor a
\* function, and is not over before those it has called are.
ProcessTree ==
    /\ process \in Seq(Process) /\ Root \in DOMAIN process
    /\ process[Root].parent = 0 /\ process[Root].role = "plain"
    /\ \A p \in DOMAIN process \ {Root} :
          /\ process[p].parent \in DOMAIN process /\ process[p].parent < p
          /\ process[process[p].parent].role \notin {"leaf", "function"}
          /\ process[process[p].parent].state \in Terminal => process[p].state \in Terminal

\* Processes are numbered from the root on, in the order they were created.
LEMMA ProcessesAreNumbers ==
    ASSUME ProcessTree
    PROVE  /\ Len(process) \in Nat /\ DOMAIN process = 1 .. Len(process)
           /\ \A p \in DOMAIN process : p \in Nat \ {0} /\ process[p] \in Process
           /\ \A ps \in SUBSET DOMAIN process : IsFiniteSet(ps) /\ Cardinality(ps) \in Nat
<1>1. process \in Seq(Process)
    BY DEF ProcessTree
<1>2. Len(process) \in Nat /\ DOMAIN process = 1 .. Len(process)
    BY <1>1, LenProperties
<1>3. \A p \in 1 .. Len(process) : process[p] \in Process
    BY <1>1, ElementOfSeq
<1>4. IsFiniteSet(DOMAIN process)
    BY <1>2, FS_Interval
<1>5. \A ps \in SUBSET DOMAIN process : IsFiniteSet(ps) /\ Cardinality(ps) \in Nat
    BY <1>4, FS_Subset, FS_CardinalityType
<1> QED BY <1>2, <1>3, <1>5

\* The order in which some processes are shown: each once, and one before an
\* earlier one only within a fan-out.
ReadsAsRun(s, ps) ==
    LET n == Cardinality(ps)
    IN /\ s \in [1 .. n -> ps]
       /\ \A k \in ps : \E i \in 1 .. n : s[i] = k
       /\ \A i, j \in 1 .. n : i < j =>
             /\ s[i] # s[j]
             /\ s[j] < s[i] =>
                   /\ process[s[i]].label.index < process[s[j]].label.index
                   /\ \A k \in ps : s[j] <= k /\ k <= s[i] =>
                         process[k].label.family = process[s[i]].label.family

\* The children by pk (entries.sort in _ordered_children).
LEMMA ListedByCreation ==
    ASSUME NEW ps, IsFiniteSet(ps), ps \subseteq Nat
    PROVE  LET n == Cardinality(ps)
           IN /\ n \in Nat /\ ByCreation(ps) \in [1 .. n -> ps]
              /\ \A i, j \in 1 .. n : i < j => ByCreation(ps)[i] < ByCreation(ps)[j]
              /\ \A k \in ps : \E i \in 1 .. n : ByCreation(ps)[i] = k
<1> DEFINE n == Cardinality(ps)
           num == [k \in ps |-> k]
<1>1. n \in Nat
    BY FS_CardinalityType
<1>2. \E s \in [1 .. n -> ps] : \A i, j \in 1 .. n : i < j => num[s[i]] < num[s[j]]
  <2>1. num \in [ps -> Int] /\ \A x, y \in ps : x # y => num[x] # num[y]
    OBVIOUS
  <2> HIDE DEF num
  <2> QED BY <2>1, ListedByNumber
<1>3. \E s \in [1 .. n -> ps] : \A i, j \in DOMAIN s : i < j => s[i] < s[j]
  <2>1. PICK s \in [1 .. n -> ps] : \A i, j \in 1 .. n : i < j => num[s[i]] < num[s[j]]
    BY <1>2
  <2>2. \A i \in 1 .. n : s[i] \in ps
    OBVIOUS
  <2>3. \A i, j \in DOMAIN s : i < j => s[i] < s[j]
    BY <2>1, <2>2
  <2> QED BY <2>3
<1>4. PICK s : s = ByCreation(ps)
    OBVIOUS
<1>5. s \in [1 .. n -> ps] /\ \A i, j \in DOMAIN s : i < j => s[i] < s[j]
    BY <1>3, <1>4 DEF ByCreation
<1>6. \A i, j \in 1 .. n : i < j => s[i] < s[j]
  <2>1. DOMAIN s = 1 .. n
    BY <1>5
  <2> QED BY <1>5, <2>1, Zenon
<1>7. \A k \in ps : \E i \in 1 .. n : s[i] = k
  <2>1. \A i, j \in 1 .. n : i < j => s[i] # s[j]
    <3>1. \A i \in 1 .. n : s[i] \in Nat
      BY <1>5
    <3> HIDE DEF n
    <3> QED BY <1>6, <3>1
  <2> HIDE DEF n
  <2> QED BY <1>5, <2>1, ListsAreComplete DEF n
<1> QED BY <1>1, <1>4, <1>5, <1>6, <1>7

\* _ordered_children gives an order in which labels with an index are in turn.
LEMMA ChildrenInOrder ==
    ASSUME ProcessTree, NEW kids \in SUBSET DOMAIN process
    PROVE  ReadsAsRun(OrderedChildren(kids), Shown(kids))
<1> DEFINE ps == Shown(kids)
           n == Cardinality(ps)
<1>1. /\ ps \in SUBSET DOMAIN process /\ ps \subseteq Nat /\ IsFiniteSet(ps) /\ n \in Nat
      /\ \A k \in ps : process[k].label.index \in Nat
  <2>1. ps \in SUBSET DOMAIN process
    BY DEF Shown
  <2>2. \A k \in ps : process[k].label \in Labels
    BY <2>1, ProcessesAreNumbers DEF Process
  <2> HIDE DEF ps
  <2> QED BY <2>1, <2>2, ProcessesAreNumbers, TableAssumption
<1> PICK c : c = ByCreation(ps)
    OBVIOUS
<1>2. /\ c \in [1 .. n -> ps]
      /\ \A i, j \in 1 .. n : i < j => c[i] < c[j]
      /\ \A k \in ps : \E i \in 1 .. n : c[i] = k
  <2> HIDE DEF ps
  <2> QED BY <1>1, ListedByCreation
<1> DEFINE labels == [i \in DOMAIN c |-> process[c[i]].label]
<1>3. DOMAIN labels = 1 .. n /\ \A i \in 1 .. n : labels[i] = process[c[i]].label
  <2> HIDE DEF ps
  <2> QED BY <1>2
<1> PICK order : order = DisplayOrder(labels)
    OBVIOUS
<1>4. /\ order \in [1 .. n -> 1 .. n]
      /\ \A i, j \in 1 .. n : i < j =>
            /\ order[i] # order[j]
            /\ order[j] < order[i] =>
                  /\ labels[order[i]].index < labels[order[j]].index
                  /\ \A k \in order[j] .. order[i] :
                        labels[k].family = labels[order[i]].family
  <2>1. \A i \in 1 .. n : labels[i].index \in Int
    <3> HIDE DEF ps, labels
    <3>1. \A i \in 1 .. n : c[i] \in ps
      BY <1>2
    <3> QED BY <1>1, <1>3, <3>1
  <2> HIDE DEF ps, labels, n
  <2> DEFINE Reads(o) ==
        /\ o \in [1 .. n -> 1 .. n]
        /\ \A i, j \in 1 .. n : i < j =>
              /\ o[i] # o[j]
              /\ o[j] < o[i] =>
                    /\ labels[o[i]].index < labels[o[j]].index
                    /\ \A k \in o[j] .. o[i] : labels[k].family = labels[o[i]].family
              /\ o[j] < o[i] => Together(labels, labels[o[i]].family)
              /\ labels[o[i]].family = labels[o[j]].family
                 /\ Together(labels, labels[o[i]].family)
                 => labels[o[i]].index <= labels[o[j]].index
  <2>2. Reads(DisplayOrder(labels))
    BY <1>1, <1>3, <2>1, ReadingOrder
  <2>3. Reads(order)
    BY <2>2
  <2> QED BY <2>3
<1>5. OrderedChildren(kids) = [i \in 1 .. n |-> c[order[i]]]
  <2>1. DOMAIN c = 1 .. n
    <3> HIDE DEF ps
    <3> QED BY <1>2
  <2> HIDE DEF n
  <2>2. OrderedChildren(kids) = [i \in DOMAIN c |-> c[order[i]]]
    BY Zenon DEF OrderedChildren, Shown
  <2> QED BY <2>1, <2>2, Zenon
<1> PICK s : s = OrderedChildren(kids)
    OBVIOUS
<1> HIDE DEF ps, n, labels
<1>6. \A i \in 1 .. n : s[i] = c[order[i]] /\ order[i] \in 1 .. n /\ s[i] \in ps
  BY <1>2, <1>4, <1>5
<1>7. s \in [1 .. n -> ps]
  <2>1. s = [i \in 1 .. n |-> s[i]]
    BY <1>5
  <2> QED BY <1>6, <2>1
<1>8. \A i, j \in 1 .. n : c[i] < c[j] <=> i < j
  <2> SUFFICES ASSUME NEW i \in 1 .. n, NEW j \in 1 .. n PROVE c[i] < c[j] <=> i < j
    OBVIOUS
  <2>1. c[i] \in Nat /\ c[j] \in Nat
    BY <1>1, <1>2
  <2>2. (i < j => c[i] < c[j]) /\ (j < i => c[j] < c[i]) /\ (i = j => c[i] = c[j])
    BY <1>2
  <2> QED BY <1>1, <2>1, <2>2
<1>9. ASSUME NEW i \in 1 .. n, NEW j \in 1 .. n, i < j
      PROVE  /\ s[i] # s[j]
             /\ s[j] < s[i] =>
                   /\ process[s[i]].label.index < process[s[j]].label.index
                   /\ \A k \in ps : s[j] <= k /\ k <= s[i] =>
                         process[k].label.family = process[s[i]].label.family
  <2>1. order[i] # order[j] /\ order[i] \in 1 .. n /\ order[j] \in 1 .. n
    BY <1>4, <1>6, <1>9
  <2>2. c[order[i]] # c[order[j]]
    <3>1. order[i] < order[j] \/ order[j] < order[i]
      BY <1>1, <2>1
    <3>2. c[order[i]] < c[order[j]] \/ c[order[j]] < c[order[i]]
      BY <1>8, <2>1, <3>1
    <3>3. c[order[i]] \in Nat /\ c[order[j]] \in Nat
      BY <1>1, <1>2, <2>1
    <3> QED BY <3>2, <3>3
  <2>3. ASSUME s[j] < s[i]
        PROVE  /\ process[s[i]].label.index < process[s[j]].label.index
               /\ \A k \in ps : s[j] <= k /\ k <= s[i] =>
                     process[k].label.family = process[s[i]].label.family
    <3>1. order[j] < order[i]
      BY <1>6, <1>8, <2>1, <2>3
    <3>2. /\ labels[order[i]].index < labels[order[j]].index
          /\ \A k \in order[j] .. order[i] : labels[k].family = labels[order[i]].family
      BY <1>4, <1>9, <3>1
    <3>3. ASSUME NEW k \in ps, s[j] <= k, k <= s[i]
          PROVE  process[k].label.family = process[s[i]].label.family
      <4>1. PICK m \in 1 .. n : c[m] = k
        BY <1>2
      <4>2. ~(c[m] < c[order[j]]) /\ ~(c[order[i]] < c[m])
        <5>1. c[m] \in Nat /\ c[order[i]] \in Nat /\ c[order[j]] \in Nat
          BY <1>1, <1>2, <2>1
        <5> QED BY <1>6, <3>3, <4>1, <5>1
      <4>3. ~(m < order[j]) /\ ~(order[i] < m)
        BY <1>8, <2>1, <4>2
      <4>4. m \in order[j] .. order[i]
        BY <1>1, <2>1, <4>3
      <4> QED BY <1>3, <1>6, <2>1, <3>2, <4>1, <4>4
    <3> QED BY <1>3, <1>6, <2>1, <3>2, <3>3
  <2> QED BY <1>6, <2>2, <2>3
<1>10. \A k \in ps : \E i \in 1 .. n : s[i] = k
  BY <1>1, <1>7, <1>9, ListsAreComplete DEF n
<1>11. ReadsAsRun(s, ps)
  BY <1>7, <1>9, <1>10 DEF ReadsAsRun, n
<1> QED BY <1>11 DEF ps

-----------------------------------------------------------------------------
(* The tree as it was read, and the rows made of each process in it.       *)

\* States of a process that has not ended.
Alive == {"created", "waiting", "queued", "running", "paused"}
\* States of a process.
States == Alive \cup Terminal

\* What a finished walk has read: a part of the tree that holds with each process
\* its caller, where nobody was over before those it had called were.
ReadTree(read) ==
    /\ DOMAIN read \subseteq DOMAIN process /\ Root \in DOMAIN read
    /\ \A p \in DOMAIN read :
          /\ read[p].kids = {k \in DOMAIN read : process[k].parent = p}
          /\ read[p].state \in States
          /\ process[p].role # "function"
          /\ p # Root => process[p].parent \in DOMAIN read
          /\ p # Root /\ read[process[p].parent].state \in Terminal => read[p].state \in Terminal

\* What was read in one walk is a tree whose children are those noted.
LEMMA ShapeOfReadTree ==
    ASSUME ProcessTree, NEW read, ReadTree(read)
    PROVE  /\ IsTree(Shape(DOMAIN read)) /\ DOMAIN Shape(DOMAIN read) = DOMAIN read
           /\ \A p \in DOMAIN read :
                 /\ Shape(DOMAIN read)[p].up = process[p].parent
                 /\ Shape(DOMAIN read)[p].role = process[p].role
                 /\ Kin(Shape(DOMAIN read), p) = read[p].kids /\ Shown(read[p].kids) = read[p].kids
                 /\ read[p].kids \in SUBSET DOMAIN process
<1> PICK sh : sh = Shape(DOMAIN read)
    OBVIOUS
<1>1. /\ DOMAIN sh = DOMAIN read
      /\ \A p \in DOMAIN read : sh[p].up = process[p].parent /\ sh[p].role = process[p].role
    BY DEF Shape
<1>2. IsTree(sh)
  <2>1. DOMAIN sh \subseteq Nat \ {0} /\ Root \in DOMAIN sh
    BY <1>1, ProcessesAreNumbers DEF ReadTree
  <2>2. sh[Root].up = 0
    BY <1>1 DEF ReadTree, ProcessTree
  <2>3. \A p \in DOMAIN sh \ {Root} : sh[p].up \in DOMAIN sh /\ sh[p].up < p
    BY <1>1 DEF ReadTree, ProcessTree
  <2> QED BY <2>1, <2>2, <2>3 DEF IsTree
<1>3. ASSUME NEW p \in DOMAIN read
      PROVE  /\ Kin(sh, p) = read[p].kids /\ Shown(read[p].kids) = read[p].kids
             /\ read[p].kids \in SUBSET DOMAIN process
  <2>1. read[p].kids = {k \in DOMAIN read : process[k].parent = p}
    BY DEF ReadTree
  <2>2. Kin(sh, p) = read[p].kids
    BY <1>1, <2>1 DEF Kin
  <2>3. Shown(read[p].kids) = read[p].kids
    BY <2>1 DEF Shown, ReadTree
  <2>4. read[p].kids \in SUBSET DOMAIN process
    BY <2>1 DEF ReadTree
  <2> QED BY <2>2, <2>3, <2>4
<1> QED BY <1>1, <1>2, <1>3

\* The rows beneath a process, and the states lent to it, from what was made of
\* those it called.
Below(c, kids) == FlattenSeq([i \in DOMAIN kids |-> c[kids[i]].rows])
\* The states that children of p lend it.
Borrowed(c, kids) == UNION {c[kids[i]].lent : i \in DOMAIN kids}

\* The rows of p and below it, from those of its children: one step of CollectRows.
Collected(c, read, p) ==
    LET kids == OrderedChildren(read[p].kids) IN
    IF process[p].role = "transparent"
    THEN [rows |-> Below(c, kids),
          lent |-> {MostAdvanced({Promoted(read[p].state)} \cup Borrowed(c, kids))}]
    ELSE [rows |-> RowOf(p, read[p].state, NumberSiblings(Below(c, kids)), Borrowed(c, kids)),
          lent |-> {}]

\* CollectRows is a recursion that ends, as a process calls only later ones.
LEMMA CollectUnfolds ==
    ASSUME ProcessTree, NEW read, ReadTree(read)
    PROVE  \E c : /\ c = [p \in DOMAIN read |-> Collected(c, read, p)]
                  /\ CollectRows(read) = c[Root].rows
<1> DEFINE D == DOMAIN read
           n == Len(process)
           From(c, k) == \A p \in D : p >= k => c[p] = Collected(c, read, p)
<1>1. n \in Nat /\ D \subseteq 1 .. n
    BY ProcessesAreNumbers DEF ReadTree
<1>2. ASSUME NEW p \in D
      PROVE  \A i \in DOMAIN OrderedChildren(read[p].kids) :
                OrderedChildren(read[p].kids)[i] \in D /\ p < OrderedChildren(read[p].kids)[i]
  <2> PICK kids : kids = OrderedChildren(read[p].kids)
    OBVIOUS
  <2>1. ReadsAsRun(kids, read[p].kids)
    BY ShapeOfReadTree, ChildrenInOrder
  <2>2. \A i \in DOMAIN kids : kids[i] \in read[p].kids
    BY <2>1 DEF ReadsAsRun
  <2>3. \A k \in read[p].kids : k \in D /\ p < k
    <3>1. p \in Nat \ {0}
      BY <1>1
    <3>2. \A k \in read[p].kids : k \in D /\ process[k].parent = p
      BY DEF ReadTree
    <3> QED BY <3>1, <3>2 DEF ReadTree, ProcessTree
  <2> QED BY <2>2, <2>3
<1>3. ASSUME NEW c, NEW d, NEW p \in D, \A q \in D : p < q => c[q] = d[q]
      PROVE  Collected(c, read, p) = Collected(d, read, p)
  <2> PICK kids : kids = OrderedChildren(read[p].kids)
    OBVIOUS
  <2>1. \A i \in DOMAIN kids : c[kids[i]] = d[kids[i]]
    BY <1>2, <1>3
  <2>2. [i \in DOMAIN kids |-> c[kids[i]].rows] = [i \in DOMAIN kids |-> d[kids[i]].rows]
    BY <2>1
  <2>3. Below(c, kids) = Below(d, kids)
    BY <2>2, Zenon DEF Below
  <2>4. Borrowed(c, kids) = Borrowed(d, kids)
    <3>1. {c[kids[i]].lent : i \in DOMAIN kids} = {d[kids[i]].lent : i \in DOMAIN kids}
      BY <2>1
    <3> QED BY <3>1, Zenon DEF Borrowed
  <2> QED BY <2>3, <2>4, Zenon DEF Collected
<1> DEFINE S == {k \in 0 .. n : \E c : DOMAIN c = D /\ From(c, n + 1 - k)}
<1>4. 0 \in S
  <2>1. From([p \in D |-> 0], n + 1)
    <3>1. \A p \in D : ~(p >= n + 1)
      BY <1>1
    <3> QED BY <3>1, Zenon
  <2>2. DOMAIN [p \in D |-> 0] = D
    OBVIOUS
  <2>3. 0 \in 0 .. n /\ n + 1 - 0 = n + 1
    BY <1>1
  <2> HIDE DEF From
  <2> QED BY <2>1, <2>2, <2>3
<1>5. ASSUME NEW k \in 0 .. n - 1, k \in S
      PROVE  k + 1 \in S
  <2> DEFINE m == n - k
  <2>1. PICK c : DOMAIN c = D /\ From(c, m + 1)
    <3>1. PICK c : DOMAIN c = D /\ From(c, n + 1 - k)
      BY <1>5
    <3>2. n + 1 - k = m + 1
      BY <1>1
    <3> QED BY <3>1, <3>2
  <2>2. m \in Nat /\ k + 1 \in 0 .. n /\ m = n + 1 - (k + 1)
    BY <1>1
  <2> DEFINE more == [p \in D |-> IF p = m THEN Collected(c, read, p) ELSE c[p]]
  <2>3. ASSUME NEW p \in D, p >= m
        PROVE  more[p] = Collected(more, read, p)
    <3>1. \A q \in D : p < q => more[q] = c[q]
      BY <1>1, <2>2, <2>3
    <3>2. Collected(more, read, p) = Collected(c, read, p)
      <4> HIDE DEF more
      <4> QED BY <1>3, <3>1
    <3>3. CASE p = m
      BY <3>2, <3>3
    <3>4. CASE p # m
      <4>1. p >= m + 1
        BY <1>1, <2>2, <2>3, <3>4
      <4>2. c[p] = Collected(c, read, p)
        BY <2>1, <4>1
      <4> QED BY <3>2, <3>4, <4>2
    <3> QED BY <3>3, <3>4
  <2>4. From(more, m) /\ DOMAIN more = D
    BY <2>3
  <2> HIDE DEF m, more, From
  <2> QED BY <2>2, <2>4
<1>6. n \in S
  <2> HIDE DEF S
  <2>1. \A k \in 0 .. n : k \in S
    BY <1>1, <1>4, <1>5, Counting
  <2> QED BY <1>1, <2>1
<1>7. PICK c : DOMAIN c = D /\ From(c, 1)
  <2>1. n + 1 - n = 1
    BY <1>1
  <2> HIDE DEF From
  <2> QED BY <1>6, <2>1
<1>8. \E all : all = [p \in D |-> Collected(all, read, p)]
  <2> PICK all : all = [p \in D |-> c[p]]
    OBVIOUS
  <2>1. ASSUME NEW p \in D PROVE all[p] = Collected(all, read, p)
    <3>1. p >= 1
      BY <1>1
    <3>2. c[p] = Collected(c, read, p)
      BY <1>7, <3>1
    <3>3. Collected(all, read, p) = Collected(c, read, p)
      BY <1>3
    <3> QED BY <3>2, <3>3
  <2>2. all = [p \in D |-> Collected(all, read, p)]
    BY <2>1
  <2> QED BY <2>2
<1> DEFINE found == CHOOSE all : all = [p \in D |-> Collected(all, read, p)]
<1>9. found = [p \in D |-> Collected(found, read, p)]
    BY <1>8
<1>10. CollectRows(read) = found[Root].rows
    BY DEF CollectRows, Collected, Below, Borrowed
<1> HIDE DEF found, D
<1>11. found = [p \in DOMAIN read |-> Collected(found, read, p)]
    BY <1>9 DEF D
<1> QED BY <1>10, <1>11

-----------------------------------------------------------------------------
(* What the rows of a set of processes are.                                *)

\* A row of the table (_Row).
Row == [pk : Nat, pks : SUBSET Nat, wish : BOOLEAN, number : Nat, state : States, depth : Nat]

\* Whoever is not passed over is on one row, that of the process whose group it is in.
Places(sh, U, rows) ==
    /\ \A x \in DOMAIN rows : /\ rows[x].pk \in U /\ sh[rows[x].pk].role # "transparent"
                              /\ rows[x].pks = Group(sh, rows[x].pk)
    /\ \A q \in U : sh[q].role # "transparent" => \E x \in DOMAIN rows : q \in rows[x].pks
    /\ \A x, y \in DOMAIN rows : x # y => rows[x].pks \cap rows[y].pks = {}

\* No two rows under one have the same number, from some depth on.
Apart(rows, least) ==
    \A x, y \in DOMAIN rows :
       x < y /\ rows[x].number > 0 /\ rows[x].depth >= least /\ rows[x].depth = rows[y].depth
       /\ (\A z \in x .. y : rows[z].depth >= rows[x].depth)
       => rows[x].number # rows[y].number

\* The rows that are beneath another are numbered, the others are to be.
Numbers(sh, rows) ==
    /\ 1 \in DOMAIN rows => rows[1].depth = 0
    /\ \A x \in DOMAIN rows :
          IF rows[x].depth = 0
          THEN rows[x].number = 0 /\ (rows[x].wish <=> sh[rows[x].pk].role = "numbered")
          ELSE rows[x].number > 0 <=> sh[rows[x].pk].role = "numbered"

\* p is shown before q: it was called before, or both belong to a fan-out.
MayPrecede(sh, p, q) ==
    q < p => /\ process[p].label.index < process[q].label.index
             /\ \A k \in Kin(sh, sh[p].up) : q <= k /\ k <= p =>
                   process[k].label.family = process[p].label.family

\* Rows of one caller stand in an order in which they may have been run.
InRunOrder(sh, rows) ==
    \A x, y \in DOMAIN rows :
       x < y /\ sh[rows[x].pk].up = sh[rows[y].pk].up => MayPrecede(sh, rows[x].pk, rows[y].pk)

\* The first above q, or q itself, that is not passed over.
Nearest(sh, a, q) ==
    /\ sh[a].role # "transparent" /\ q \in Under(sh, a)
    /\ \A d \in Under(sh, a) \ {a} : q \in Under(sh, d) => sh[d].role = "transparent"

\* No process of U above q has a row.
PassedOver(sh, U, q) == \A a \in U : q \in Under(sh, a) => sh[a].role = "transparent"

\* A row that is over tells so; one that is paused, or to which a pause was lent,
\* tells that it is paused.
Tells(sh, U, read, rows, lent) ==
    /\ lent \subseteq Alive
    /\ \A x \in DOMAIN rows :
          /\ read[rows[x].pk].state \in Terminal => rows[x].state = read[rows[x].pk].state
          /\ rows[x].state \in Terminal => read[rows[x].pk].state \in Terminal
    /\ \A q \in U : read[q].state = "paused" =>
          /\ \A x \in DOMAIN rows : \A a \in rows[x].pks :
                Nearest(sh, a, q) => rows[x].state = "paused"
          /\ PassedOver(sh, U, q) => "paused" \in lent

\* Everything that the rows of a part U of the tree are known to be.
Forest(sh, U, read, rows, lent) ==
    /\ rows \in Seq(Row)
    /\ Places(sh, U, rows)
    /\ Apart(rows, 1)
    /\ Numbers(sh, rows)
    /\ InRunOrder(sh, rows)
    /\ Tells(sh, U, read, rows, lent)

\* A row stands for its process, and else only for what is under it.
LEMMA GroupIsUnder ==
    ASSUME NEW sh, NEW p \in DOMAIN sh
    PROVE  Group(sh, p) \subseteq Under(sh, p) /\ p \in Group(sh, p)
BY UnderIsClosed DEF Group, Beneath

\* The rows of those that a process called, one after the other.
LEMMA ForestsInARow ==
    ASSUME ProcessTree, NEW read, ReadTree(read), NEW p \in DOMAIN read,
           NEW sh, sh = Shape(DOMAIN read), NEW c,
           \A k \in read[p].kids : Forest(sh, Under(sh, k), read, c[k].rows, c[k].lent),
           NEW kids, kids = OrderedChildren(read[p].kids)
    PROVE  Forest(sh, Under(sh, p) \ {p}, read, Below(c, kids), Borrowed(c, kids))
<1> DEFINE K == Kin(sh, p)
           n == Cardinality(K)
           U == Under(sh, p) \ {p}
<1>1. /\ IsTree(sh) /\ DOMAIN sh = DOMAIN read /\ K = read[p].kids
      /\ \A q \in DOMAIN sh : sh[q].up = process[q].parent /\ sh[q].role = process[q].role
      /\ ReadsAsRun(kids, K) /\ n \in Nat /\ K \in SUBSET DOMAIN process
  <2>1. /\ IsTree(sh) /\ DOMAIN sh = DOMAIN read /\ K = read[p].kids
        /\ \A q \in DOMAIN sh : sh[q].up = process[q].parent /\ sh[q].role = process[q].role
        /\ Shown(K) = K /\ K \in SUBSET DOMAIN process
    BY ShapeOfReadTree
  <2>2. ReadsAsRun(kids, K)
    BY <2>1, ChildrenInOrder
  <2>3. n \in Nat
    BY <2>1, ProcessesAreNumbers
  <2> QED BY <2>1, <2>2, <2>3
<1>2. /\ U = UNION {Under(sh, k) : k \in K}
      /\ \A k \in K : k \in DOMAIN sh /\ p < k /\ p \notin Under(sh, k)
      /\ \A k, l \in K : k # l => Under(sh, k) \cap Under(sh, l) = {}
      /\ \A k \in K : \A q \in Under(sh, k) : sh[q].up = p => q = k
    BY <1>1, UnderKin
<1>3. \A k \in K : Forest(sh, Under(sh, k), read, c[k].rows, c[k].lent)
    BY <1>1
<1> HIDE DEF K, U
<1>4. /\ kids \in [1 .. n -> K]
      /\ \A k \in K : \E i \in 1 .. n : kids[i] = k
      /\ \A i, j \in 1 .. n : i < j =>
            /\ kids[i] # kids[j]
            /\ kids[j] < kids[i] =>
                  /\ process[kids[i]].label.index < process[kids[j]].label.index
                  /\ \A k \in K : kids[j] <= k /\ k <= kids[i] =>
                        process[k].label.family = process[kids[i]].label.family
    BY <1>1 DEF ReadsAsRun
<1> DEFINE seqs == [i \in DOMAIN kids |-> c[kids[i]].rows]
<1>5. seqs \in [1 .. n -> Seq(Row)] /\ \A i \in 1 .. n : seqs[i] = c[kids[i]].rows
  <2>1. \A i \in 1 .. n : c[kids[i]].rows \in Seq(Row)
    BY <1>3, <1>4 DEF Forest
  <2>2. DOMAIN kids = 1 .. n
    BY <1>4
  <2> HIDE DEF n
  <2> QED BY <2>1, <2>2
<1> PICK flat : flat = Below(c, kids)
    OBVIOUS
<1> HIDE DEF n
<1>6. flat \in Seq(Row) /\ \E from, at : Joins(seqs, n, flat, from, at)
  <2>1. flat = FlattenSeq(seqs)
    BY Zenon DEF Below
  <2>2. /\ FlattenSeq(seqs) \in Seq(Row)
        /\ \E from, at : Joins(seqs, n, FlattenSeq(seqs), from, at)
    <3> HIDE DEF seqs
    <3> QED BY <1>1, <1>5, FlattenJoins, Zenon
  <2> QED BY <2>1, <2>2, Zenon
<1>7. PICK from, at : Joins(seqs, n, flat, from, at)
    BY <1>6
<1> HIDE DEF seqs
<1> DEFINE of(x) == kids[from[x]]
\* Where the rows come from.
<1>8. ASSUME NEW x \in DOMAIN flat
      PROVE  /\ from[x] \in 1 .. n /\ of(x) \in K
             /\ at[x] \in DOMAIN c[of(x)].rows /\ flat[x] = c[of(x)].rows[at[x]]
  <2>1. /\ from[x] \in 1 .. n /\ at[x] \in 1 .. Len(seqs[from[x]])
        /\ flat[x] = seqs[from[x]][at[x]]
    BY <1>7, Zenon DEF Joins
  <2>2. of(x) \in K /\ seqs[from[x]] = c[of(x)].rows
    BY <1>4, <1>5, <2>1
  <2>3. DOMAIN c[of(x)].rows = 1 .. Len(c[of(x)].rows)
    BY <1>3, <2>2, LenProperties DEF Forest
  <2> QED BY <2>1, <2>2, <2>3
<1>9. ASSUME NEW i \in 1 .. n, NEW j \in DOMAIN c[kids[i]].rows
      PROVE  \E x \in DOMAIN flat : from[x] = i /\ at[x] = j
  <2>1. kids[i] \in K /\ seqs[i] = c[kids[i]].rows
    BY <1>4, <1>5
  <2>2. j \in 1 .. Len(seqs[i])
    BY <1>3, <2>1, LenProperties DEF Forest
  <2> QED BY <1>7, <2>2, Zenon DEF Joins
<1>10. ASSUME NEW x \in DOMAIN flat, NEW y \in DOMAIN flat, x < y
       PROVE  from[x] < from[y] \/ (from[x] = from[y] /\ at[x] < at[y])
    BY <1>7, <1>10, Zenon DEF Joins
<1>11. DOMAIN flat \subseteq Nat \ {0} /\ \A k \in K : DOMAIN c[k].rows \subseteq Nat \ {0}
  <2>1. DOMAIN flat \subseteq Nat \ {0}
    BY <1>6, LenProperties
  <2>2. \A k \in K : DOMAIN c[k].rows \subseteq Nat \ {0}
    BY <1>3, LenProperties DEF Forest
  <2> QED BY <2>1, <2>2
<1>12. ASSUME NEW x \in DOMAIN flat, NEW y \in DOMAIN flat, x # y
       PROVE  of(x) # of(y) \/ at[x] # at[y]
  <2>1. x \in Nat /\ y \in Nat /\ from[x] \in 1 .. n /\ from[y] \in 1 .. n
    BY <1>8, <1>11
  <2>2. at[x] \in Nat /\ at[y] \in Nat
    BY <1>8, <1>11
  <2>3. from[x] # from[y] \/ at[x] # at[y]
    <3>1. CASE x < y
      BY <1>10, <2>1, <2>2, <3>1
    <3>2. CASE y < x
      BY <1>10, <2>1, <2>2, <3>2
    <3> QED BY <1>12, <2>1, <3>1, <3>2
  <2>4. from[x] # from[y] => of(x) # of(y)
    <3>1. from[x] < from[y] \/ from[y] < from[x] \/ from[x] = from[y]
      BY <1>1, <2>1
    <3> QED BY <1>4, <2>1, <3>1
  <2> QED BY <2>3, <2>4
<1>13. \A x \in DOMAIN flat :
          /\ flat[x].pk \in Under(sh, of(x)) /\ sh[flat[x].pk].role # "transparent"
          /\ flat[x].pks = Group(sh, flat[x].pk) /\ Under(sh, of(x)) \subseteq U
          /\ flat[x].pks \subseteq Under(sh, of(x)) /\ flat[x].pk \in DOMAIN sh
  <2> SUFFICES ASSUME NEW x \in DOMAIN flat
               PROVE  /\ flat[x].pk \in Under(sh, of(x)) /\ sh[flat[x].pk].role # "transparent"
                      /\ flat[x].pks = Group(sh, flat[x].pk) /\ Under(sh, of(x)) \subseteq U
                      /\ flat[x].pks \subseteq Under(sh, of(x)) /\ flat[x].pk \in DOMAIN sh
    OBVIOUS
  <2>1. /\ flat[x].pk \in Under(sh, of(x)) /\ sh[flat[x].pk].role # "transparent"
        /\ flat[x].pks = Group(sh, flat[x].pk)
    BY <1>3, <1>8 DEF Forest, Places
  <2>2. Under(sh, of(x)) \subseteq U /\ Under(sh, of(x)) \subseteq DOMAIN sh
    BY <1>2, <1>8, UnderIsClosed
  <2>3. flat[x].pks \subseteq Under(sh, flat[x].pk)
    BY <2>1, <2>2, GroupIsUnder
  <2>4. Under(sh, flat[x].pk) \subseteq Under(sh, of(x))
    BY <1>2, <1>8, <2>1, UnderIsTransitive
  <2> QED BY <2>1, <2>2, <2>3, <2>4
\* The parts of a forest.
<1>14. Places(sh, U, flat)
  <2>1. \A x \in DOMAIN flat : /\ flat[x].pk \in U /\ sh[flat[x].pk].role # "transparent"
                               /\ flat[x].pks = Group(sh, flat[x].pk)
    BY <1>13
  <2>2. ASSUME NEW q \in U, sh[q].role # "transparent"
        PROVE  \E x \in DOMAIN flat : q \in flat[x].pks
    <3>1. PICK k \in K : q \in Under(sh, k)
      BY <1>2
    <3>2. PICK j \in DOMAIN c[k].rows : q \in c[k].rows[j].pks
      BY <1>3, <2>2, <3>1 DEF Forest, Places
    <3>3. PICK i \in 1 .. n : kids[i] = k
      BY <1>4
    <3>4. PICK x \in DOMAIN flat : from[x] = i /\ at[x] = j
      BY <1>9, <3>2, <3>3
    <3> QED BY <1>8, <3>2, <3>3, <3>4
  <2>3. ASSUME NEW x \in DOMAIN flat, NEW y \in DOMAIN flat, x # y
        PROVE  flat[x].pks \cap flat[y].pks = {}
    <3>1. CASE of(x) = of(y)
      BY <1>3, <1>8, <1>12, <2>3, <3>1 DEF Forest, Places
    <3>2. CASE of(x) # of(y)
      BY <1>2, <1>8, <1>13, <3>2
    <3> QED BY <3>1, <3>2
  <2> QED BY <2>1, <2>2, <2>3 DEF Places
<1>15. Numbers(sh, flat)
  <2>1. ASSUME NEW x \in DOMAIN flat
        PROVE  IF flat[x].depth = 0
               THEN flat[x].number = 0 /\ (flat[x].wish <=> sh[flat[x].pk].role = "numbered")
               ELSE flat[x].number > 0 <=> sh[flat[x].pk].role = "numbered"
    <3>1. Numbers(sh, c[of(x)].rows)
      BY <1>3, <1>8 DEF Forest
    <3>2. at[x] \in DOMAIN c[of(x)].rows /\ flat[x] = c[of(x)].rows[at[x]]
      BY <1>8
    <3> HIDE DEF of
    <3> QED BY <3>1, <3>2 DEF Numbers
  <2>2. ASSUME 1 \in DOMAIN flat
        PROVE  flat[1].depth = 0
    <3>1. at[1] = 1
      <4>1. at[1] \in DOMAIN c[of(1)].rows /\ of(1) \in K /\ from[1] \in 1 .. n
        BY <1>8, <2>2
      <4>2. 1 \in DOMAIN c[of(1)].rows
        BY <1>3, <4>1, LenProperties DEF Forest
      <4>3. PICK x \in DOMAIN flat : from[x] = from[1] /\ at[x] = 1
        BY <1>9, <4>1, <4>2
      <4>4. x \in Nat \ {0} /\ at[1] \in Nat \ {0} /\ from[1] \in Nat
        BY <1>11, <4>1
      <4>5. x = 1 \/ 1 < x
        BY <4>4
      <4>6. 1 < x => FALSE
        BY <1>10, <2>2, <4>3, <4>4
      <4> QED BY <4>3, <4>5, <4>6
    <3>2. of(1) \in K /\ 1 \in DOMAIN c[of(1)].rows /\ flat[1] = c[of(1)].rows[1]
      BY <1>8, <2>2, <3>1
    <3> QED BY <1>3, <3>2 DEF Forest, Numbers
  <2> QED BY <2>1, <2>2, Zenon DEF Numbers
<1>16. Apart(flat, 1)
  <2> SUFFICES ASSUME NEW x \in DOMAIN flat, NEW y \in DOMAIN flat, x < y, flat[x].number > 0,
                      flat[x].depth >= 1, flat[x].depth = flat[y].depth,
                      \A z \in x .. y : flat[z].depth >= flat[x].depth
               PROVE  flat[x].number # flat[y].number
    BY DEF Apart
  <2>0. /\ x \in Nat /\ y \in Nat /\ from[x] \in 1 .. n /\ from[y] \in 1 .. n
        /\ at[x] \in Nat \ {0} /\ at[y] \in Nat \ {0} /\ flat[x].depth \in Nat
    <3>1. flat[x] \in Row
      BY <1>6, ElementOfSeq, LenProperties
    <3> QED BY <1>8, <1>11, <3>1 DEF Row
  \* The place of a row among those that come from where y does.
  <2>1. ASSUME NEW z \in DOMAIN flat, from[z] = from[y], at[z] <= at[y],
               from[x] < from[y] \/ at[x] <= at[z]
        PROVE  z \in x .. y
    <3>1. z \in Nat /\ at[z] \in Nat
      BY <1>8, <1>11
    <3>2. ~(y < z)
      BY <1>10, <2>0, <2>1, <3>1
    <3>3. ~(z < x)
      BY <1>10, <2>0, <2>1, <3>1
    <3> QED BY <2>0, <3>1, <3>2, <3>3
  <2>2. from[x] = from[y] /\ at[x] < at[y]
    <3> SUFFICES ASSUME from[x] < from[y] PROVE FALSE
      BY <1>10
    <3>1. 1 \in DOMAIN c[of(y)].rows /\ of(y) \in K /\ c[of(y)].rows[1].depth = 0
      <4>1. at[y] \in DOMAIN c[of(y)].rows /\ of(y) \in K
        BY <1>8
      <4>2. 1 \in DOMAIN c[of(y)].rows
        BY <1>3, <4>1, LenProperties DEF Forest
      <4> QED BY <1>3, <4>1, <4>2 DEF Forest, Numbers
    <3>2. PICK z \in DOMAIN flat : from[z] = from[y] /\ at[z] = 1
      BY <1>9, <2>0, <3>1
    <3>3. z \in x .. y
      BY <2>0, <2>1, <3>2
    <3>4. flat[z].depth = 0
      BY <1>8, <3>1, <3>2
    <3> QED BY <2>0, <3>3, <3>4
  <2>3. /\ of(x) = of(y) /\ of(x) \in K
        /\ at[x] \in DOMAIN c[of(x)].rows /\ at[y] \in DOMAIN c[of(x)].rows
    BY <1>8, <2>2
  <2>4. flat[x] = c[of(x)].rows[at[x]] /\ flat[y] = c[of(x)].rows[at[y]]
    BY <1>8, <2>3
  <2>5. ASSUME NEW z \in at[x] .. at[y]
        PROVE  c[of(x)].rows[z].depth >= flat[x].depth
    <3>1. z \in DOMAIN c[of(x)].rows
      <4>1. c[of(x)].rows \in Seq(Row)
        BY <1>3, <2>3 DEF Forest
      <4>2. DOMAIN c[of(x)].rows = 1 .. Len(c[of(x)].rows) /\ Len(c[of(x)].rows) \in Nat
        BY <4>1, LenProperties
      <4> HIDE DEF of
      <4> QED BY <2>0, <2>3, <4>2
    <3>2. PICK w \in DOMAIN flat : from[w] = from[x] /\ at[w] = z
      BY <1>9, <2>0, <3>1
    <3>3. w \in x .. y
      BY <2>0, <2>1, <2>2, <3>2
    <3>4. flat[w] = c[of(x)].rows[z]
      BY <1>8, <3>2
    <3> QED BY <3>3, <3>4
  <2>6. Apart(c[of(x)].rows, 1)
    BY <1>3, <2>3 DEF Forest
  <2> HIDE DEF of
  <2> QED BY <2>2, <2>3, <2>4, <2>5, <2>6 DEF Apart
<1>17. InRunOrder(sh, flat)
  <2> SUFFICES ASSUME NEW x \in DOMAIN flat, NEW y \in DOMAIN flat, x < y,
                      sh[flat[x].pk].up = sh[flat[y].pk].up
               PROVE  MayPrecede(sh, flat[x].pk, flat[y].pk)
    BY DEF InRunOrder
  <2>1. CASE from[x] = from[y] /\ at[x] < at[y]
    <3>1. of(x) \in K /\ InRunOrder(sh, c[of(x)].rows)
      BY <1>3, <1>8 DEF Forest
    <3>2. /\ at[x] \in DOMAIN c[of(x)].rows /\ at[y] \in DOMAIN c[of(x)].rows
          /\ flat[x] = c[of(x)].rows[at[x]] /\ flat[y] = c[of(x)].rows[at[y]]
      BY <1>8, <2>1
    <3> QED BY <2>1, <3>1, <3>2, Zenon DEF InRunOrder
  <2>2. CASE from[x] < from[y]
    <3> DEFINE a == flat[x].pk
               b == flat[y].pk
    <3>1. of(x) \in K /\ of(y) \in K /\ of(x) # of(y)
      BY <1>4, <1>8, <2>2
    <3>2. a \in Under(sh, of(x)) /\ b \in Under(sh, of(y))
      BY <1>13
    <3>3. Under(sh, of(x)) \cap Under(sh, of(y)) = {}
      BY <1>2, <3>1
    <3>4. /\ a # of(x) => sh[a].up \in Under(sh, of(x))
          /\ b # of(y) => sh[b].up \in Under(sh, of(y))
      BY <1>1, <1>2, <3>1, <3>2, UnderIsLater
    <3>5. /\ sh[of(x)].up = p /\ sh[of(y)].up = p
          /\ p \notin Under(sh, of(x)) /\ p \notin Under(sh, of(y))
      BY <1>2, <3>1 DEF Kin, K
    <3>6. a = of(x) /\ b = of(y)
      BY <3>3, <3>4, <3>5
    <3>7. from[x] \in 1 .. n /\ from[y] \in 1 .. n
      BY <1>8
    <3>8. b < a =>
            /\ process[a].label.index < process[b].label.index
            /\ \A k \in K : b <= k /\ k <= a => process[k].label.family = process[a].label.family
      BY <1>4, <2>2, <3>6, <3>7
    <3>9. Kin(sh, sh[a].up) = K
      BY <3>5, <3>6 DEF K
    <3> QED BY <3>8, <3>9 DEF MayPrecede
  <2> QED BY <1>10, <2>1, <2>2
<1> PICK lent : lent = Borrowed(c, kids)
    OBVIOUS
<1>18. \A k \in K : c[k].lent \subseteq lent
  <2> SUFFICES ASSUME NEW k \in K PROVE c[k].lent \subseteq lent
    OBVIOUS
  <2>1. PICK i \in 1 .. n : kids[i] = k
    BY <1>4
  <2>2. i \in DOMAIN kids
    BY <1>4
  <2> QED BY <2>1, <2>2 DEF Borrowed
<1>19. Tells(sh, U, read, flat, lent)
  <2>1. lent \subseteq Alive
    <3>1. \A i \in DOMAIN kids : c[kids[i]].lent \subseteq Alive
      BY <1>3, <1>4 DEF Forest, Tells
    <3> QED BY <3>1 DEF Borrowed
  <2>2. ASSUME NEW x \in DOMAIN flat
        PROVE  /\ read[flat[x].pk].state \in Terminal => flat[x].state = read[flat[x].pk].state
               /\ flat[x].state \in Terminal => read[flat[x].pk].state \in Terminal
    BY <1>3, <1>8, Zenon DEF Forest, Tells
  <2>3. ASSUME NEW q \in U, read[q].state = "paused"
        PROVE  /\ \A x \in DOMAIN flat : \A a \in flat[x].pks :
                     Nearest(sh, a, q) => flat[x].state = "paused"
               /\ PassedOver(sh, U, q) => "paused" \in lent
    <3>1. PICK k \in K : q \in Under(sh, k)
      BY <1>2
    <3>2. /\ \A x \in DOMAIN c[k].rows : \A a \in c[k].rows[x].pks :
                Nearest(sh, a, q) => c[k].rows[x].state = "paused"
          /\ PassedOver(sh, Under(sh, k), q) => "paused" \in c[k].lent
      BY <1>3, <2>3, <3>1 DEF Forest, Tells
    <3>3. ASSUME NEW x \in DOMAIN flat, NEW a \in flat[x].pks, Nearest(sh, a, q)
          PROVE  flat[x].state = "paused"
      <4>1. a \in Under(sh, of(x)) /\ of(x) \in K /\ of(x) \in DOMAIN sh
        BY <1>2, <1>8, <1>13
      <4>2. q \in Under(sh, of(x))
        BY <3>3, <4>1, UnderIsTransitive DEF Nearest
      <4>3. of(x) = k
        BY <1>2, <3>1, <4>1, <4>2
      <4>4. at[x] \in DOMAIN c[k].rows /\ flat[x] = c[k].rows[at[x]]
        BY <1>8, <4>3
      <4> QED BY <3>2, <3>3, <4>4
    <3>4. Under(sh, k) \subseteq U
      BY <1>2
    <3> QED BY <1>18, <3>2, <3>3, <3>4 DEF PassedOver
  <2> QED BY <2>1, <2>2, <2>3, Zenon DEF Tells
<1> QED BY <1>6, <1>14, <1>15, <1>16, <1>17, <1>19 DEF Forest, U

-----------------------------------------------------------------------------
(* What numbering siblings and putting a row above others do to a forest.  *)

\* The most advanced of some live states is one of them, and paused if one is.
LEMMA PausedIsMostAdvanced ==
    ASSUME NEW T, T \subseteq Alive, T # {}
    PROVE  /\ MostAdvanced(T) \in T
           /\ "paused" \in T => MostAdvanced(T) = "paused"
<1>1. \A t \in Alive : /\ Rank(t) \in 0 .. 4
                       /\ Rank(t) = 4 => t = "paused"
    BY DEF Alive, Rank
<1>2. Rank("paused") = 4
    BY DEF Rank
<1> HIDE DEF Rank
<1>3. \E s \in T : \A t \in T : Rank(t) =< Rank(s)
  <2> DEFINE R == {Rank(t) : t \in T}
  <2>1. R \subseteq 0 .. 4 /\ R # {}
    BY <1>1
  <2>2. PICK r \in R : \A y \in R : y <= r
    <3> HIDE DEF R
    <3> QED BY <2>1, GreatestNumber
  <2>3. PICK s \in T : r = Rank(s)
    OBVIOUS
  <2>4. \A t \in T : Rank(t) \in R
    OBVIOUS
  <2> HIDE DEF R
  <2> QED BY <2>2, <2>3, <2>4
<1> PICK s : s = MostAdvanced(T)
    OBVIOUS
<1>4. s \in T /\ \A t \in T : Rank(t) =< Rank(s)
    BY <1>3 DEF MostAdvanced
<1>5. "paused" \in T => s = "paused"
    BY <1>1, <1>2, <1>4
<1> QED BY <1>4, <1>5

\* What is lent to a caller is a state of something that has not ended.
LEMMA NothingDeadIsLent ==
    ASSUME NEW state \in States
    PROVE  /\ Promoted(state) \in Alive /\ Promoted("paused") = "paused"
           /\ state \notin Terminal => state \in Alive
           /\ state \in Alive => state \notin Terminal
BY DEF States, Alive, Promoted, Terminal

\* The same of rows that go below another and have their numbers.
NumberedForest(sh, U, read, rows, lent) ==
    /\ rows \in Seq(Row)
    /\ Places(sh, U, rows)
    /\ Apart(rows, 0)
    /\ \A x \in DOMAIN rows : rows[x].number > 0 <=> sh[rows[x].pk].role = "numbered"
    /\ InRunOrder(sh, rows)
    /\ Tells(sh, U, read, rows, lent)

\* _number_siblings gives the rows their numbers and leaves the rest alone.
LEMMA SiblingsAreNumbered ==
    ASSUME NEW sh, NEW U, NEW read, NEW rows, NEW lent, Forest(sh, U, read, rows, lent)
    PROVE  NumberedForest(sh, U, read, NumberSiblings(rows), lent)
<1> PICK new : new = NumberSiblings(rows)
    OBVIOUS
<1> DEFINE Wish(i) == rows[i].depth = 0 /\ rows[i].wish
           Turn(i) == {j \in 1 .. i : Wish(j)}
           n == Len(rows)
<1>1. rows \in Seq(Row) /\ n \in Nat /\ DOMAIN rows = 1 .. n /\ \A x \in 1 .. n : rows[x] \in Row
    BY LenProperties, ElementOfSeq DEF Forest
<1>2. new = [i \in 1 .. n |-> IF Wish(i)
                              THEN [rows[i] EXCEPT !.number = Cardinality(Turn(i)), !.wish = FALSE]
                              ELSE rows[i]]
    BY <1>1 DEF NumberSiblings
<1>3. \A i \in 1 .. n : IsFiniteSet(Turn(i)) /\ Cardinality(Turn(i)) \in Nat
  <2>1. \A i \in 1 .. n : IsFiniteSet(1 .. i)
    BY <1>1, FS_Interval
  <2>2. \A i \in 1 .. n : Turn(i) \in SUBSET (1 .. i)
    OBVIOUS
  <2> QED BY <2>1, <2>2, FS_Subset, FS_CardinalityType
<1>4. ASSUME NEW i \in 1 .. n, Wish(i)
      PROVE  /\ Cardinality(Turn(i)) > 0
             /\ \A j \in 1 .. n : i < j /\ Wish(j) => Cardinality(Turn(i)) # Cardinality(Turn(j))
  <2>1. i \in Turn(i)
    BY <1>4
  <2>2. Cardinality(Turn(i)) # 0
    BY <1>3, <2>1, FS_EmptySet
  <2>3. ASSUME NEW j \in 1 .. n, i < j, Wish(j)
        PROVE  Cardinality(Turn(i)) # Cardinality(Turn(j))
    <3>1. Turn(i) \in SUBSET Turn(j) /\ j \in Turn(j) /\ j \notin Turn(i)
      BY <2>3
    <3>2. Turn(i) # Turn(j)
      BY <3>1
    <3> HIDE DEF Turn
    <3> QED BY <1>3, <3>1, <3>2, FS_Subset
  <2> HIDE DEF Turn
  <2> QED BY <1>3, <2>2, <2>3
<1> HIDE DEF Turn, n
<1>5. ASSUME NEW x \in 1 .. n
      PROVE  /\ new[x] \in Row
             /\ new[x].pk = rows[x].pk /\ new[x].pks = rows[x].pks
             /\ new[x].state = rows[x].state /\ new[x].depth = rows[x].depth
             /\ new[x].number = IF Wish(x) THEN Cardinality(Turn(x)) ELSE rows[x].number
  <2>1. rows[x] \in Row
    BY <1>1
  <2>2. CASE Wish(x)
    <3>1. new[x] = [rows[x] EXCEPT !.number = Cardinality(Turn(x)), !.wish = FALSE]
      BY <1>2, <2>2
    <3> QED BY <1>3, <2>1, <2>2, <3>1 DEF Row
  <2>3. CASE ~Wish(x)
    <3>1. new[x] = rows[x]
      BY <1>2, <2>3
    <3> QED BY <2>1, <2>3, <3>1
  <2> QED BY <2>2, <2>3
<1>6. DOMAIN new = DOMAIN rows /\ new \in Seq(Row)
  <2>1. DOMAIN new = 1 .. n /\ new = [x \in 1 .. n |-> new[x]]
    BY <1>2
  <2>2. new \in [1 .. n -> Row]
    BY <1>5, <2>1
  <2> QED BY <1>1, <2>1, <2>2
<1> HIDE DEF Wish
<1>7. Places(sh, U, new)
  <2>1. Places(sh, U, rows)
    BY DEF Forest
  <2>2. \A x \in DOMAIN new : new[x].pk = rows[x].pk /\ new[x].pks = rows[x].pks
    BY <1>1, <1>5, <1>6
  <2> QED BY <1>6, <2>1, <2>2 DEF Places
<1>8. \A x \in 1 .. n : rows[x].number \in Nat /\ rows[x].depth \in Nat
    BY <1>1 DEF Row
<1>9. \A x \in 1 .. n : IF rows[x].depth = 0
                        THEN /\ rows[x].number = 0
                             /\ Wish(x) <=> sh[rows[x].pk].role = "numbered"
                        ELSE /\ ~Wish(x)
                             /\ rows[x].number > 0 <=> sh[rows[x].pk].role = "numbered"
    BY <1>1 DEF Forest, Numbers, Wish
<1>10. ASSUME NEW x \in DOMAIN new
       PROVE  new[x].number > 0 <=> sh[new[x].pk].role = "numbered"
  <2>1. x \in 1 .. n
    BY <1>1, <1>6
  <2>2. CASE Wish(x)
    BY <1>4, <1>5, <1>9, <2>1, <2>2
  <2>3. CASE ~Wish(x)
    BY <1>5, <1>8, <1>9, <2>1, <2>3
  <2> QED BY <2>2, <2>3
<1>11. Apart(new, 0)
  <2> SUFFICES ASSUME NEW x \in 1 .. n, NEW y \in 1 .. n, x < y,
                      new[x].number > 0, new[x].depth = new[y].depth,
                      \A z \in x .. y : new[z].depth >= new[x].depth
               PROVE  new[x].number # new[y].number
    BY <1>1, <1>6 DEF Apart
  <2>1. CASE Wish(x)
    <3>1. CASE Wish(y)
      BY <1>4, <1>5, <2>1, <3>1
    <3>2. CASE ~Wish(y)
      <4>1. rows[y].depth = 0
        BY <1>5, <2>1 DEF Wish
      <4>2. new[y].number = 0
        BY <1>5, <1>9, <3>2, <4>1
      <4> QED BY <4>2
    <3> QED BY <3>1, <3>2
  <2>2. CASE ~Wish(x)
    <3>1. rows[x].depth # 0 /\ new[x].number = rows[x].number /\ rows[x].number > 0
      BY <1>5, <1>8, <1>9, <2>2
    <3>2. rows[y].depth = rows[x].depth /\ ~Wish(y) /\ new[y].number = rows[y].number
      BY <1>5, <1>9, <3>1 DEF Wish
    <3>3. \A z \in x .. y : rows[z].depth >= rows[x].depth
      <4>1. \A z \in x .. y : z \in 1 .. n
        BY <1>1
      <4> QED BY <1>5, <4>1
    <3>4. rows[x].depth >= 1
      BY <1>8, <3>1
    <3>5. Apart(rows, 1)
      BY DEF Forest
    <3> QED BY <1>1, <3>1, <3>2, <3>3, <3>4, <3>5 DEF Apart
  <2> QED BY <2>1, <2>2
<1>12. InRunOrder(sh, new)
  <2>1. InRunOrder(sh, rows) /\ \A x \in DOMAIN new : new[x].pk = rows[x].pk
    BY <1>1, <1>5, <1>6 DEF Forest
  <2> QED BY <1>6, <2>1 DEF InRunOrder
<1>13. Tells(sh, U, read, new, lent)
  <2>1. Tells(sh, U, read, rows, lent)
    BY DEF Forest
  <2>2. \A x \in DOMAIN new : /\ new[x].pk = rows[x].pk /\ new[x].pks = rows[x].pks
                              /\ new[x].state = rows[x].state
    BY <1>1, <1>5, <1>6
  <2> QED BY <1>6, <2>1, <2>2 DEF Tells
<1> QED BY <1>6, <1>7, <1>10, <1>11, <1>12, <1>13 DEF NumberedForest

\* A container that takes the place of the only row beneath it stands for a chain.
LEMMA CollapseIsAlone ==
    ASSUME ProcessTree, NEW read, ReadTree(read), NEW p \in DOMAIN read,
           NEW sh, sh = Shape(DOMAIN read), NEW rows, NEW lent,
           NumberedForest(sh, Under(sh, p) \ {p}, read, rows, lent)
    PROVE  /\ Collapses(p, rows) <=> Alone(sh, p) /\ Beneath(sh, p) # {}
           /\ Collapses(p, rows) => Group(sh, p) = {p} \cup rows[1].pks
           /\ ~Collapses(p, rows) => Group(sh, p) = {p}
<1> DEFINE U == Under(sh, p) \ {p}
<1>1. /\ IsTree(sh) /\ DOMAIN sh = DOMAIN read
      /\ \A q \in DOMAIN sh : sh[q].role = process[q].role
    BY ShapeOfReadTree
<1>2. /\ rows \in Seq(Row) /\ Len(rows) \in Nat /\ DOMAIN rows = 1 .. Len(rows)
      /\ \A x \in DOMAIN rows : rows[x] \in Row
    BY LenProperties, ElementOfSeq DEF NumberedForest
<1>3. /\ \A x \in DOMAIN rows : /\ rows[x].pk \in Beneath(sh, p)
                                /\ rows[x].pks = Group(sh, rows[x].pk)
      /\ \A q \in Beneath(sh, p) : \E x \in DOMAIN rows : q \in rows[x].pks
      /\ \A x, y \in DOMAIN rows : x # y => rows[x].pks \cap rows[y].pks = {}
      /\ \A x \in DOMAIN rows : rows[x].number > 0 <=> sh[rows[x].pk].role = "numbered"
    BY DEF NumberedForest, Places, Beneath
<1>4. \A q \in Under(sh, p) : q \in DOMAIN sh /\ q \in Nat /\ Under(sh, q) \subseteq Under(sh, p)
    BY <1>1, UnderIsClosed, UnderIsTransitive DEF IsTree
<1>5. \A q \in Under(sh, p) \ {p} : p \notin Under(sh, q)
  <2> SUFFICES ASSUME NEW q \in Under(sh, p) \ {p}, p \in Under(sh, q) PROVE FALSE
    OBVIOUS
  <2>1. p < q /\ q <= p /\ p \in Nat
    BY <1>1, <1>4, UnderIsLater DEF IsTree
  <2> QED BY <1>4, <2>1
<1>6. \A q \in Beneath(sh, p) : Beneath(sh, q) \subseteq Beneath(sh, p)
    BY <1>4, <1>5 DEF Beneath
<1>7. ASSUME Collapses(p, rows)
      PROVE  Alone(sh, p) /\ Beneath(sh, p) # {} /\ Beneath(sh, p) = rows[1].pks
  <2>1. 1 \in DOMAIN rows /\ \A x \in DOMAIN rows : x = 1
    BY <1>2, <1>7 DEF Collapses
  <2> PICK b : b = rows[1].pk
    OBVIOUS
  <2>2. b \in Beneath(sh, p) /\ rows[1].pks = Group(sh, b) /\ sh[b].role # "numbered"
    BY <1>3, <1>7, <2>1 DEF Collapses
  <2>3. Beneath(sh, p) = Group(sh, b)
    <3>1. Group(sh, b) \subseteq {b} \cup Beneath(sh, b)
      BY DEF Group
    <3> QED BY <1>3, <1>6, <2>1, <2>2, <3>1
  <2>4. p # Root /\ sh[p].role # "numbered"
    BY <1>1, <1>7 DEF Collapses
  <2>5. \A d \in Beneath(sh, p) : sh[d].role # "numbered"
    BY <2>2, <2>3 DEF Group, Alone
  <2>6. ASSUME NEW d \in Beneath(sh, p), NEW e \in Beneath(sh, p), d < e
        PROVE  e \in Under(sh, d)
    <3>1. \A q \in Beneath(sh, p) : q \in Nat /\ q \in DOMAIN sh
      BY <1>4 DEF Beneath
    <3>2. d = b \/ (Alone(sh, b) /\ d \in Beneath(sh, b))
      BY <2>3 DEF Group
    <3>3. e = b \/ (Alone(sh, b) /\ e \in Beneath(sh, b))
      BY <2>3 DEF Group
    <3>4. \A q \in Beneath(sh, b) : b < q /\ q \in Under(sh, b)
      BY <1>1, <2>2, <3>1, UnderIsLater DEF Beneath
    <3>5. e # b
      BY <2>2, <2>6, <3>1, <3>2, <3>4
    <3> QED BY <2>6, <3>2, <3>3, <3>4, <3>5 DEF Alone
  <2> QED BY <2>2, <2>3, <2>4, <2>5, <2>6 DEF Alone
<1>8. ASSUME Alone(sh, p), Beneath(sh, p) # {}
      PROVE  Collapses(p, rows)
  <2>1. Beneath(sh, p) \subseteq Nat
    BY <1>4 DEF Beneath
  <2>2. PICK b \in Beneath(sh, p) : \A d \in Beneath(sh, p) : b <= d
    BY <1>8, <2>1, LeastNumber
  <2>3. b # Root /\ sh[b].role # "numbered"
    <3>1. p < b /\ p \in Nat \ {0}
      BY <1>1, UnderIsLater DEF Beneath, IsTree
    <3> QED BY <1>8, <3>1 DEF Alone, Root
  <2>4. Alone(sh, b)
    <3>1. \A d \in Beneath(sh, b) : d \in Beneath(sh, p)
      BY <1>6
    <3> QED BY <1>8, <2>3, <3>1 DEF Alone
  <2>5. Beneath(sh, p) \subseteq Group(sh, b)
    <3> SUFFICES ASSUME NEW d \in Beneath(sh, p), d # b PROVE d \in Group(sh, b)
      BY DEF Group
    <3>1. b < d
      BY <2>1, <2>2
    <3>2. d \in Under(sh, b)
      BY <1>8, <3>1 DEF Alone
    <3> QED BY <2>4, <3>2 DEF Group, Beneath
  <2>6. PICK x \in DOMAIN rows : b \in rows[x].pks
    BY <1>3
  <2>7. rows[x].pk = b
    <3> PICK a : a = rows[x].pk
      OBVIOUS
    <3>1. a \in Beneath(sh, p) /\ b \in Group(sh, a) /\ a \in DOMAIN sh
      BY <1>3, <1>4, <2>6 DEF Beneath
    <3>2. a <= b
      BY <1>1, <3>1, GroupIsUnder, UnderIsLater
    <3>3. b <= a /\ a \in Nat /\ b \in Nat
      BY <2>1, <2>2, <3>1
    <3> QED BY <3>2, <3>3
  <2>8. \A y \in DOMAIN rows : y = x
    <3> SUFFICES ASSUME NEW y \in DOMAIN rows, y # x PROVE FALSE
      OBVIOUS
    <3>1. rows[y].pk \in Beneath(sh, p) /\ rows[y].pk \in rows[y].pks
      BY <1>3, <1>4, GroupIsUnder DEF Beneath
    <3>2. rows[y].pk \in rows[x].pks
      BY <1>3, <2>5, <2>7, <3>1
    <3> QED BY <1>3, <3>1, <3>2
  <2>9. Len(rows) = 1 /\ x = 1
    <3>1. 1 \in DOMAIN rows /\ Len(rows) \in DOMAIN rows
      BY <1>2
    <3> QED BY <2>8, <3>1
  <2>10. rows[1].number = 0
    <3>1. rows[1].number \in Nat
      BY <1>2, <2>9 DEF Row
    <3> QED BY <1>3, <2>3, <2>7, <2>9, <3>1
  <2> QED BY <1>1, <1>8, <2>9, <2>10 DEF Alone, Collapses
<1>9. Alone(sh, p) => Group(sh, p) = {p} \cup Beneath(sh, p)
    BY DEF Group
<1>10. ~Alone(sh, p) => Group(sh, p) = {p}
    BY DEF Group
<1> QED BY <1>7, <1>8, <1>9, <1>10

-----------------------------------------------------------------------------
(* The rows of a process and of what is beneath it.                        *)

\* A row above the numbered rows of those it called, or instead of them.
LEMMA RowAboveOthers ==
    ASSUME ProcessTree, NEW read, ReadTree(read), NEW p \in DOMAIN read,
           NEW sh, sh = Shape(DOMAIN read), process[p].role # "transparent",
           NEW below, NEW borrowed,
           NumberedForest(sh, Under(sh, p) \ {p}, read, below, borrowed),
           NEW rows, rows = RowOf(p, read[p].state, below, borrowed)
    PROVE  /\ Forest(sh, Under(sh, p), read, rows, {})
           /\ \A x \in DOMAIN rows : rows[x].depth = 0 => rows[x].pk = p
<1> DEFINE U == Under(sh, p) \ {p}
           lent == borrowed \cup (IF Collapses(p, below) THEN {Promoted(below[1].state)} ELSE {})
           state == read[p].state
           row == [pk     |-> p,
                   pks    |-> {p} \cup (IF Collapses(p, below) THEN below[1].pks ELSE {}),
                   wish   |-> process[p].role = "numbered",
                   number |-> 0,
                   state  |-> IF state \in Terminal THEN state
                              ELSE MostAdvanced({state} \cup lent),
                   depth  |-> 0]
           m == IF Collapses(p, below) THEN 0 ELSE Len(below)
           tail == [i \in 1 .. m |-> [below[i] EXCEPT !.depth = @ + 1]]
<1>1. /\ IsTree(sh) /\ DOMAIN sh = DOMAIN read /\ p \in Under(sh, p) /\ p \in Nat
      /\ \A q \in DOMAIN sh : sh[q].up = process[q].parent /\ sh[q].role = process[q].role
      /\ Under(sh, p) \subseteq DOMAIN sh
    BY ShapeOfReadTree, UnderIsClosed DEF IsTree
<1>2. /\ below \in Seq(Row) /\ Len(below) \in Nat /\ DOMAIN below = 1 .. Len(below)
      /\ \A x \in DOMAIN below : below[x] \in Row
    BY LenProperties, ElementOfSeq DEF NumberedForest
<1>3. /\ Places(sh, U, below) /\ Apart(below, 0) /\ InRunOrder(sh, below)
      /\ Tells(sh, U, read, below, borrowed)
      /\ \A x \in DOMAIN below : below[x].number > 0 <=> sh[below[x].pk].role = "numbered"
    BY DEF NumberedForest
<1>4. /\ Collapses(p, below) => Group(sh, p) = {p} \cup below[1].pks /\ 1 \in DOMAIN below
      /\ ~Collapses(p, below) => Group(sh, p) = {p}
      /\ Collapses(p, below) => Alone(sh, p) /\ Len(below) = 1
  <2>1. Collapses(p, below) => Len(below) = 1
    BY DEF Collapses
  <2>2. /\ Collapses(p, below) <=> Alone(sh, p) /\ Beneath(sh, p) # {}
        /\ Collapses(p, below) => Group(sh, p) = {p} \cup below[1].pks
        /\ ~Collapses(p, below) => Group(sh, p) = {p}
    BY CollapseIsAlone
  <2>3. Len(below) = 1 => 1 \in DOMAIN below
    BY <1>2
  <2> QED BY <2>1, <2>2, <2>3, Zenon
<1>5. state \in States /\ lent \subseteq Alive
  <2>1. state \in States
    BY DEF ReadTree
  <2>2. borrowed \subseteq Alive
    BY <1>3 DEF Tells
  <2>3. Collapses(p, below) => below[1].state \in States
    BY <1>2, <1>4 DEF Row
  <2> QED BY <2>1, <2>2, <2>3, NothingDeadIsLent
<1>6. /\ row.state \in States /\ row.pks = Group(sh, p) /\ row.pk = p
      /\ row.depth = 0 /\ row.number = 0 /\ (row.wish <=> process[p].role = "numbered")
      /\ state \in Terminal => row.state = state
      /\ row.state \in Terminal => state \in Terminal
      /\ state \notin Terminal /\ "paused" \in {state} \cup lent => row.state = "paused"
      /\ row.wish \in BOOLEAN
  <2>1. state \notin Terminal => /\ MostAdvanced({state} \cup lent) \in Alive
                                 /\ "paused" \in {state} \cup lent =>
                                       MostAdvanced({state} \cup lent) = "paused"
    <3> SUFFICES ASSUME state \notin Terminal
                 PROVE  /\ MostAdvanced({state} \cup lent) \in Alive
                        /\ "paused" \in {state} \cup lent =>
                              MostAdvanced({state} \cup lent) = "paused"
      OBVIOUS
    <3>1. {state} \cup lent \subseteq Alive
      BY <1>5, NothingDeadIsLent
    <3> HIDE DEF lent, state
    <3> QED BY <3>1, PausedIsMostAdvanced
  <2>2. row.pks = Group(sh, p)
    BY <1>4
  <2> HIDE DEF lent
  <2> QED BY <1>5, <2>1, <2>2, NothingDeadIsLent DEF States
<1>7. row \in Row
  <2>1. row = [pk |-> p, pks |-> row.pks, wish |-> row.wish, number |-> 0,
               state |-> row.state, depth |-> 0]
    OBVIOUS
  <2>2. Group(sh, p) \subseteq Nat
    BY <1>1, GroupIsUnder DEF IsTree
  <2>3. row.pks \in SUBSET Nat
    BY <1>6, <2>2
  <2> HIDE DEF row
  <2> QED BY <1>1, <1>6, <2>1, <2>3 DEF Row
<1>8. /\ m \in Nat /\ \A i \in 1 .. m : i \in DOMAIN below /\ ~Collapses(p, below)
      /\ \A i \in DOMAIN below : ~Collapses(p, below) => i \in 1 .. m
    BY <1>2
<1>9. \A i \in 1 .. m :
         /\ tail[i] \in Row /\ tail[i].depth = below[i].depth + 1
         /\ tail[i].pk = below[i].pk /\ tail[i].pks = below[i].pks
         /\ tail[i].state = below[i].state /\ tail[i].number = below[i].number
         /\ tail[i].depth \in Nat /\ tail[i].depth >= 1 /\ below[i].depth \in Nat
  <2> HIDE DEF m
  <2> SUFFICES ASSUME NEW i \in 1 .. m
               PROVE  /\ tail[i] \in Row /\ tail[i].depth = below[i].depth + 1
                      /\ tail[i].pk = below[i].pk /\ tail[i].pks = below[i].pks
                      /\ tail[i].state = below[i].state /\ tail[i].number = below[i].number
                      /\ tail[i].depth \in Nat /\ tail[i].depth >= 1 /\ below[i].depth \in Nat
    OBVIOUS
  <2>1. below[i] \in Row
    BY <1>2, <1>8
  <2>2. tail[i] = [below[i] EXCEPT !.depth = @ + 1]
    OBVIOUS
  <2> HIDE DEF tail
  <2> QED BY <2>1, <2>2 DEF Row
<1>10. tail \in Seq(Row) /\ Len(tail) = m
  <2>1. tail \in [1 .. m -> Row]
    <3> HIDE DEF m
    <3> QED BY <1>9
  <2> HIDE DEF m, tail
  <2> QED BY <1>8, <2>1
<1>11. rows = <<row>> \o tail
  <2>1. IF Collapses(p, below) THEN tail = <<>>
        ELSE tail = [i \in DOMAIN below |-> [below[i] EXCEPT !.depth = @ + 1]]
    BY <1>2
  <2> HIDE DEF tail, m
  <2> QED BY <2>1, Zenon DEF RowOf
<1> HIDE DEF tail, row, m, lent, state
<1>12. /\ rows \in Seq(Row) /\ DOMAIN rows = 1 .. m + 1 /\ rows[1] = row
       /\ \A x \in 2 .. m + 1 : rows[x] = tail[x - 1] /\ x - 1 \in 1 .. m
  <2>1. <<row>> \in Seq(Row) /\ Len(<<row>>) = 1 /\ <<row>>[1] = row
    BY <1>7
  <2> PICK one : one = <<row>>
    OBVIOUS
  <2>2. one \in Seq(Row) /\ Len(one) = 1 /\ one[1] = row /\ rows = one \o tail
    BY <1>11, <2>1
  <2>3. /\ one \o tail \in Seq(Row) /\ Len(one \o tail) = 1 + m
        /\ \A i \in 1 .. 1 + m : (one \o tail)[i] = IF i <= 1 THEN one[i] ELSE tail[i - 1]
    BY <1>10, <2>2, ConcatProperties
  <2>4. rows \in Seq(Row) /\ Len(rows) = m + 1
    BY <1>8, <2>2, <2>3
  <2>5. DOMAIN rows = 1 .. m + 1
    BY <2>4, LenProperties
  <2>6. \A x \in 1 .. m + 1 : rows[x] = IF x <= 1 THEN one[x] ELSE tail[x - 1]
    BY <1>8, <2>2, <2>3
  <2> QED BY <1>8, <2>2, <2>4, <2>5, <2>6
\* A row is the first, or one that was beneath.
<1>13. ASSUME NEW x \in DOMAIN rows, x # 1
       PROVE  LET i == x - 1
              IN /\ x \in 2 .. m + 1 /\ i \in 1 .. m /\ i \in DOMAIN below
                 /\ rows[x] = tail[i]
                 /\ rows[x].depth = below[i].depth + 1 /\ rows[x].depth >= 1
                 /\ rows[x].pk = below[i].pk /\ rows[x].pks = below[i].pks
                 /\ rows[x].state = below[i].state /\ rows[x].number = below[i].number
                 /\ rows[x].depth \in Nat /\ below[i].depth \in Nat
                 /\ rows[x].pk \in U /\ rows[x].pks \subseteq U
  <2> PICK i : i = x - 1
    OBVIOUS
  <2>1. x \in 2 .. m + 1 /\ i \in 1 .. m /\ rows[x] = tail[i] /\ i \in DOMAIN below
    BY <1>8, <1>12, <1>13
  <2>2. /\ rows[x].depth = below[i].depth + 1 /\ rows[x].depth >= 1
        /\ rows[x].pk = below[i].pk /\ rows[x].pks = below[i].pks
        /\ rows[x].state = below[i].state /\ rows[x].number = below[i].number
        /\ rows[x].depth \in Nat /\ below[i].depth \in Nat
    BY <1>9, <2>1
  <2>3. below[i].pk \in U /\ below[i].pks = Group(sh, below[i].pk)
    BY <1>3, <2>1 DEF Places
  <2>4. below[i].pks \subseteq U
    <3>1. below[i].pk \in DOMAIN sh /\ p < below[i].pk
      BY <1>1, <2>3, UnderIsLater
    <3>2. Group(sh, below[i].pk) \subseteq Under(sh, below[i].pk)
      BY <3>1, GroupIsUnder
    <3>3. Under(sh, below[i].pk) \subseteq Under(sh, p)
      BY <1>1, <2>3, UnderIsTransitive
    <3>4. p \notin Under(sh, below[i].pk)
      <4>1. below[i].pk \in Nat
        BY <1>1, <3>1 DEF IsTree
      <4> QED BY <1>1, <3>1, <4>1, UnderIsLater
    <3> QED BY <2>3, <3>2, <3>3, <3>4
  <2> QED BY <2>1, <2>2, <2>3, <2>4
<1>14. 1 \in DOMAIN rows /\ DOMAIN rows \subseteq Nat
    BY <1>8, <1>12
<1>15. ASSUME NEW i \in DOMAIN below, ~Collapses(p, below)
       PROVE  i + 1 \in DOMAIN rows /\ i + 1 # 1 /\ rows[i + 1].pks = below[i].pks
  <2>1. i + 1 \in 2 .. m + 1 /\ i + 1 # 1 /\ (i + 1) - 1 = i /\ i + 1 \in DOMAIN rows
    BY <1>8, <1>12, <1>15
  <2> QED BY <1>13, <2>1
<1>16. Places(sh, Under(sh, p), rows)
  <2>1. ASSUME NEW x \in DOMAIN rows
        PROVE  /\ rows[x].pk \in Under(sh, p) /\ sh[rows[x].pk].role # "transparent"
               /\ rows[x].pks = Group(sh, rows[x].pk)
    <3>1. CASE x = 1
      BY <1>1, <1>6, <1>12, <3>1
    <3>2. CASE x # 1
      <4>1. /\ x - 1 \in DOMAIN below /\ rows[x].pk = below[x - 1].pk
            /\ rows[x].pks = below[x - 1].pks
        BY <1>13, <3>2
      <4> QED BY <1>3, <4>1 DEF Places
    <3> QED BY <3>1, <3>2
  <2>2. ASSUME NEW q \in Under(sh, p), sh[q].role # "transparent"
        PROVE  \E x \in DOMAIN rows : q \in rows[x].pks
    <3>1. CASE q \in Group(sh, p)
      BY <1>6, <1>12, <1>14, <3>1
    <3>2. CASE q \notin Group(sh, p)
      <4>1. q \in U /\ ~Collapses(p, below)
        BY <1>4, <2>2, <3>2 DEF Group, Beneath
      <4>2. PICK i \in DOMAIN below : q \in below[i].pks
        BY <1>3, <2>2, <4>1 DEF Places
      <4> QED BY <1>15, <4>1, <4>2
    <3> QED BY <3>1, <3>2
  <2>3. ASSUME NEW x \in DOMAIN rows, NEW y \in DOMAIN rows, x # y
        PROVE  rows[x].pks \cap rows[y].pks = {}
    <3>1. ASSUME NEW z \in DOMAIN rows, z # 1
          PROVE  rows[1].pks \cap rows[z].pks = {}
      <4>1. rows[z].pks \subseteq U /\ z - 1 \in 1 .. m
        BY <1>13, <3>1
      <4>2. rows[1].pks = {p}
        BY <1>4, <1>6, <1>8, <1>12, <4>1
      <4> QED BY <4>1, <4>2
    <3>2. CASE x = 1 \/ y = 1
      BY <2>3, <3>1, <3>2
    <3>3. CASE x # 1 /\ y # 1
      <4>1. /\ x - 1 \in DOMAIN below /\ rows[x].pks = below[x - 1].pks
            /\ y - 1 \in DOMAIN below /\ rows[y].pks = below[y - 1].pks
        BY <1>13, <3>3
      <4>2. x - 1 # y - 1
        BY <1>14, <2>3
      <4> QED BY <1>3, <4>1, <4>2 DEF Places
    <3> QED BY <3>2, <3>3
  <2> QED BY <2>1, <2>2, <2>3 DEF Places
<1>17. Apart(rows, 1)
  <2> SUFFICES ASSUME NEW x \in DOMAIN rows, NEW y \in DOMAIN rows, x < y, rows[x].number > 0,
                      rows[x].depth >= 1, rows[x].depth = rows[y].depth,
                      \A z \in x .. y : rows[z].depth >= rows[x].depth
               PROVE  rows[x].number # rows[y].number
    BY DEF Apart
  <2>1. x # 1 /\ y # 1
    BY <1>6, <1>12, <1>14
  <2> PICK i, j : i = x - 1 /\ j = y - 1
    OBVIOUS
  <2>2. /\ i \in DOMAIN below /\ j \in DOMAIN below
        /\ rows[x].depth = below[i].depth + 1 /\ rows[y].depth = below[j].depth + 1
        /\ below[i].depth \in Nat /\ below[j].depth \in Nat
        /\ rows[x].number = below[i].number /\ rows[y].number = below[j].number
    BY <1>13, <2>1
  <2>3. i < j /\ i \in 1 .. m /\ j \in 1 .. m
    BY <1>13, <1>14, <2>1
  <2>4. ASSUME NEW k \in i .. j
        PROVE  below[k].depth >= below[i].depth
    <3> PICK z : z = k + 1
      OBVIOUS
    <3>1. z - 1 = k /\ z \in 2 .. m + 1
      BY <1>8, <2>3
    <3>2. z \in x .. y /\ z # 1 /\ z \in DOMAIN rows
      BY <1>12, <1>14, <2>3, <3>1
    <3>3. rows[z].depth = below[k].depth + 1 /\ below[k].depth \in Nat
      BY <1>13, <3>1, <3>2
    <3> QED BY <2>2, <3>2, <3>3
  <2>5. below[i].depth >= 0 /\ below[i].depth = below[j].depth
    <3>1. below[i].depth + 1 = below[j].depth + 1
      BY <2>2, Zenon
    <3> QED BY <2>2, <3>1
  <2> QED BY <1>3, <2>2, <2>3, <2>4, <2>5 DEF Apart
<1>18. Numbers(sh, rows)
  <2>1. ASSUME NEW x \in DOMAIN rows
        PROVE  IF rows[x].depth = 0
               THEN rows[x].number = 0 /\ (rows[x].wish <=> sh[rows[x].pk].role = "numbered")
               ELSE rows[x].number > 0 <=> sh[rows[x].pk].role = "numbered"
    <3>1. CASE x = 1
      BY <1>1, <1>6, <1>12, <3>1
    <3>2. CASE x # 1
      <4>1. /\ rows[x].depth # 0 /\ x - 1 \in DOMAIN below
            /\ rows[x].number = below[x - 1].number /\ rows[x].pk = below[x - 1].pk
        BY <1>13, <3>2
      <4> QED BY <1>3, <4>1
    <3> QED BY <3>1, <3>2
  <2>2. rows[1].depth = 0
    BY <1>6, <1>12
  <2> QED BY <2>1, <2>2 DEF Numbers
<1>19. InRunOrder(sh, rows)
  <2> SUFFICES ASSUME NEW x \in DOMAIN rows, NEW y \in DOMAIN rows, x < y,
                      sh[rows[x].pk].up = sh[rows[y].pk].up
               PROVE  MayPrecede(sh, rows[x].pk, rows[y].pk)
    BY DEF InRunOrder
  <2>1. y # 1
    BY <1>12, <1>14
  <2>2. CASE x = 1
    <3>1. rows[x].pk = p /\ rows[y].pk \in U
      BY <1>6, <1>12, <1>13, <2>1, <2>2
    <3>2. p < rows[y].pk /\ p \in Nat /\ rows[y].pk \in Nat
      BY <1>1, <3>1, UnderIsLater DEF IsTree
    <3> QED BY <3>1, <3>2 DEF MayPrecede
  <2>3. CASE x # 1
    <3>1. /\ x - 1 \in DOMAIN below /\ y - 1 \in DOMAIN below
          /\ rows[x].pk = below[x - 1].pk /\ rows[y].pk = below[y - 1].pk
      BY <1>13, <2>1, <2>3
    <3>2. x - 1 < y - 1
      BY <1>14
    <3> QED BY <1>3, <3>1, <3>2 DEF InRunOrder
  <2> QED BY <2>2, <2>3
<1>20. Tells(sh, Under(sh, p), read, rows, {})
  <2>1. ASSUME NEW x \in DOMAIN rows
        PROVE  /\ read[rows[x].pk].state \in Terminal => rows[x].state = read[rows[x].pk].state
               /\ rows[x].state \in Terminal => read[rows[x].pk].state \in Terminal
    <3>1. CASE x = 1
      BY <1>6, <1>12, <3>1 DEF state
    <3>2. CASE x # 1
      <4>1. /\ x - 1 \in DOMAIN below /\ rows[x].pk = below[x - 1].pk
            /\ rows[x].state = below[x - 1].state
        BY <1>13, <3>2
      <4> QED BY <1>3, <4>1 DEF Tells
    <3> QED BY <3>1, <3>2
  <2>2. ASSUME NEW q \in Under(sh, p), read[q].state = "paused"
        PROVE  /\ \A x \in DOMAIN rows : \A a \in rows[x].pks :
                     Nearest(sh, a, q) => rows[x].state = "paused"
               /\ PassedOver(sh, Under(sh, p), q) => "paused" \in {}
    <3>0. sh[p].role # "transparent"
      BY <1>1
    <3>1. q \in U => /\ \A x \in DOMAIN below : \A a \in below[x].pks :
                           Nearest(sh, a, q) => below[x].state = "paused"
                     /\ PassedOver(sh, U, q) => "paused" \in borrowed
      BY <1>3, <2>2 DEF Tells
    \* Nobody above a process that is paused was over when it was read.
    <3>2. ASSUME NEW a \in Under(sh, p), q \in Under(sh, a)
          PROVE  read[a].state \notin Terminal
      <4> SUFFICES ASSUME read[a].state \in Terminal PROVE FALSE
        OBVIOUS
      <4> DEFINE T == {d \in DOMAIN sh : read[d].state \in Terminal}
      <4>1. a \in T /\ a \in DOMAIN sh
        BY <1>1
      <4>2. ASSUME NEW d \in DOMAIN sh, sh[d].up \in T
            PROVE  d \in T
        <5>1. d # Root
          BY <1>1, <4>2 DEF IsTree
        <5> QED BY <1>1, <4>2, <5>1 DEF ReadTree
      <4> HIDE DEF T
      <4>3. q \in T
        BY <3>2, <4>1, <4>2, UnderIsLeast
      <4>4. read[q].state \in Terminal
        BY <4>3 DEF T
      <4> QED BY <2>2, <4>4 DEF Terminal
    <3>3. ASSUME NEW x \in DOMAIN rows, NEW a \in rows[x].pks, Nearest(sh, a, q)
          PROVE  rows[x].state = "paused"
      <4>1. CASE x # 1
        <5>1. x - 1 \in DOMAIN below /\ a \in below[x - 1].pks /\ rows[x].state = below[x - 1].state
          BY <1>13, <4>1
        <5>2. q \in U
          <6>1. a \in U
            BY <1>13, <4>1
          <6>2. q \in Under(sh, a) /\ a \in Under(sh, p) /\ a # p /\ a \in DOMAIN sh
            BY <1>1, <3>3, <6>1 DEF Nearest
          <6>3. p < a /\ a <= q /\ a \in Nat
            BY <1>1, <6>2, UnderIsLater DEF IsTree
          <6> QED BY <1>1, <6>3
        <5> QED BY <3>1, <3>3, <5>1, <5>2
      <4>2. CASE x = 1
        <5>1. rows[x].state = row.state /\ a \in Group(sh, p)
          BY <1>6, <1>12, <4>2
        <5>2. state \notin Terminal
          BY <1>1, <3>2 DEF state
        <5> SUFFICES "paused" \in {state} \cup lent
          BY <1>6, <5>1, <5>2
        <5>3. CASE q = p
          BY <2>2, <5>3 DEF state
        <5>4. CASE q # p /\ a = p
          <6>1. PassedOver(sh, U, q)
            BY <3>3, <5>4 DEF Nearest, PassedOver
          <6> QED BY <3>1, <5>4, <6>1 DEF lent
        <5>5. CASE q # p /\ a # p
          <6>1. Collapses(p, below) /\ a \in below[1].pks /\ 1 \in DOMAIN below
            BY <1>4, <5>1, <5>5
          <6>2. below[1].state = "paused"
            BY <3>1, <3>3, <5>5, <6>1
          <6>3. Promoted("paused") = "paused"
            BY DEF Promoted, Terminal
          <6> QED BY <6>1, <6>2, <6>3 DEF lent
        <5> QED BY <5>3, <5>4, <5>5
      <4> QED BY <4>1, <4>2
    <3>4. ~PassedOver(sh, Under(sh, p), q)
      BY <1>1, <3>0 DEF PassedOver
    <3> QED BY <3>3, <3>4
  <2> QED BY <2>1, <2>2, Zenon DEF Tells
<1>21. \A x \in DOMAIN rows : rows[x].depth = 0 => rows[x].pk = p
    BY <1>6, <1>12, <1>13
<1> QED BY <1>12, <1>16, <1>17, <1>18, <1>19, <1>20, <1>21 DEF Forest

-----------------------------------------------------------------------------
(* The table of a tree that was read.                                      *)

\* A process without a row leaves its rows to its caller, and its state.
LEMMA PassedOverIsAForest ==
    ASSUME ProcessTree, NEW read, ReadTree(read), NEW p \in DOMAIN read,
           NEW sh, sh = Shape(DOMAIN read), process[p].role = "transparent",
           NEW rows, NEW borrowed, Forest(sh, Under(sh, p) \ {p}, read, rows, borrowed)
    PROVE  Forest(sh, Under(sh, p), read, rows,
                  {MostAdvanced({Promoted(read[p].state)} \cup borrowed)})
<1> DEFINE U == Under(sh, p) \ {p}
<1>1. /\ IsTree(sh) /\ DOMAIN sh = DOMAIN read /\ p \in Under(sh, p)
      /\ sh[p].role = "transparent"
    BY ShapeOfReadTree, UnderIsClosed
<1>2. /\ rows \in Seq(Row) /\ Places(sh, U, rows) /\ Apart(rows, 1) /\ Numbers(sh, rows)
      /\ InRunOrder(sh, rows) /\ Tells(sh, U, read, rows, borrowed)
    BY DEF Forest
<1>3. Places(sh, Under(sh, p), rows)
    BY <1>1, <1>2 DEF Places
<1> PICK most : most = MostAdvanced({Promoted(read[p].state)} \cup borrowed)
    OBVIOUS
<1>4. /\ most \in Alive
      /\ "paused" \in borrowed \/ read[p].state = "paused" => most = "paused"
  <2> DEFINE lent == {Promoted(read[p].state)} \cup borrowed
  <2>1. read[p].state \in States /\ borrowed \subseteq Alive
    BY <1>2 DEF Tells, ReadTree
  <2>2. /\ lent \subseteq Alive /\ lent # {}
        /\ "paused" \in borrowed \/ read[p].state = "paused" => "paused" \in lent
    BY <2>1, NothingDeadIsLent
  <2> HIDE DEF lent
  <2>3. /\ MostAdvanced(lent) \in Alive
        /\ "paused" \in lent => MostAdvanced(lent) = "paused"
    BY <2>2, PausedIsMostAdvanced
  <2> QED BY <2>2, <2>3 DEF lent
<1>5. Tells(sh, Under(sh, p), read, rows, {most})
  <2>1. ASSUME NEW q \in Under(sh, p), read[q].state = "paused"
        PROVE  /\ \A x \in DOMAIN rows : \A a \in rows[x].pks :
                     Nearest(sh, a, q) => rows[x].state = "paused"
               /\ PassedOver(sh, Under(sh, p), q) => "paused" \in {most}
    <3>1. CASE q = p
      <4>1. ASSUME NEW x \in DOMAIN rows, NEW a \in rows[x].pks, Nearest(sh, a, q)
            PROVE  FALSE
        <5>1. /\ rows[x].pk \in Under(sh, p) \ {p} /\ rows[x].pks = Group(sh, rows[x].pk)
              /\ rows[x].pk \in DOMAIN sh
          BY <1>1, <1>2, UnderIsClosed DEF Places
        <5>2. a \in Under(sh, rows[x].pk) /\ a \in DOMAIN sh
          BY <5>1, GroupIsUnder, UnderIsClosed
        <5>3. p < rows[x].pk /\ rows[x].pk <= a /\ a <= p
          BY <1>1, <3>1, <4>1, <5>1, <5>2, UnderIsLater DEF Nearest
        <5>4. p \in Nat /\ rows[x].pk \in Nat /\ a \in Nat
          BY <1>1, <5>1, <5>2 DEF IsTree
        <5> QED BY <5>3, <5>4
      <4>2. most = "paused"
        BY <1>4, <2>1, <3>1
      <4> QED BY <4>1, <4>2
    <3>2. CASE q # p
      <4>1. /\ \A x \in DOMAIN rows : \A a \in rows[x].pks :
                  Nearest(sh, a, q) => rows[x].state = "paused"
            /\ PassedOver(sh, U, q) => "paused" \in borrowed
        BY <1>2, <2>1, <3>2 DEF Tells
      <4>2. PassedOver(sh, Under(sh, p), q) => PassedOver(sh, U, q)
        BY DEF PassedOver
      <4> QED BY <1>4, <4>1, <4>2
    <3> QED BY <3>1, <3>2
  <2>2. {most} \subseteq Alive
    BY <1>4
  <2>3. \A x \in DOMAIN rows :
           /\ read[rows[x].pk].state \in Terminal => rows[x].state = read[rows[x].pk].state
           /\ rows[x].state \in Terminal => read[rows[x].pk].state \in Terminal
    BY <1>2 DEF Tells
  <2> QED BY <2>1, <2>2, <2>3, Zenon DEF Tells
<1>6. Forest(sh, Under(sh, p), read, rows, {most})
    BY <1>2, <1>3, <1>5 DEF Forest
<1> QED BY <1>6

\* By induction from the last process to the first.
LEMMA EveryProcessHasAForest ==
    ASSUME ProcessTree, NEW read, ReadTree(read), NEW sh, sh = Shape(DOMAIN read),
           NEW c, c = [p \in DOMAIN read |-> Collected(c, read, p)]
    PROVE  \A p \in DOMAIN read : Forest(sh, Under(sh, p), read, c[p].rows, c[p].lent)
<1> DEFINE B == {p \in DOMAIN read : ~Forest(sh, Under(sh, p), read, c[p].rows, c[p].lent)}
<1> SUFFICES ASSUME B # {} PROVE FALSE
    OBVIOUS
<1>1. PICK p \in B : \A q \in B : q <= p
  <2>1. Len(process) \in Nat /\ B \subseteq 0 .. Len(process)
    <3>1. Len(process) \in Nat /\ DOMAIN process = 1 .. Len(process)
      BY ProcessesAreNumbers
    <3>2. B \subseteq DOMAIN process
      BY DEF ReadTree
    <3> HIDE DEF B
    <3> QED BY <3>1, <3>2
  <2> HIDE DEF B
  <2> QED BY <2>1, GreatestNumber
<1>2. p \in DOMAIN read
    OBVIOUS
<1>3. \A k \in read[p].kids : k \in DOMAIN read /\ p < k /\ k \in Nat /\ p \in Nat
  <2>1. p \in Nat \ {0}
    BY <1>2, ProcessesAreNumbers DEF ReadTree
  <2>2. \A k \in read[p].kids : k \in DOMAIN read /\ process[k].parent = p /\ k \in DOMAIN process
    BY <1>2 DEF ReadTree
  <2>3. \A k \in DOMAIN process : k \in Nat
    BY ProcessesAreNumbers
  <2> QED BY <2>1, <2>2, <2>3 DEF ProcessTree
<1>4. \A k \in read[p].kids : Forest(sh, Under(sh, k), read, c[k].rows, c[k].lent)
  <2> SUFFICES ASSUME NEW k \in read[p].kids, k \in B PROVE FALSE
    BY <1>3
  <2>1. k <= p
    BY <1>1
  <2> QED BY <1>3, <2>1
<1> HIDE DEF B
<1> PICK kids : kids = OrderedChildren(read[p].kids)
    OBVIOUS
<1> PICK below, borrowed : below = Below(c, kids) /\ borrowed = Borrowed(c, kids)
    OBVIOUS
<1>5. Forest(sh, Under(sh, p) \ {p}, read, below, borrowed)
    BY <1>2, <1>4, ForestsInARow
<1>6. c[p] = IF process[p].role = "transparent"
             THEN [rows |-> below,
                   lent |-> {MostAdvanced({Promoted(read[p].state)} \cup borrowed)}]
             ELSE [rows |-> RowOf(p, read[p].state, NumberSiblings(below), borrowed), lent |-> {}]
  <2>1. c[p] = Collected(c, read, p)
    BY <1>2
  <2> QED BY <2>1, Zenon DEF Collected
<1>7. Forest(sh, Under(sh, p), read, c[p].rows, c[p].lent)
  <2>1. CASE process[p].role = "transparent"
    <3>1. /\ c[p].rows = below
          /\ c[p].lent = {MostAdvanced({Promoted(read[p].state)} \cup borrowed)}
      BY <1>6, <2>1
    <3>2. Forest(sh, Under(sh, p), read, below,
                 {MostAdvanced({Promoted(read[p].state)} \cup borrowed)})
      BY <1>2, <1>5, <2>1, PassedOverIsAForest
    <3> QED BY <3>1, <3>2, Zenon
  <2>2. CASE process[p].role # "transparent"
    <3> PICK rows : rows = RowOf(p, read[p].state, NumberSiblings(below), borrowed)
      OBVIOUS
    <3>1. c[p].rows = rows /\ c[p].lent = {}
      BY <1>6, <2>2
    <3>2. NumberedForest(sh, Under(sh, p) \ {p}, read, NumberSiblings(below), borrowed)
      BY <1>5, SiblingsAreNumbered
    <3>3. Forest(sh, Under(sh, p), read, rows, {})
      BY <1>2, <2>2, <3>2, RowAboveOthers
    <3> QED BY <3>1, <3>3, Zenon
  <2> QED BY <2>1, <2>2
<1> QED BY <1>1, <1>7 DEF B

\* All processes are under the root.
LEMMA AllUnderRoot ==
    ASSUME NEW sh, IsTree(sh)
    PROVE  Under(sh, Root) = DOMAIN sh
<1> DEFINE B == DOMAIN sh \ Under(sh, Root)
<1>1. Root \in DOMAIN sh /\ DOMAIN sh \subseteq Nat \ {0}
    BY DEF IsTree
<1>2. ASSUME B # {} PROVE FALSE
  <2>1. PICK p \in B : \A q \in B : p <= q
    BY <1>1, <1>2, LeastNumber
  <2>2. p # Root
    BY <1>1, <2>1, UnderIsClosed
  <2>3. sh[p].up \in DOMAIN sh /\ sh[p].up < p
    BY <2>1, <2>2 DEF IsTree
  <2>4. sh[p].up \in Under(sh, Root)
    <3> SUFFICES ASSUME sh[p].up \in B PROVE FALSE
      BY <2>3
    <3>1. p <= sh[p].up /\ p \in Nat /\ sh[p].up \in Nat
      BY <1>1, <2>1, <2>3
    <3> QED BY <2>3, <3>1
  <2> QED BY <1>1, <2>1, <2>4, UnderIsClosed
<1> QED BY <1>1, <1>2, UnderIsClosed

\* The rows t show the processes of S, a part of the tree.
TableOf(S, t) ==
    /\ S \subseteq DOMAIN process /\ IsTree(Shape(S))
    /\ \A p \in S : process[p].role # "function"
    /\ t \in Seq(Row) /\ Places(Shape(S), S, t) /\ Apart(t, 1)
    /\ Numbers(Shape(S), t) /\ InRunOrder(Shape(S), t)
    /\ \A x \in DOMAIN t : t[x].depth = 0 => t[x].pk = Root

\* What _collect_rows makes of a tree that was read is the table of that tree.
LEMMA RowsOfATree ==
    ASSUME ProcessTree, NEW read, ReadTree(read)
    PROVE  /\ TableOf(DOMAIN read, CollectRows(read))
           /\ Tells(Shape(DOMAIN read), DOMAIN read, read, CollectRows(read), {})
<1> PICK sh : sh = Shape(DOMAIN read)
    OBVIOUS
<1> PICK t : t = CollectRows(read)
    OBVIOUS
<1>1. /\ IsTree(sh) /\ DOMAIN sh = DOMAIN read /\ Root \in DOMAIN read
      /\ process[Root].role # "transparent"
  <2>1. process[Root].role # "transparent"
    BY DEF ProcessTree
  <2> QED BY <2>1, ShapeOfReadTree DEF ReadTree
<1>2. PICK c : c = [p \in DOMAIN read |-> Collected(c, read, p)] /\ t = c[Root].rows
    BY CollectUnfolds
<1>3. \A p \in DOMAIN read : Forest(sh, Under(sh, p), read, c[p].rows, c[p].lent)
    BY <1>2, EveryProcessHasAForest
<1> PICK kids : kids = OrderedChildren(read[Root].kids)
    OBVIOUS
<1> PICK below, borrowed : below = NumberSiblings(Below(c, kids)) /\ borrowed = Borrowed(c, kids)
    OBVIOUS
<1>4. t = RowOf(Root, read[Root].state, below, borrowed)
  <2>1. c[Root] = Collected(c, read, Root)
    BY <1>1, <1>2
  <2>2. c[Root] = [rows |-> RowOf(Root, read[Root].state, below, borrowed), lent |-> {}]
    BY <1>1, <2>1, Zenon DEF Collected
  <2> QED BY <1>2, <2>2
<1>5. NumberedForest(sh, Under(sh, Root) \ {Root}, read, below, borrowed)
  <2>1. \A k \in read[Root].kids : Forest(sh, Under(sh, k), read, c[k].rows, c[k].lent)
    BY <1>1, <1>3 DEF ReadTree
  <2>2. Forest(sh, Under(sh, Root) \ {Root}, read, Below(c, kids), borrowed)
    BY <1>1, <2>1, ForestsInARow
  <2> QED BY <2>2, SiblingsAreNumbered
<1>6. /\ Forest(sh, Under(sh, Root), read, t, {})
      /\ \A x \in DOMAIN t : t[x].depth = 0 => t[x].pk = Root
    BY <1>1, <1>4, <1>5, RowAboveOthers
<1>7. Under(sh, Root) = DOMAIN read
    BY <1>1, AllUnderRoot
<1>8. Forest(sh, DOMAIN read, read, t, {})
    BY <1>6, <1>7
<1>9. TableOf(DOMAIN read, t)
    BY <1>1, <1>6, <1>8 DEF TableOf, Forest, ReadTree
<1>10. Tells(sh, DOMAIN read, read, t, {})
    BY <1>8 DEF Forest
<1> QED BY <1>9, <1>10

-----------------------------------------------------------------------------
(* What the table of a part of the tree has of the properties.             *)

\* The processes that have a row are those the shape of the tree says.
LEMMA RowsAreWhoStays ==
    ASSUME NEW S, NEW t, TableOf(S, t)
    PROVE  Rows(t) = Stay(Shape(S))
<1> PICK sh : sh = Shape(S)
    OBVIOUS
<1>1. IsTree(sh) /\ DOMAIN sh = S /\ Places(sh, S, t)
    BY DEF TableOf, Shape
<1>2. ASSUME NEW x \in DOMAIN t
      PROVE  t[x].pk \in Stay(sh)
  <2> PICK b : b = t[x].pk
    OBVIOUS
  <2>1. b \in S /\ sh[b].role # "transparent" /\ t[x].pks = Group(sh, b) /\ b \in t[x].pks
    BY <1>1, GroupIsUnder DEF Places
  <2>2. ASSUME NEW a \in DOMAIN sh \ {b}, sh[a].role # "transparent", b \in Group(sh, a)
        PROVE  FALSE
    <3>1. b \in Under(sh, a) /\ a < b /\ a \in Nat /\ b \in Nat
      BY <1>1, <2>1, <2>2, GroupIsUnder, UnderIsLater DEF IsTree
    <3>2. PICK y \in DOMAIN t : a \in t[y].pks
      BY <1>1, <2>2 DEF Places
    <3> PICK e : e = t[y].pk
      OBVIOUS
    <3>3. e \in S /\ t[y].pks = Group(sh, e) /\ a \in Under(sh, e) /\ e <= a /\ e \in Nat
      BY <1>1, <3>2, GroupIsUnder, UnderIsLater DEF Places, IsTree
    <3>4. b \in t[y].pks
      <4>1. CASE a = e
        BY <2>2, <3>3, <4>1
      <4>2. CASE a # e
        <5>1. Alone(sh, e)
          BY <3>2, <3>3, <4>2 DEF Group
        <5>2. b \in Under(sh, e) /\ b # e
          BY <1>1, <3>1, <3>3, UnderIsTransitive
        <5> QED BY <2>1, <3>3, <5>1, <5>2 DEF Group, Beneath
      <4> QED BY <4>1, <4>2
    <3>5. y = x
      BY <1>1, <2>1, <3>4 DEF Places
    <3> QED BY <3>1, <3>3, <3>5
  <2> QED BY <1>1, <2>1, <2>2 DEF Stay
<1>3. ASSUME NEW q \in Stay(sh)
      PROVE  \E x \in DOMAIN t : t[x].pk = q
  <2>1. q \in S /\ sh[q].role # "transparent"
    BY <1>1, <1>3 DEF Stay
  <2>2. PICK x \in DOMAIN t : q \in t[x].pks
    BY <1>1, <2>1 DEF Places
  <2>3. /\ t[x].pk \in DOMAIN sh /\ sh[t[x].pk].role # "transparent"
        /\ q \in Group(sh, t[x].pk)
    BY <1>1, <2>2 DEF Places
  <2> QED BY <1>3, <2>3 DEF Stay
<1> QED BY <1>2, <1>3 DEF Rows

\* A table of more of the tree has the rows of a table of less.
LEMMA MoreHasTheRows ==
    ASSUME NEW S, NEW t, TableOf(S, t), NEW T, NEW u, TableOf(T, u), S \subseteq T
    PROVE  Rows(t) \subseteq Rows(u)
<1>1. IsTree(Shape(S)) /\ IsTree(Shape(T)) /\ DOMAIN Shape(S) = S /\ DOMAIN Shape(T) = T
    BY DEF TableOf, Shape
<1>2. \A q \in S : Shape(T)[q] = Shape(S)[q]
    BY DEF Shape
<1>3. Stay(Shape(S)) \subseteq Stay(Shape(T))
    BY <1>1, <1>2, StayGrows
<1> QED BY <1>3, RowsAreWhoStays

\* A table has the numbers that NumbersTellApart asks for ...
LEMMA NumbersOfATable ==
    ASSUME ProcessTree, NEW S, TableOf(S, table)
    PROVE  NumbersTellApart
<1> PICK sh : sh = Shape(S)
    OBVIOUS
<1>1. /\ DOMAIN sh = S /\ \A q \in S : sh[q].role = process[q].role
      /\ Places(sh, S, table) /\ Apart(table, 1) /\ Numbers(sh, table)
      /\ \A x \in DOMAIN table : table[x].depth = 0 => table[x].pk = Root
      /\ table \in Seq(Row)
    BY DEF TableOf, Shape
<1>2. \A x \in DOMAIN table : table[x].depth \in Nat /\ table[x].number \in Nat
  <2>1. \A x \in DOMAIN table : table[x] \in Row
    BY <1>1, ElementOfSeq, LenProperties
  <2> QED BY <2>1 DEF Row
<1>3. process[Root].role # "numbered"
    BY DEF ProcessTree
<1>4. ASSUME NEW i \in DOMAIN table, NEW p \in table[i].pks, process[p].role = "numbered"
      PROVE  p = table[i].pk /\ table[i].number > 0
  <2>1. table[i].pk \in S /\ p \in Group(sh, table[i].pk)
    BY <1>1 DEF Places
  <2>2. p \in DOMAIN sh
    BY <1>1, <2>1, GroupIsUnder, UnderIsClosed
  <2>3. p = table[i].pk
    BY <1>1, <1>4, <2>1, <2>2 DEF Group, Alone
  <2>4. table[i].depth # 0
    BY <1>1, <1>3, <1>4, <2>3
  <2> QED BY <1>1, <1>4, <2>1, <2>3, <2>4 DEF Numbers
<1>5. ASSUME NEW i \in DOMAIN table, NEW j \in DOMAIN table,
             i < j, table[i].number > 0, table[i].depth = table[j].depth,
             \A k \in i .. j : table[k].depth >= table[i].depth
      PROVE  table[i].number # table[j].number
  <2>1. table[i].depth # 0
    BY <1>1, <1>5 DEF Numbers
  <2>2. table[i].depth >= 1
    BY <1>2, <2>1
  <2> QED BY <1>1, <1>5, <2>2 DEF Apart
<1> QED BY <1>4, <1>5 DEF NumbersTellApart

\* ... the order that RowsReadAsRun asks for ...
LEMMA RunOrderOfATable ==
    ASSUME ProcessTree, NEW S, TableOf(S, table)
    PROVE  RowsReadAsRun
<1> PICK sh : sh = Shape(S)
    OBVIOUS
<1>1. /\ DOMAIN sh = S /\ \A q \in S : sh[q].up = process[q].parent
      /\ \A x \in DOMAIN table : table[x].pk \in S
      /\ InRunOrder(sh, table) /\ S \subseteq DOMAIN process
    BY DEF TableOf, Shape, Places
<1> SUFFICES ASSUME NEW i \in DOMAIN table, NEW j \in DOMAIN table,
                    NEW p, p = table[i].pk, NEW q, q = table[j].pk,
                    i < j, p > q, process[p].parent = process[q].parent
             PROVE  /\ process[p].label.index < process[q].label.index
                    /\ \A k \in q .. p : process[k].parent = process[p].parent /\
                                         (\E l \in DOMAIN table : table[l].pk = k) =>
                          process[k].label.family = process[p].label.family
    BY DEF RowsReadAsRun
<1>2. p \in Nat /\ q \in Nat /\ p \in S /\ q \in S
  <2>1. p \in S /\ q \in S
    BY <1>1
  <2> QED BY <1>1, <2>1, ProcessesAreNumbers
<1>3. MayPrecede(sh, p, q)
    BY <1>1 DEF InRunOrder
<1>4. /\ process[p].label.index < process[q].label.index
      /\ \A k \in Kin(sh, sh[p].up) : q <= k /\ k <= p =>
            process[k].label.family = process[p].label.family
    BY <1>2, <1>3 DEF MayPrecede
<1>5. ASSUME NEW k \in q .. p, process[k].parent = process[p].parent,
             NEW l \in DOMAIN table, table[l].pk = k
      PROVE  process[k].label.family = process[p].label.family
  <2>1. k \in S /\ q <= k /\ k <= p
    BY <1>1, <1>2, <1>5
  <2>2. k \in Kin(sh, sh[p].up)
    BY <1>1, <1>2, <1>5, <2>1 DEF Kin
  <2> QED BY <1>4, <2>1, <2>2
<1> QED BY <1>4, <1>5

\* Stands is a recursion that ends, as the root has a row.
LEMMA StandsUnfolds ==
    ASSUME ProcessTree, NEW S, NEW t, TableOf(S, t), NEW p \in DOMAIN process
    PROVE  LET at == {i \in DOMAIN t : p \in t[i].pks}
           IN Stands(t)[p] = IF at # {} THEN CHOOSE i \in at : TRUE ELSE Stands(t)[process[p].parent]
<1> DEFINE At(q) == {i \in DOMAIN t : q \in t[i].pks}
           body(f, q) == IF At(q) # {} THEN CHOOSE i \in At(q) : TRUE ELSE f[process[q].parent]
           n == Len(process)
           UpTo(f, k) == \A q \in 1 .. n : q <= k => f[q] = body(f, q)
           K == {k \in 0 .. n : \E f : DOMAIN f = 1 .. n /\ UpTo(f, k)}
<1>1. n \in Nat /\ DOMAIN process = 1 .. n
    BY ProcessesAreNumbers
<1>2. At(Root) # {}
  <2>1. Root \in S /\ Shape(S)[Root].role # "transparent"
    BY DEF TableOf, IsTree, Shape, ProcessTree
  <2> QED BY <2>1 DEF TableOf, Places
<1>3. \A q \in 1 .. n : q # Root => process[q].parent \in 1 .. n /\ process[q].parent < q
    BY <1>1 DEF ProcessTree
<1> HIDE DEF At
<1>4. 0 \in K
  <2>1. UpTo([q \in 1 .. n |-> 0], 0)
    <3>1. \A q \in 1 .. n : ~(q <= 0)
      BY <1>1
    <3> QED BY <3>1, Zenon
  <2>2. DOMAIN [q \in 1 .. n |-> 0] = 1 .. n /\ 0 \in 0 .. n
    BY <1>1
  <2> HIDE DEF UpTo, n
  <2> QED BY <2>1, <2>2
<1>5. ASSUME NEW k \in 0 .. n - 1, k \in K
      PROVE  k + 1 \in K
  <2>1. PICK f : DOMAIN f = 1 .. n /\ UpTo(f, k)
    BY <1>5
  <2> DEFINE m == k + 1
             g == [q \in 1 .. n |-> IF q = m THEN body(f, m) ELSE f[q]]
  <2>2. m \in 1 .. n /\ m \in 0 .. n
    BY <1>1
  <2>3. ASSUME NEW q \in 1 .. n, q <= m
        PROVE  g[q] = body(g, q)
    <3>1. body(g, q) = body(f, q)
      <4>1. CASE At(q) # {}
        BY <4>1
      <4>2. CASE At(q) = {}
        <5>1. process[q].parent \in 1 .. n /\ process[q].parent < q
          BY <1>2, <1>3, <4>2
        <5>2. process[q].parent # m
          BY <1>1, <2>2, <2>3, <5>1
        <5>3. g[process[q].parent] = f[process[q].parent]
          BY <5>1, <5>2
        <5> QED BY <4>2, <5>3
      <4> QED BY <4>1, <4>2
    <3>2. CASE q = m
      BY <3>1, <3>2
    <3>3. CASE q # m
      <4>1. q <= k
        BY <1>1, <2>3, <3>3
      <4>2. f[q] = body(f, q)
        BY <2>1, <4>1
      <4> QED BY <3>1, <3>3, <4>2
    <3> QED BY <3>2, <3>3
  <2>4. UpTo(g, m) /\ DOMAIN g = 1 .. n
    BY <2>3
  <2> HIDE DEF g, UpTo
  <2> QED BY <2>2, <2>4
<1>6. n \in K
  <2> HIDE DEF K
  <2>1. \A k \in 0 .. n : k \in K
    BY <1>1, <1>4, <1>5, Counting
  <2> QED BY <1>1, <2>1
<1>7. PICK f : DOMAIN f = 1 .. n /\ UpTo(f, n)
    BY <1>6
<1>8. \E g : g = [q \in DOMAIN process |-> body(g, q)]
  <2> PICK g : g = [q \in 1 .. n |-> f[q]]
    OBVIOUS
  <2>1. ASSUME NEW q \in 1 .. n PROVE g[q] = body(g, q)
    <3>1. f[q] = body(f, q)
      BY <1>1, <1>7
    <3>2. At(q) = {} => g[process[q].parent] = f[process[q].parent]
      BY <1>2, <1>3
    <3> QED BY <3>1, <3>2
  <2>2. g = [q \in DOMAIN process |-> body(g, q)]
    BY <1>1, <2>1
  <2> QED BY <2>2
<1> DEFINE stand == CHOOSE g : g = [q \in DOMAIN process |-> body(g, q)]
<1>9. stand = [q \in DOMAIN process |-> body(stand, q)]
    BY <1>8
<1>10. Stands(t) = stand
    BY DEF Stands, At
<1> PICK s : s = Stands(t)
    OBVIOUS
<1> HIDE DEF stand
<1>11. s = [q \in DOMAIN process |-> body(s, q)]
    BY <1>9, <1>10
<1>12. s[p] = body(s, p)
    BY <1>11
<1> QED BY <1>12 DEF At

\* The row that stands for a process is that of the first above it that is not
\* passed over.
LEMMA StandsForTheNearest ==
    ASSUME ProcessTree, NEW S, NEW t, TableOf(S, t), NEW sh, sh = Shape(S)
    PROVE  \A q \in S : /\ Stands(t)[q] \in DOMAIN t
                        /\ \E a \in t[Stands(t)[q]].pks : Nearest(sh, a, q)
<1> PICK stand : stand = Stands(t)
    OBVIOUS
<1> DEFINE B == {q \in S : ~(/\ stand[q] \in DOMAIN t
                             /\ \E a \in t[stand[q]].pks : Nearest(sh, a, q))}
<1> SUFFICES ASSUME B # {} PROVE FALSE
    OBVIOUS
<1>1. /\ IsTree(sh) /\ DOMAIN sh = S /\ Places(sh, S, t) /\ S \subseteq DOMAIN process
      /\ \A q \in S : sh[q].role = process[q].role /\ sh[q].up = process[q].parent
    BY DEF TableOf, Shape
<1>2. PICK q \in B : \A r \in B : q <= r
  <2>1. B \subseteq Nat
    BY <1>1 DEF IsTree
  <2> HIDE DEF B
  <2> QED BY <2>1, LeastNumber
<1>3. q \in S /\ q \in Nat
    BY <1>1, <1>2 DEF IsTree
<1>4. stand[q] = IF {i \in DOMAIN t : q \in t[i].pks} # {}
                 THEN CHOOSE i \in {i \in DOMAIN t : q \in t[i].pks} : TRUE
                 ELSE stand[process[q].parent]
    BY <1>1, <1>3, StandsUnfolds
<1>5. CASE sh[q].role # "transparent"
  <2>1. {i \in DOMAIN t : q \in t[i].pks} # {}
    BY <1>1, <1>3, <1>5 DEF Places
  <2>2. stand[q] \in DOMAIN t /\ q \in t[stand[q]].pks
    BY <1>4, <2>1
  <2>3. Nearest(sh, q, q)
    <3>1. q \in Under(sh, q)
      BY <1>1, <1>3, UnderIsClosed
    <3>2. ASSUME NEW d \in Under(sh, q) \ {q}, q \in Under(sh, d)
          PROVE  FALSE
      <4>1. d \in DOMAIN sh /\ d \in Nat
        BY <1>1, <1>3, UnderIsClosed DEF IsTree
      <4>2. q < d /\ d <= q
        BY <1>1, <1>3, <3>2, <4>1, UnderIsLater
      <4> QED BY <1>3, <4>1, <4>2
    <3> QED BY <1>5, <3>1, <3>2 DEF Nearest
  <2> QED BY <1>2, <2>2, <2>3
<1>6. CASE sh[q].role = "transparent"
  <2>1. ASSUME NEW i \in DOMAIN t, q \in t[i].pks
        PROVE  FALSE
    <3>1. q \in Group(sh, t[i].pk) /\ sh[t[i].pk].role # "transparent"
      BY <1>1, <2>1 DEF Places
    <3> QED BY <1>6, <3>1 DEF Group, Beneath
  <2> PICK u : u = process[q].parent
    OBVIOUS
  <2>2. stand[q] = stand[u]
    BY <1>4, <2>1
  <2>3. q # Root
    BY <1>1, <1>3, <1>6 DEF ProcessTree
  <2>4. u = sh[q].up /\ u \in S /\ u < q /\ u \in Nat
    BY <1>1, <1>3, <2>3 DEF IsTree
  <2>5. u \notin B
    BY <1>2, <1>3, <2>4
  <2>6. PICK a \in t[stand[u]].pks : Nearest(sh, a, u)
    BY <2>4, <2>5
  <2>7. stand[u] \in DOMAIN t
    BY <2>4, <2>5
  <2>8. a \in DOMAIN sh
    <3>1. t[stand[u]].pk \in DOMAIN sh /\ t[stand[u]].pks = Group(sh, t[stand[u]].pk)
      BY <1>1, <2>7 DEF Places
    <3> QED BY <2>6, <3>1, GroupIsUnder, UnderIsClosed
  <2>9. Nearest(sh, a, q)
    <3>1. q \in Under(sh, a)
      BY <1>1, <1>3, <2>4, <2>6, <2>8, UnderIsClosed DEF Nearest
    <3>2. ASSUME NEW d \in Under(sh, a) \ {a}, q \in Under(sh, d)
          PROVE  sh[d].role = "transparent"
      <4>1. CASE d = q
        BY <1>6, <4>1
      <4>2. CASE d # q
        <5>1. d \in DOMAIN sh
          BY <2>8, UnderIsClosed
        <5>2. u \in Under(sh, d)
          BY <1>1, <2>4, <3>2, <4>2, <5>1, UnderIsLater
        <5> QED BY <2>6, <5>2 DEF Nearest
      <4> QED BY <4>1, <4>2
    <3> QED BY <2>6, <3>1, <3>2 DEF Nearest
  <2> QED BY <1>2, <2>2, <2>6, <2>7, <2>9
<1> QED BY <1>5, <1>6

\* ... and shows the pauses that PausedShows asks for.
LEMMA PauseOfATable ==
    ASSUME ProcessTree, TableOf(DOMAIN seen, table),
           Tells(Shape(DOMAIN seen), DOMAIN seen, seen, table, {})
    PROVE  PausedShows
<1> PICK sh : sh = Shape(DOMAIN seen)
    OBVIOUS
<1> SUFFICES ASSUME NEW p \in DOMAIN seen, seen[p].state = "paused"
             PROVE  table[Stands(table)[p]].state = "paused"
    BY DEF PausedShows
<1>1. PICK a \in table[Stands(table)[p]].pks : Nearest(sh, a, p)
    BY StandsForTheNearest
<1>2. Stands(table)[p] \in DOMAIN table
    BY StandsForTheNearest
<1> QED BY <1>1, <1>2 DEF Tells

-----------------------------------------------------------------------------
(* The inductive invariant.                                                *)

\* No entry twice.
Distinct(s) == \A i, j \in DOMAIN s : i # j => s[i] # s[j]

\* Whom the walk has read or has still to read.
Found == DOMAIN seen \cup ToSet(todo)

\* The walk has read the callers of those it has found, and found all of those
\* it has noted as called. What was over when it was read is over, and so is all
\* that it had called; of a tree whose root is over it reads what is the case.
Walk ==
    /\ DOMAIN seen \subseteq DOMAIN process /\ todo \in Seq(DOMAIN process)
    /\ Distinct(todo)
    /\ ToSet(todo) \cap DOMAIN seen = {} /\ Root \in Found
    /\ \A p \in Found : /\ process[p].role # "function"
                        /\ p # Root => process[p].parent \in DOMAIN seen
    /\ \A p \in DOMAIN seen :
          /\ seen[p].kids = {k \in Found : process[k].parent = p}
          /\ seen[p].state \in States
          /\ seen[p].state \in Terminal => process[p].state \in Terminal
          /\ p # Root /\ seen[process[p].parent].state \in Terminal => seen[p].state \in Terminal
          /\ root \in Terminal => seen[p].state = process[p].state

\* The walk has found, or will, all of S.
Reaches(S) == \A p \in S : p = Root \/ process[p].parent \in DOMAIN seen => p \in Found

\* The processes that get to the walk at all.
HaveRows == {p \in DOMAIN process : process[p].role # "function"}

\* The table shows a part of the tree that the next one will show too. A read table
\* on the screen is that of the last walk.
OnScreen ==
    /\ \E S : TableOf(S, table) /\ (pc \in {"walk", "final"} => Reaches(S))
    /\ pc = "load" => /\ TableOf(DOMAIN seen, table)
                      /\ Tells(Shape(DOMAIN seen), DOMAIN seen, seen, table, {})

\* The inductive invariant.
TableInv ==
    /\ ProcessTree
    /\ root \in States /\ (root \in Terminal => root = process[Root].state)
    /\ pc \in {"load", "walk", "final", "ended"}
    /\ pc \in {"walk", "final"} => Walk
    /\ table # <<>> => OnScreen
    /\ pc = "final" => root \in Terminal /\ Reaches(HaveRows)
    /\ pc = "ended" => process[Root].state \in Terminal /\ LastTableIsFinal

-----------------------------------------------------------------------------
(* Lists without repetition.                                               *)

\* Behind a list, another one of other entries.
LEMMA JoinedLists ==
    ASSUME NEW S, NEW a \in Seq(S), NEW b \in Seq(S), Distinct(a), Distinct(b),
           ToSet(a) \cap ToSet(b) = {}
    PROVE  a \o b \in Seq(S) /\ Distinct(a \o b) /\ ToSet(a \o b) = ToSet(a) \cup ToSet(b)
<1> DEFINE l == Len(a)
           m == Len(b)
<1>1. l \in Nat /\ m \in Nat /\ DOMAIN a = 1 .. l /\ DOMAIN b = 1 .. m
    BY LenProperties
<1> PICK c : c = a \o b
    OBVIOUS
<1>2. /\ c \in Seq(S) /\ DOMAIN c = 1 .. l + m
      /\ \A i \in 1 .. l + m : c[i] = IF i <= l THEN a[i] ELSE b[i - l]
  <2>1. /\ a \o b \in Seq(S) /\ Len(a \o b) = l + m
        /\ \A i \in 1 .. l + m : (a \o b)[i] = IF i <= l THEN a[i] ELSE b[i - l]
    BY ConcatProperties
  <2> HIDE DEF l, m
  <2>2. c \in Seq(S) /\ Len(c) = l + m
    BY <2>1
  <2>3. DOMAIN c = 1 .. l + m
    BY <2>2, LenProperties
  <2> QED BY <2>1, <2>2, <2>3
<1> HIDE DEF l, m
<1>3. \A i \in 1 .. l + m : \/ i \in 1 .. l /\ c[i] = a[i] /\ c[i] \in ToSet(a)
                            \/ i - l \in 1 .. m /\ i > l /\ c[i] = b[i - l] /\ c[i] \in ToSet(b)
  <2> SUFFICES ASSUME NEW i \in 1 .. l + m
               PROVE  \/ i \in 1 .. l /\ c[i] = a[i] /\ c[i] \in ToSet(a)
                      \/ i - l \in 1 .. m /\ i > l /\ c[i] = b[i - l] /\ c[i] \in ToSet(b)
    OBVIOUS
  <2>1. CASE i <= l
    <3>1. i \in 1 .. l /\ c[i] = a[i]
      BY <1>1, <1>2, <2>1
    <3> QED BY <1>1, <3>1 DEF ToSet
  <2>2. CASE ~(i <= l)
    <3> PICK k : k = i - l
      OBVIOUS
    <3>1. k \in 1 .. m /\ i > l /\ c[i] = b[k]
      BY <1>1, <1>2, <2>2
    <3>2. c[i] \in ToSet(b)
      BY <1>1, <3>1 DEF ToSet
    <3> QED BY <3>1, <3>2
  <2> QED BY <2>1, <2>2
<1>4. Distinct(c)
  <2> SUFFICES ASSUME NEW i \in 1 .. l + m, NEW j \in 1 .. l + m, i # j PROVE c[i] # c[j]
    BY <1>2 DEF Distinct
  <2>1. CASE i \in 1 .. l /\ j \in 1 .. l
    <3>1. a[i] # a[j]
      BY <1>1, <2>1 DEF Distinct
    <3> QED BY <1>1, <1>2, <2>1, <3>1
  <2>2. CASE i > l /\ j > l
    <3>1. i - l \in 1 .. m /\ j - l \in 1 .. m /\ i - l # j - l
      BY <1>1, <2>2
    <3>2. b[i - l] # b[j - l]
      BY <1>1, <3>1 DEF Distinct
    <3>3. c[i] = b[i - l] /\ c[j] = b[j - l]
      BY <1>1, <1>2, <2>2
    <3> QED BY <3>2, <3>3
  <2>3. CASE i \in 1 .. l /\ j > l
    BY <1>1, <1>3, <2>3
  <2>4. CASE j \in 1 .. l /\ i > l
    BY <1>1, <1>3, <2>4
  <2> QED BY <1>1, <2>1, <2>2, <2>3, <2>4
<1>5. ToSet(c) = ToSet(a) \cup ToSet(b)
  <2>1. ToSet(c) \subseteq ToSet(a) \cup ToSet(b)
    BY <1>2, <1>3 DEF ToSet
  <2>2. ASSUME NEW x \in ToSet(a) PROVE x \in ToSet(c)
    <3>1. PICK i \in 1 .. l : x = a[i]
      BY <1>1 DEF ToSet
    <3>2. i \in DOMAIN c /\ c[i] = x
      BY <1>1, <1>2, <3>1
    <3> QED BY <3>2 DEF ToSet
  <2>3. ASSUME NEW x \in ToSet(b) PROVE x \in ToSet(c)
    <3>1. PICK i \in 1 .. m : x = b[i]
      BY <1>1 DEF ToSet
    <3>2. l + i \in DOMAIN c /\ ~(l + i <= l) /\ (l + i) - l = i
      BY <1>1, <1>2
    <3>3. c[l + i] = x
      BY <1>2, <3>1, <3>2
    <3> QED BY <3>2, <3>3 DEF ToSet
  <2> QED BY <2>1, <2>2, <2>3
<1> QED BY <1>2, <1>4, <1>5

\* A list without its head.
LEMMA RestOfList ==
    ASSUME NEW S, NEW s \in Seq(S), s # <<>>, Distinct(s)
    PROVE  /\ Tail(s) \in Seq(S) /\ Distinct(Tail(s))
           /\ Head(s) \in ToSet(s) /\ ToSet(Tail(s)) = ToSet(s) \ {Head(s)}
<1> DEFINE n == Len(s)
<1>1. n \in Nat \ {0} /\ DOMAIN s = 1 .. n
    BY LenProperties, EmptySeq
<1> PICK h, t : h = Head(s) /\ t = Tail(s)
    OBVIOUS
<1>2. /\ h = s[1] /\ t \in Seq(S) /\ DOMAIN t = 1 .. n - 1
      /\ \A i \in 1 .. n - 1 : t[i] = s[i + 1]
  <2>1. /\ Head(s) = s[1] /\ Tail(s) \in Seq(S) /\ Len(Tail(s)) = n - 1
        /\ \A i \in 1 .. n - 1 : Tail(s)[i] = s[i + 1]
    BY <1>1
  <2>2. t \in Seq(S) /\ Len(t) = n - 1
    BY <2>1
  <2>3. DOMAIN t = 1 .. n - 1
    BY <2>2, LenProperties
  <2> QED BY <2>1, <2>2, <2>3
<1> HIDE DEF n
<1>3. Distinct(t)
  <2> SUFFICES ASSUME NEW i \in 1 .. n - 1, NEW j \in 1 .. n - 1, i # j PROVE t[i] # t[j]
    BY <1>2 DEF Distinct
  <2>1. i + 1 \in 1 .. n /\ j + 1 \in 1 .. n /\ i + 1 # j + 1
    BY <1>1
  <2>2. s[i + 1] # s[j + 1]
    BY <1>1, <2>1 DEF Distinct
  <2> QED BY <1>2, <2>2
<1>4. h \in ToSet(s)
    BY <1>1, <1>2 DEF ToSet
<1>5. ToSet(t) = ToSet(s) \ {h}
  <2>1. ASSUME NEW x \in ToSet(t) PROVE x \in ToSet(s) \ {h}
    <3>1. PICK i \in 1 .. n - 1 : x = t[i]
      BY <1>2 DEF ToSet
    <3>2. i + 1 \in 1 .. n /\ i + 1 # 1 /\ x = s[i + 1]
      BY <1>1, <1>2, <3>1
    <3>3. s[i + 1] # s[1]
      BY <1>1, <3>2 DEF Distinct
    <3> QED BY <1>1, <1>2, <3>2, <3>3 DEF ToSet
  <2>2. ASSUME NEW x \in ToSet(s) \ {h} PROVE x \in ToSet(t)
    <3>1. PICK i \in 1 .. n : x = s[i]
      BY <1>1 DEF ToSet
    <3>2. i - 1 \in 1 .. n - 1 /\ (i - 1) + 1 = i
      BY <1>1, <1>2, <2>2, <3>1
    <3>3. t[i - 1] = x
      BY <1>2, <3>1, <3>2
    <3> QED BY <1>2, <3>2, <3>3 DEF ToSet
  <2> QED BY <2>1, <2>2
<1> QED BY <1>2, <1>3, <1>4, <1>5

-----------------------------------------------------------------------------
(* The daemon.                                                             *)

\* Everything that the root has called is over when it is.
LEMMA AllAreOver ==
    ASSUME ProcessTree, process[Root].state \in Terminal
    PROVE  \A p \in DOMAIN process : process[p].state \in Terminal
<1> DEFINE B == {p \in DOMAIN process : process[p].state \notin Terminal}
<1> SUFFICES ASSUME B # {} PROVE FALSE
    OBVIOUS
<1>1. B \subseteq Nat
    BY ProcessesAreNumbers
<1>2. PICK p \in B : \A q \in B : p <= q
    BY <1>1, LeastNumber
<1>3. p \in DOMAIN process \ {Root} /\ p \in Nat
    BY <1>1, <1>2
<1>4. /\ process[p].parent \in DOMAIN process /\ process[p].parent < p
      /\ process[process[p].parent].state \in Terminal => process[p].state \in Terminal
    BY <1>3 DEF ProcessTree
<1>5. process[p].parent \in B
    BY <1>2, <1>4
<1> QED BY <1>1, <1>2, <1>3, <1>4, <1>5

\* The tree grows and its processes move on, as long as the root runs.
Grows ==
    /\ ProcessTree' /\ process[Root].state \notin Terminal
    /\ DOMAIN process \subseteq DOMAIN process'
    /\ \A p \in DOMAIN process :
          /\ process'[p].parent = process[p].parent /\ process'[p].role = process[p].role
          /\ process'[p].label = process[p].label
          /\ process[p].state \in Terminal => process'[p].state = process[p].state

\* A process that is called is below one that has not ended.
LEMMA CreateGrows == ProcessTree /\ Create => Grows
<1> SUFFICES ASSUME ProcessTree, Create PROVE Grows
    OBVIOUS
<1> DEFINE n == Len(process)
<1>1. n \in Nat /\ DOMAIN process = 1 .. n /\ \A p \in 1 .. n : process[p] \in Process
    BY ProcessesAreNumbers
<1>2. PICK p \in DOMAIN process, role \in Roles, label \in Labels :
         /\ process[p].state \notin Terminal /\ process[p].role \notin {"leaf", "function"}
         /\ n < MaxProcesses
         /\ process' = Append(process, [parent |-> p, role |-> role, label |-> label,
                                        state |-> "waiting"])
    BY DEF Create
<1> PICK new : new = [parent |-> p, role |-> role, label |-> label, state |-> "waiting"]
    OBVIOUS
<1>3. new \in Process
    BY <1>1, <1>2, TableAssumption DEF Process
<1>4. /\ process' \in Seq(Process) /\ DOMAIN process' = 1 .. n + 1 /\ process'[n + 1] = new
      /\ \A q \in 1 .. n : process'[q] = process[q]
  <2>1. process \in Seq(Process) /\ process' = Append(process, new)
    BY <1>2 DEF ProcessTree
  <2>2. /\ Append(process, new) \in Seq(Process)
        /\ Len(Append(process, new)) = n + 1
        /\ \A q \in 1 .. n : Append(process, new)[q] = process[q]
        /\ Append(process, new)[n + 1] = new
    BY <1>3, <2>1, AppendProperties
  <2>3. DOMAIN Append(process, new) = 1 .. n + 1
    BY <2>2, LenProperties
  <2> QED BY <2>1, <2>2, <2>3, Zenon
<1> HIDE DEF n
<1>5. \A q \in DOMAIN process : q \in DOMAIN process' /\ process'[q] = process[q] /\ q # n + 1
    BY <1>1, <1>4
<1>6. process[Root].state \notin Terminal
    BY <1>2, AllAreOver
<1>7. Root \in DOMAIN process /\ process[Root].parent = 0 /\ process[Root].role = "plain"
    BY DEF ProcessTree
<1>8. ASSUME NEW q \in DOMAIN process' \ {Root}
      PROVE  /\ process'[q].parent \in DOMAIN process' /\ process'[q].parent < q
             /\ process'[process'[q].parent].role \notin {"leaf", "function"}
             /\ process'[process'[q].parent].state \in Terminal => process'[q].state \in Terminal
  <2>1. CASE q \in DOMAIN process
    <3>1. /\ process[q].parent \in DOMAIN process /\ process[q].parent < q
          /\ process[process[q].parent].role \notin {"leaf", "function"}
          /\ process[process[q].parent].state \in Terminal => process[q].state \in Terminal
      BY <1>8, <2>1 DEF ProcessTree
    <3> QED BY <1>5, <2>1, <3>1
  <2>2. CASE q \notin DOMAIN process
    <3>1. q = n + 1
      BY <1>1, <1>4, <1>8, <2>2
    <3>2. process'[q].parent = p
      BY <1>4, <3>1
    <3>3. p < q
      BY <1>1, <1>2, <3>1
    <3> QED BY <1>2, <1>5, <3>2, <3>3
  <2> QED BY <2>1, <2>2
<1>9. ProcessTree'
    BY <1>4, <1>5, <1>7, <1>8 DEF ProcessTree
<1> QED BY <1>5, <1>6, <1>9 DEF Grows

\* A process that is not over moves on to a state in which it may be.
LEMMA MovesOnGrow ==
    ASSUME ProcessTree, NEW p \in DOMAIN process,
           NEW state \in {"waiting"} \cup LiveStates \cup Terminal,
           process[p].state \notin Terminal, process' = [process EXCEPT ![p].state = state],
           state \in Terminal \/ process[p].role = "leaf",
           state \in Terminal => \A k \in Kids(p) : process[k].state \in Terminal
    PROVE  Grows
<1>1. process[p] \in Process
    BY ProcessesAreNumbers
<1>2. /\ DOMAIN process' = DOMAIN process
      /\ \A q \in DOMAIN process \ {p} : process'[q] = process[q]
      /\ process'[p].parent = process[p].parent /\ process'[p].role = process[p].role
      /\ process'[p].label = process[p].label /\ process'[p].state = state
      /\ process'[p] \in Process
  <2>1. process'[p] = [process[p] EXCEPT !.state = state]
    OBVIOUS
  <2> QED BY <1>1, <2>1 DEF Process
<1>3. process' \in Seq(Process)
  <2>1. /\ Len(process) \in Nat /\ DOMAIN process = 1 .. Len(process)
        /\ \A q \in DOMAIN process : process[q] \in Process
    BY ProcessesAreNumbers
  <2>2. \A q \in DOMAIN process : process'[q] \in Process
    BY <1>2, <2>1
  <2>3. process' \in [1 .. Len(process) -> Process]
    BY <1>2, <2>1, <2>2
  <2> QED BY <2>1, <2>3
<1>4. /\ Root \in DOMAIN process' /\ process'[Root].parent = 0 /\ process'[Root].role = "plain"
  <2>1. Root \in DOMAIN process /\ process[Root].parent = 0 /\ process[Root].role = "plain"
    BY DEF ProcessTree
  <2> QED BY <1>2, <2>1
<1>5. ASSUME NEW q \in DOMAIN process' \ {Root}
      PROVE  /\ process'[q].parent \in DOMAIN process' /\ process'[q].parent < q
             /\ process'[process'[q].parent].role \notin {"leaf", "function"}
             /\ process'[process'[q].parent].state \in Terminal => process'[q].state \in Terminal
  <2> PICK u : u = process[q].parent
    OBVIOUS
  <2>1. /\ u \in DOMAIN process /\ u < q /\ process[u].role \notin {"leaf", "function"}
        /\ process[u].state \in Terminal => process[q].state \in Terminal
    BY <1>2, <1>5 DEF ProcessTree
  <2>2. q \in DOMAIN process /\ process'[q].parent = u /\ process'[u].role = process[u].role
    BY <1>2, <1>5, <2>1
  <2>3. process'[u].state \in Terminal => process'[q].state \in Terminal
    <3> SUFFICES ASSUME process'[u].state \in Terminal PROVE process'[q].state \in Terminal
      OBVIOUS
    <3>1. CASE u = p
      <4>1. state \in Terminal
        BY <1>2, <3>1
      <4>2. q \in Kids(p) /\ q # p
        <5>1. q \in Nat
          BY <2>2, ProcessesAreNumbers
        <5> QED BY <2>1, <2>2, <3>1, <5>1 DEF Kids
      <4> QED BY <1>2, <2>2, <4>1, <4>2
    <3>2. CASE u # p
      <4>1. process[q].state \in Terminal
        BY <1>2, <2>1, <3>2
      <4>2. q # p
        BY <4>1
      <4> QED BY <1>2, <2>2, <4>1, <4>2
    <3> QED BY <3>1, <3>2
  <2> QED BY <1>2, <2>1, <2>2, <2>3
<1>6. ProcessTree'
    BY <1>3, <1>4, <1>5 DEF ProcessTree
<1>7. process[Root].state \notin Terminal
    BY AllAreOver
<1> QED BY <1>2, <1>6, <1>7 DEF Grows

\* So does every step of the daemon.
LEMMA DaemonGrows == ProcessTree /\ (Create \/ Advance \/ Terminate) => Grows /\ UNCHANGED watchVars
<1> SUFFICES ASSUME ProcessTree, Create \/ Advance \/ Terminate
             PROVE  Grows /\ UNCHANGED watchVars
    OBVIOUS
<1>1. CASE Create
    BY <1>1, CreateGrows DEF Create
<1>2. CASE Advance
  <2>1. PICK p \in DOMAIN process, state \in LiveStates :
           /\ process[p].role = "leaf" /\ process[p].state \notin Terminal
           /\ process' = [process EXCEPT ![p].state = state]
    BY <1>2 DEF Advance
  <2>2. state \notin Terminal
    BY TableAssumption DEF Terminal
  <2>3. Grows
    BY <2>1, <2>2, MovesOnGrow
  <2> QED BY <1>2, <2>3 DEF Advance
<1>3. CASE Terminate
  <2>1. PICK p \in DOMAIN process, state \in Ends :
           /\ process[p].state \notin Terminal
           /\ \A k \in Kids(p) : process[k].state \in Terminal
           /\ process' = [process EXCEPT ![p].state = state]
    BY <1>3 DEF Terminate
  <2>2. state \in Terminal
    BY TableAssumption DEF Terminal
  <2>3. Grows
    BY <2>1, <2>2, MovesOnGrow
  <2> QED BY <1>3, <2>3 DEF Terminate
<1> QED BY <1>1, <1>2, <1>3

\* A table of a part of the tree stays one.
LEMMA TableKeepsAsTreeGrows ==
    ASSUME ProcessTree, Grows, table' = table, NEW S, TableOf(S, table)
    PROVE  TableOf(S, table)'
<1> PICK sh : sh = Shape(S)
    OBVIOUS
<1>1. /\ S \subseteq DOMAIN process /\ IsTree(sh) /\ DOMAIN sh = S
      /\ \A p \in S : process[p].role # "function"
      /\ table \in Seq(Row) /\ Places(sh, S, table) /\ Apart(table, 1)
      /\ Numbers(sh, table) /\ InRunOrder(sh, table)
      /\ \A x \in DOMAIN table : table[x].depth = 0 => table[x].pk = Root
    BY DEF TableOf, Shape
<1>2. \A p \in S : /\ process'[p].parent = process[p].parent /\ process'[p].role = process[p].role
                   /\ process'[p].label = process[p].label /\ p \in DOMAIN process'
    BY <1>1 DEF Grows
<1>3. Shape(S)' = sh
    BY <1>2 DEF Shape
<1>4. InRunOrder(sh, table)'
  <2> SUFFICES ASSUME NEW x \in DOMAIN table, NEW y \in DOMAIN table, x < y,
                      sh[table[x].pk].up = sh[table[y].pk].up
               PROVE  MayPrecede(sh, table[x].pk, table[y].pk)'
    BY DEF InRunOrder
  <2> PICK p, q : p = table[x].pk /\ q = table[y].pk
    OBVIOUS
  <2>1. p \in S /\ q \in S /\ MayPrecede(sh, p, q)
    BY <1>1 DEF Places, InRunOrder
  <2>2. \A k \in Kin(sh, sh[p].up) : k \in S
    BY <1>1 DEF Kin
  <2>3. \A k \in S : process'[k].label = process[k].label
    BY <1>2
  <2>4. MayPrecede(sh, p, q)'
    BY <2>1, <2>2, <2>3 DEF MayPrecede
  <2> QED BY <2>4
<1>5. S \subseteq DOMAIN process' /\ \A p \in S : process'[p].role # "function"
    BY <1>1, <1>2
<1> QED BY <1>1, <1>3, <1>4, <1>5 DEF TableOf

-----------------------------------------------------------------------------
(* The walk.                                                               *)

\* Right after the root was read there is only the root to visit.
LEMMA WalkStarts ==
    ASSUME ProcessTree, StartWalk, process' = process
    PROVE  Walk' /\ \A S : Reaches(S)'
<1>1. seen' = <<>> /\ todo' = <<Root>> /\ Root \in DOMAIN process
    BY DEF StartWalk, ProcessTree
<1>2. DOMAIN seen' = {} /\ DOMAIN todo' = {1} /\ todo'[1] = Root
    BY <1>1
<1>3. ToSet(todo)' = {Root}
    BY <1>2 DEF ToSet
<1>4. Found' = {Root}
    BY <1>2, <1>3 DEF Found
<1>5. todo' \in Seq(DOMAIN process')
    BY <1>1
<1>6. Distinct(todo)'
    BY <1>2 DEF Distinct
<1>7. process'[Root].role # "function"
    BY DEF ProcessTree
<1>8. Walk'
    BY <1>2, <1>3, <1>4, <1>5, <1>6, <1>7 DEF Walk
<1>9. ASSUME NEW S PROVE Reaches(S)'
    BY <1>2, <1>4 DEF Reaches
<1> QED BY <1>8, <1>9

\* What a walk has read and found holds good while the daemon goes on.
LEMMA WalkAsTreeGrows ==
    ASSUME ProcessTree, Walk, Grows, UNCHANGED watchVars,
           root \in Terminal => root = process[Root].state
    PROVE  Walk'
<1>1. /\ pc' = pc /\ root' = root /\ seen' = seen /\ todo' = todo /\ root \notin Terminal
    BY DEF watchVars, Grows
<1>2. Found' = Found /\ Found \subseteq DOMAIN process
  <2>1. ToSet(todo) \subseteq DOMAIN process
    <3>1. todo \in Seq(DOMAIN process)
      BY DEF Walk
    <3>2. \A i \in DOMAIN todo : todo[i] \in DOMAIN process
      BY <3>1, ElementOfSeq, LenProperties
    <3> QED BY <3>2 DEF ToSet
  <2> QED BY <1>1, <2>1 DEF Found, Walk
<1>3. \A p \in DOMAIN process :
         /\ p \in DOMAIN process' /\ process'[p].parent = process[p].parent
         /\ process'[p].role = process[p].role
         /\ process[p].state \in Terminal => process'[p].state = process[p].state
    BY DEF Grows
<1>4. todo' \in Seq(DOMAIN process')
  <2>1. todo \in [1 .. Len(todo) -> DOMAIN process] /\ Len(todo) \in Nat
    BY LenProperties DEF Walk
  <2>2. todo \in [1 .. Len(todo) -> DOMAIN process']
    BY <1>3, <2>1
  <2> QED BY <1>1, <2>1, <2>2
<1>5. \A p \in Found : /\ process'[p].role # "function"
                       /\ p # Root => process'[p].parent \in DOMAIN seen
    BY <1>2, <1>3 DEF Walk
<1>6. ASSUME NEW p \in DOMAIN seen
      PROVE  /\ seen[p].kids = {k \in Found : process'[k].parent = p}
             /\ seen[p].state \in States
             /\ seen[p].state \in Terminal => process'[p].state \in Terminal
             /\ p # Root /\ seen[process'[p].parent].state \in Terminal => seen[p].state \in Terminal
  <2>1. /\ seen[p].kids = {k \in Found : process[k].parent = p}
        /\ seen[p].state \in States /\ p \in DOMAIN process
        /\ seen[p].state \in Terminal => process[p].state \in Terminal
        /\ p # Root /\ seen[process[p].parent].state \in Terminal => seen[p].state \in Terminal
    BY DEF Walk
  <2>2. {k \in Found : process[k].parent = p} = {k \in Found : process'[k].parent = p}
    BY <1>2, <1>3
  <2> QED BY <1>3, <2>1, <2>2
<1>7. /\ DOMAIN seen \subseteq DOMAIN process' /\ Distinct(todo)
      /\ ToSet(todo) \cap DOMAIN seen = {} /\ Root \in Found
    BY <1>3 DEF Walk
<1> QED BY <1>1, <1>2, <1>4, <1>5, <1>6, <1>7 DEF Walk

\* Reading one more process and noting those it called.
LEMMA VisitWalksOn ==
    ASSUME ProcessTree, Walk, Visit, root \in States,
           root \in Terminal => root = process[Root].state
    PROVE  Walk' /\ \A S : S \subseteq HaveRows /\ Reaches(S) => Reaches(S)'
<1> PICK p : p = Head(todo)
    OBVIOUS
<1> PICK kids : kids = OrderedChildren(Kids(p))
    OBVIOUS
<1> PICK new : new = Shown(Kids(p))
    OBVIOUS
<1>1. /\ process' = process /\ root' = root /\ todo # <<>> /\ todo' = kids \o Tail(todo)
      /\ seen' = [q \in DOMAIN seen \cup {p} |->
                    IF q = p THEN [state |-> IF p = Root THEN root ELSE process[p].state,
                                   kids |-> Kids(p) \cap ToSet(kids)]
                    ELSE seen[q]]
    BY DEF Visit
<1>2. /\ Tail(todo) \in Seq(DOMAIN process) /\ Distinct(Tail(todo))
      /\ p \in ToSet(todo) /\ ToSet(Tail(todo)) = ToSet(todo) \ {p}
    BY <1>1, RestOfList DEF Walk
<1>3. p \in Found /\ p \notin DOMAIN seen /\ p \in DOMAIN process
  <2>1. \A i \in DOMAIN todo : todo[i] \in DOMAIN process
    BY ElementOfSeq, LenProperties DEF Walk
  <2> QED BY <1>2, <2>1 DEF Walk, Found, ToSet
<1>4. new = {k \in DOMAIN process : process[k].parent = p /\ process[k].role # "function"}
    BY DEF Shown, Kids
<1>5. kids \in Seq(DOMAIN process) /\ Distinct(kids) /\ ToSet(kids) = new
  <2>1. ReadsAsRun(kids, new)
    BY ChildrenInOrder DEF Kids
  <2> DEFINE n == Cardinality(new)
  <2>2. n \in Nat
    BY <1>4, ProcessesAreNumbers
  <2>3. /\ kids \in [1 .. n -> new]
        /\ \A k \in new : \E i \in 1 .. n : kids[i] = k
        /\ \A i, j \in 1 .. n : i < j => kids[i] # kids[j]
    BY <2>1 DEF ReadsAsRun
  <2> HIDE DEF n
  <2>4. kids \in [1 .. n -> DOMAIN process] /\ DOMAIN kids = 1 .. n
    BY <1>4, <2>3
  <2>5. kids \in Seq(DOMAIN process)
    BY <2>2, <2>4
  <2>6. Distinct(kids)
    <3> SUFFICES ASSUME NEW i \in 1 .. n, NEW j \in 1 .. n, i # j PROVE kids[i] # kids[j]
      BY <2>4 DEF Distinct
    <3>1. i < j \/ j < i
      BY <2>2
    <3> QED BY <2>3, <3>1
  <2>7. ToSet(kids) = new
    <3>1. \A k \in new : \E i \in DOMAIN kids : kids[i] = k
      BY <2>3, <2>4
    <3>2. \A i \in DOMAIN kids : kids[i] \in new
      BY <2>3, <2>4
    <3> QED BY <3>1, <3>2 DEF ToSet
  <2> QED BY <2>5, <2>6, <2>7
<1>6. new \cap Found = {}
  <2> SUFFICES ASSUME NEW k \in new, k \in Found PROVE FALSE
    OBVIOUS
  <2>1. process[k].parent = p
    BY <1>4
  <2>2. k # Root
    <3>1. p # 0
      BY <1>3, ProcessesAreNumbers
    <3> QED BY <2>1, <3>1 DEF ProcessTree
  <2> QED BY <1>3, <2>1, <2>2 DEF Walk
<1>7. todo' \in Seq(DOMAIN process) /\ Distinct(todo') /\ ToSet(todo') = new \cup (ToSet(todo) \ {p})
  <2>1. ToSet(kids) \cap ToSet(Tail(todo)) = {}
    BY <1>2, <1>5, <1>6 DEF Found
  <2> PICK rest : rest = Tail(todo)
    OBVIOUS
  <2>2. rest \in Seq(DOMAIN process) /\ Distinct(rest) /\ ToSet(kids) \cap ToSet(rest) = {}
    BY <1>2, <2>1
  <2>3. /\ kids \o rest \in Seq(DOMAIN process) /\ Distinct(kids \o rest)
        /\ ToSet(kids \o rest) = ToSet(kids) \cup ToSet(rest)
    <3> PICK D : D = DOMAIN process
      OBVIOUS
    <3>1. kids \in Seq(D) /\ rest \in Seq(D)
      BY <1>5, <2>2
    <3>2. Distinct(kids) /\ Distinct(rest) /\ ToSet(kids) \cap ToSet(rest) = {}
      BY <1>5, <2>2
    <3>3. kids \o rest \in Seq(D)
      BY <3>1, <3>2, JoinedLists
    <3>4. Distinct(kids \o rest)
      BY <3>1, <3>2, JoinedLists
    <3>5. ToSet(kids \o rest) = ToSet(kids) \cup ToSet(rest)
      <4> PICK a : a = kids
        OBVIOUS
      <4>1. ToSet(a \o rest) = ToSet(a) \cup ToSet(rest)
        <5>1. a \in Seq(D) /\ rest \in Seq(D) /\ Distinct(a) /\ Distinct(rest)
          BY <3>1, <3>2
        <5>2. ToSet(a) \cap ToSet(rest) = {}
          BY <3>2
        <5> QED BY ONLY <5>1, <5>2, JoinedLists
      <4> QED BY <4>1, Zenon
    <3> QED BY <3>3, <3>4, <3>5
  <2> QED BY <1>1, <1>2, <1>5, <2>3
<1>8. /\ DOMAIN seen' = DOMAIN seen \cup {p}
      /\ \A q \in DOMAIN seen : seen'[q] = seen[q]
      /\ seen'[p].state = IF p = Root THEN root ELSE process[p].state
      /\ seen'[p].kids = new
  <2>1. Kids(p) \cap ToSet(kids) = new
    BY <1>5 DEF Shown
  <2>2. \A q \in DOMAIN seen : q # p
    BY <1>3
  <2> QED BY <1>1, <2>1, <2>2
<1>9. Found' = Found \cup new
    BY <1>3, <1>7, <1>8 DEF Found
<1>10. \A q \in Found : /\ process[q].role # "function"
                        /\ q # Root => process[q].parent \in DOMAIN seen
    BY DEF Walk
<1>11. \A q \in Found' : /\ process'[q].role # "function"
                         /\ q # Root => process'[q].parent \in DOMAIN seen'
    BY <1>1, <1>4, <1>8, <1>9, <1>10
<1>12. ASSUME NEW q \in DOMAIN seen'
       PROVE  /\ seen'[q].kids = {k \in Found' : process'[k].parent = q}
              /\ seen'[q].state \in States
              /\ seen'[q].state \in Terminal => process'[q].state \in Terminal
              /\ q # Root /\ seen'[process'[q].parent].state \in Terminal
                    => seen'[q].state \in Terminal
              /\ root' \in Terminal => seen'[q].state = process'[q].state
  <2>1. CASE q = p
    <3>1. {k \in Found' : process[k].parent = p} = new
      <4>1. \A k \in Found : process[k].parent # p
        <5>1. p # 0
          BY <1>3, ProcessesAreNumbers
        <5>2. process[Root].parent = 0
          BY DEF ProcessTree
        <5> QED BY <1>3, <1>10, <5>1, <5>2
      <4> QED BY <1>4, <1>9, <4>1
    <3>2. process[p].state \in States
      <4>1. process[p] \in Process
        BY <1>3, ProcessesAreNumbers
      <4>2. {"waiting"} \cup LiveStates \cup Terminal \subseteq States
        BY TableAssumption DEF States, Alive
      <4> QED BY <4>1, <4>2 DEF Process
    <3>3. ASSUME p # Root, seen'[process[p].parent].state \in Terminal
          PROVE  process[p].state \in Terminal
      <4>1. process[p].parent \in DOMAIN seen
        BY <1>3, <1>10, <3>3
      <4>2. seen[process[p].parent].state \in Terminal
        BY <1>8, <3>3, <4>1
      <4>3. process[process[p].parent].state \in Terminal
        BY <4>1, <4>2 DEF Walk
      <4> QED BY <1>3, <3>3, <4>3 DEF ProcessTree
    <3> QED BY <1>1, <1>8, <2>1, <3>1, <3>2, <3>3
  <2>2. CASE q # p
    <3>1. q \in DOMAIN seen /\ seen'[q] = seen[q]
      BY <1>8, <2>2
    <3>2. /\ seen[q].kids = {k \in Found : process[k].parent = q}
          /\ seen[q].state \in States
          /\ seen[q].state \in Terminal => process[q].state \in Terminal
          /\ q # Root /\ seen[process[q].parent].state \in Terminal => seen[q].state \in Terminal
          /\ root \in Terminal => seen[q].state = process[q].state
      BY <3>1 DEF Walk
    <3>3. {k \in Found' : process[k].parent = q} = {k \in Found : process[k].parent = q}
      BY <1>4, <1>9, <2>2
    <3>4. q # Root => seen'[process[q].parent] = seen[process[q].parent]
      <4>1. q # Root => process[q].parent \in DOMAIN seen
        BY <1>10, <3>1 DEF Found
      <4> QED BY <1>8, <4>1
    <3> QED BY <1>1, <3>1, <3>2, <3>3, <3>4
  <2> QED BY <2>1, <2>2
<1>13. ToSet(todo') \cap DOMAIN seen' = {}
  <2>1. ToSet(todo) \cap DOMAIN seen = {}
    BY DEF Walk
  <2> QED BY <1>3, <1>6, <1>7, <1>8, <2>1 DEF Found
<1>14. /\ DOMAIN seen' \subseteq DOMAIN process' /\ Root \in Found'
       /\ todo' \in Seq(DOMAIN process') /\ Distinct(todo')
    BY <1>1, <1>3, <1>7, <1>8, <1>9 DEF Walk
<1>15. Walk'
    BY <1>11, <1>12, <1>13, <1>14 DEF Walk
<1>16. ASSUME NEW S, S \subseteq HaveRows, Reaches(S)
       PROVE  Reaches(S)'
  <2> SUFFICES ASSUME NEW q \in S, q = Root \/ process[q].parent \in DOMAIN seen \cup {p}
               PROVE  q \in Found \cup new
    BY <1>1, <1>8, <1>9 DEF Reaches
  <2>1. CASE q = Root \/ process[q].parent \in DOMAIN seen
    BY <1>16, <2>1 DEF Reaches
  <2>2. CASE process[q].parent = p
    BY <1>4, <1>16, <2>2 DEF HaveRows
  <2> QED BY <2>1, <2>2
<1> QED BY <1>15, <1>16

\* A walk with nobody left to read has read a tree, and all that it reaches.
LEMMA WalkEnds ==
    ASSUME ProcessTree, Walk, todo = <<>>
    PROVE  ReadTree(seen)
<1>1. ToSet(todo) = {}
    BY DEF ToSet
<1>2. Found = DOMAIN seen
    BY <1>1 DEF Found
<1> QED BY <1>2 DEF Walk, ReadTree

\* A walk with nothing left to visit has read all it was to reach.
LEMMA WalkReadsAll ==
    ASSUME ProcessTree, Walk, todo = <<>>, NEW S, Reaches(S), S \subseteq DOMAIN process,
           \A p \in S : p # Root => process[p].parent \in S
    PROVE  S \subseteq DOMAIN seen
<1>1. Found = DOMAIN seen
  <2>1. ToSet(todo) = {}
    BY DEF ToSet
  <2> QED BY <2>1 DEF Found
<1> DEFINE B == S \ DOMAIN seen
<1> SUFFICES ASSUME B # {} PROVE FALSE
    OBVIOUS
<1>2. B \subseteq Nat
    BY ProcessesAreNumbers
<1>3. PICK p \in B : \A q \in B : p <= q
    BY <1>2, LeastNumber
<1>4. p # Root /\ process[p].parent \notin DOMAIN seen
    BY <1>1, <1>3 DEF Reaches
<1>5. process[p].parent \in B /\ process[p].parent < p
    BY <1>3, <1>4 DEF ProcessTree
<1> QED BY <1>2, <1>3, <1>5

\* A part of the tree with a table holds the caller of each of its processes.
LEMMA ShapesHaveCallers ==
    ASSUME NEW S, NEW t, TableOf(S, t)
    PROVE  S \subseteq HaveRows /\ \A p \in S : p # Root => process[p].parent \in S
BY DEF TableOf, IsTree, Shape, HaveRows

\* So do the processes that get to the walk.
LEMMA CallersHaveRows ==
    ASSUME ProcessTree
    PROVE  /\ HaveRows \subseteq DOMAIN process
           /\ \A p \in HaveRows : p # Root => process[p].parent \in HaveRows
BY DEF ProcessTree, HaveRows

\* The table of all processes, read when each had ended.
LEMMA LastTable ==
    ASSUME ProcessTree, HaveRows \subseteq DOMAIN seen, NEW t,
           TableOf(DOMAIN seen, t), Tells(Shape(DOMAIN seen), DOMAIN seen, seen, t, {}),
           \A p \in DOMAIN seen : seen[p].state \in Terminal /\ seen[p].state = process[p].state
    PROVE  /\ \A i \in DOMAIN t : t[i].state = process[t[i].pk].state
           /\ \A p \in DOMAIN process : process[p].role \in {"plain", "leaf", "numbered"} =>
                 Cardinality({i \in DOMAIN t : p \in t[i].pks}) = 1
<1> PICK sh : sh = Shape(DOMAIN seen)
    OBVIOUS
<1>1. /\ Places(sh, DOMAIN seen, t) /\ Tells(sh, DOMAIN seen, seen, t, {})
      /\ \A p \in DOMAIN seen : sh[p].role = process[p].role
    BY DEF TableOf, Shape
<1>2. ASSUME NEW i \in DOMAIN t
      PROVE  t[i].state = process[t[i].pk].state
  <2>1. t[i].pk \in DOMAIN seen
    BY <1>1 DEF Places
  <2>2. seen[t[i].pk].state \in Terminal /\ seen[t[i].pk].state = process[t[i].pk].state
    BY <2>1
  <2> QED BY <1>1, <2>2 DEF Tells
<1>3. ASSUME NEW p \in DOMAIN process, process[p].role \in {"plain", "leaf", "numbered"}
      PROVE  Cardinality({i \in DOMAIN t : p \in t[i].pks}) = 1
  <2>1. p \in DOMAIN seen /\ sh[p].role # "transparent"
    BY <1>1, <1>3 DEF HaveRows
  <2>2. PICK x \in DOMAIN t : p \in t[x].pks
    BY <1>1, <2>1 DEF Places
  <2>3. {i \in DOMAIN t : p \in t[i].pks} = {x}
    BY <1>1, <2>2 DEF Places
  <2> QED BY <2>3, FS_Singleton
<1> QED BY <1>2, <1>3

-----------------------------------------------------------------------------
(* The theorems.                                                           *)

\* TableInv holds before anything was read.
LEMMA InitTableInv == TableInit => TableInv
<1> SUFFICES ASSUME TableInit PROVE TableInv
    OBVIOUS
<1>1. /\ DOMAIN process = {1} /\ process[1].parent = 0 /\ process[1].role = "plain"
      /\ process[1].label \in Labels /\ process[1].state = "waiting"
      /\ process[1] = [parent |-> 0, role |-> "plain", label |-> process[1].label, state |-> "waiting"]
    BY DEF TableInit
<1>2. process \in Seq(Process)
  <2>1. process[1] \in Process
    BY <1>1, TableAssumption DEF Process, Roles
  <2>2. process \in [1 .. 1 -> Process]
    BY <2>1 DEF TableInit
  <2> QED BY <2>2, ListsAreSequences
<1>3. ProcessTree
    BY <1>1, <1>2 DEF ProcessTree, Root
<1>4. root = "waiting" /\ pc = "load" /\ table = <<>>
    BY <1>1 DEF TableInit, Root
<1>5. "waiting" \in States /\ "waiting" \notin Terminal
    BY DEF States, Alive, Terminal
<1> QED BY <1>3, <1>4, <1>5 DEF TableInv

\* A step of the daemon keeps it ...
LEMMA DaemonKeepsTableInv == TableInv /\ (Create \/ Advance \/ Terminate) => TableInv'
<1> SUFFICES ASSUME TableInv, Create \/ Advance \/ Terminate PROVE TableInv'
    OBVIOUS
<1>1. /\ ProcessTree /\ Grows /\ UNCHANGED watchVars
      /\ pc' = pc /\ root' = root /\ seen' = seen /\ todo' = todo /\ table' = table
    BY DaemonGrows DEF TableInv, watchVars
<1>2. root \in States /\ root \notin Terminal
    BY <1>1 DEF TableInv, Grows
<1>3. pc \in {"walk", "final"} => Walk'
    BY <1>1, WalkAsTreeGrows DEF TableInv
<1>4. table # <<>> => OnScreen'
  <2> SUFFICES ASSUME table # <<>> PROVE OnScreen'
    OBVIOUS
  <2>1. PICK S : TableOf(S, table) /\ (pc \in {"walk", "final"} => Reaches(S))
    BY DEF TableInv, OnScreen
  <2>2. TableOf(S, table)'
    BY <1>1, <2>1, TableKeepsAsTreeGrows
  <2>3. Reaches(S) => Reaches(S)'
    <3>1. \A p \in S : process'[p].parent = process[p].parent
      BY <1>1, <2>1 DEF TableOf, Grows
    <3> QED BY <1>1, <3>1 DEF Reaches, Found
  <2>4. ASSUME pc = "load"
        PROVE  /\ TableOf(DOMAIN seen, table)'
               /\ Tells(Shape(DOMAIN seen), DOMAIN seen, seen, table, {})'
    <3>1. TableOf(DOMAIN seen, table) /\ Tells(Shape(DOMAIN seen), DOMAIN seen, seen, table, {})
      BY <2>4 DEF TableInv, OnScreen
    <3> PICK T : T = DOMAIN seen
      OBVIOUS
    <3>2. TableOf(T, table)'
      BY <1>1, <3>1, TableKeepsAsTreeGrows
    <3>3. Shape(DOMAIN seen)' = Shape(DOMAIN seen)
      <4>1. \A p \in DOMAIN seen : /\ process'[p].parent = process[p].parent
                                   /\ process'[p].role = process[p].role
        BY <1>1, <3>1 DEF TableOf, Grows
      <4> QED BY <1>1, <4>1 DEF Shape
    <3>4. DOMAIN seen' = T
      BY <1>1
    <3>5. TableOf(DOMAIN seen, table)'
      BY <3>2, <3>4
    <3>6. Tells(Shape(DOMAIN seen), DOMAIN seen, seen, table, {})'
      <4> PICK sh : sh = Shape(DOMAIN seen)
        OBVIOUS
      <4>1. Tells(sh, DOMAIN seen, seen, table, {})
        BY <3>1
      <4>2. Tells(sh, DOMAIN seen', seen', table', {})
        BY <1>1, <4>1
      <4> QED BY <3>3, <4>2
    <3> QED BY <3>5, <3>6
  <2> QED BY <1>1, <2>1, <2>2, <2>3, <2>4 DEF OnScreen
<1>5. pc \notin {"final", "ended"}
    BY <1>1, <1>2 DEF TableInv, Grows
<1>6. ProcessTree'
    BY <1>1 DEF Grows
<1> QED BY <1>1, <1>2, <1>3, <1>4, <1>5, <1>6 DEF TableInv

\* What a table shows does not depend on where the processes have got.
LEMMA TableKeeps ==
    ASSUME NEW S, NEW t, TableOf(S, t), process' = process, table' = t
    PROVE  TableOf(S, table)'
<1> PICK sh : sh = Shape(S)
    OBVIOUS
<1>1. InRunOrder(sh, table)'
  <2>1. InRunOrder(sh, t)
    BY DEF TableOf
  <2> SUFFICES ASSUME NEW x \in DOMAIN t, NEW y \in DOMAIN t, x < y,
                      sh[t[x].pk].up = sh[t[y].pk].up
               PROVE  MayPrecede(sh, t[x].pk, t[y].pk)'
    BY DEF InRunOrder
  <2>2. MayPrecede(sh, t[x].pk, t[y].pk)
    BY <2>1 DEF InRunOrder
  <2> QED BY <2>2 DEF MayPrecede
<1>2. Shape(S)' = sh
    BY DEF Shape
<1> QED BY <1>1, <1>2 DEF TableOf

\* ... so does reading the root (load_node in watch_process) ...
LEMMA LoadKeepsTableInv == TableInv /\ Load => TableInv'
<1> SUFFICES ASSUME TableInv, Load PROVE TableInv'
    OBVIOUS
<1>1. /\ ProcessTree /\ process' = process /\ table' = table /\ StartWalk
      /\ root' = process[Root].state /\ pc' = "walk"
    BY DEF TableInv, Load
<1>2. Walk' /\ \A S : Reaches(S)'
    BY <1>1, WalkStarts
<1>3. root' \in States
  <2>1. process[Root] \in Process
    BY <1>1, ProcessesAreNumbers DEF ProcessTree
  <2>2. {"waiting"} \cup LiveStates \cup Terminal \subseteq States
    BY TableAssumption DEF States, Alive
  <2> QED BY <1>1, <2>1, <2>2 DEF Process
<1>4. ProcessTree'
    BY <1>1 DEF ProcessTree
<1>5. table # <<>> => OnScreen'
  <2> SUFFICES ASSUME table # <<>> PROVE OnScreen'
    OBVIOUS
  <2>1. PICK S : TableOf(S, table)
    BY DEF TableInv, OnScreen
  <2>2. TableOf(S, table)'
    BY <1>1, <2>1, TableKeeps
  <2> QED BY <1>1, <1>2, <2>2 DEF OnScreen
<1> QED BY <1>1, <1>2, <1>3, <1>4, <1>5 DEF TableInv

\* ... reading one process of the walk ...
LEMMA VisitKeepsTableInv == TableInv /\ Visit => TableInv'
<1> SUFFICES ASSUME TableInv, Visit PROVE TableInv'
    OBVIOUS
<1>1. /\ ProcessTree /\ Walk /\ pc \in {"walk", "final"} /\ root \in States
      /\ root \in Terminal => root = process[Root].state
      /\ process' = process /\ table' = table /\ pc' = pc /\ root' = root
    BY DEF TableInv, Visit
<1>2. Walk' /\ \A S : S \subseteq HaveRows /\ Reaches(S) => Reaches(S)'
    BY <1>1, VisitWalksOn
<1>3. ProcessTree' /\ HaveRows' = HaveRows
    BY <1>1 DEF ProcessTree, HaveRows
<1>4. table # <<>> => OnScreen'
  <2> SUFFICES ASSUME table # <<>> PROVE OnScreen'
    OBVIOUS
  <2>1. PICK S : TableOf(S, table) /\ Reaches(S)
    BY <1>1 DEF TableInv, OnScreen
  <2>2. TableOf(S, table)'
    BY <1>1, <2>1, TableKeeps
  <2>3. Reaches(S)'
    BY <1>2, <2>1, ShapesHaveCallers
  <2> QED BY <1>1, <2>2, <2>3 DEF OnScreen
<1>5. pc = "final" => root \in Terminal /\ Reaches(HaveRows)'
  <2> SUFFICES ASSUME pc = "final" PROVE root \in Terminal /\ Reaches(HaveRows)'
    OBVIOUS
  <2>1. root \in Terminal /\ Reaches(HaveRows)
    BY DEF TableInv
  <2> PICK S : S = HaveRows
    OBVIOUS
  <2>2. Reaches(S)'
    BY <1>2, <2>1
  <2>3. HaveRows' = S
    BY <1>3
  <2> QED BY <2>1, <2>2, <2>3
<1> QED BY <1>1, <1>2, <1>3, <1>4, <1>5 DEF TableInv

\* A table that is drawn is that of the tree the walk has read.
LEMMA UpdatesDraw ==
    ASSUME TableInv, Update \/ LastUpdate
    PROVE  /\ ProcessTree /\ Walk /\ todo = <<>> /\ process' = process /\ root' = root
           /\ table' = CollectRows(seen)
           /\ TableOf(DOMAIN seen, CollectRows(seen))
           /\ Tells(Shape(DOMAIN seen), DOMAIN seen, seen, CollectRows(seen), {})
<1>1. /\ ProcessTree /\ Walk /\ todo = <<>> /\ process' = process /\ root' = root
      /\ table' = CollectRows(seen)
    BY DEF TableInv, Update, LastUpdate
<1>2. ReadTree(seen)
    BY <1>1, WalkEnds
<1> QED BY <1>1, <1>2, RowsOfATree

\* ... showing the rows read (live.update) ...
LEMMA UpdateKeepsTableInv == TableInv /\ Update => TableInv'
<1> SUFFICES ASSUME TableInv, Update PROVE TableInv'
    OBVIOUS
<1> PICK t : t = CollectRows(seen)
    OBVIOUS
<1> PICK S : S = DOMAIN seen
    OBVIOUS
<1>1. /\ ProcessTree /\ process' = process /\ root' = root /\ table' = t
      /\ TableOf(S, t) /\ Tells(Shape(S), S, seen, t, {})
    BY UpdatesDraw
<1>2. ProcessTree' /\ Shape(S)' = Shape(S)
    BY <1>1 DEF ProcessTree, Shape
<1>3. TableOf(S, table)'
    BY <1>1, TableKeeps
<1>4. CASE root \in Terminal
  <2>1. pc' = "final" /\ StartWalk
    BY <1>4 DEF Update
  <2>2. Walk' /\ \A T : Reaches(T)'
    BY <1>1, <2>1, WalkStarts
  <2>3. OnScreen'
    BY <1>3, <2>1, <2>2 DEF OnScreen
  <2>4. Reaches(HaveRows)'
    <3> PICK T : T = HaveRows'
      OBVIOUS
    <3>1. Reaches(T)'
      BY <2>2
    <3> QED BY <3>1
  <2> QED BY <1>1, <1>2, <1>4, <2>1, <2>2, <2>3, <2>4 DEF TableInv
<1>5. CASE root \notin Terminal
  <2>1. pc' = "load" /\ seen' = seen
    BY <1>5 DEF Update
  <2>2. TableOf(DOMAIN seen, table)'
    <3>1. DOMAIN seen' = S
      BY <2>1
    <3> QED BY <1>3, <3>1
  <2>3. Tells(Shape(DOMAIN seen), DOMAIN seen, seen, table, {})'
    <3> PICK sh : sh = Shape(S)
      OBVIOUS
    <3>1. Tells(sh, S, seen', table', {})
      BY <1>1, <2>1
    <3>2. DOMAIN seen' = S /\ Shape(S)' = sh
      BY <1>2, <2>1
    <3>3. Shape(DOMAIN seen)' = sh
      BY <3>2
    <3> QED BY <3>1, <3>2, <3>3
  <2>4. OnScreen'
    BY <1>3, <2>1, <2>2, <2>3 DEF OnScreen
  <2> QED BY <1>1, <1>2, <1>5, <2>1, <2>4 DEF TableInv
<1> QED BY <1>4, <1>5

\* ... and showing them for the last time.
LEMMA LastUpdateKeepsTableInv == TableInv /\ LastUpdate => TableInv'
<1> SUFFICES ASSUME TableInv, LastUpdate PROVE TableInv'
    OBVIOUS
<1> PICK t : t = CollectRows(seen)
    OBVIOUS
<1>1. /\ ProcessTree /\ Walk /\ todo = <<>> /\ process' = process /\ root' = root /\ table' = t
      /\ TableOf(DOMAIN seen, t) /\ Tells(Shape(DOMAIN seen), DOMAIN seen, seen, t, {})
    BY UpdatesDraw
<1>2. /\ pc = "final" /\ pc' = "ended" /\ root \in Terminal /\ root = process[Root].state
      /\ Reaches(HaveRows) /\ root \in States
    BY DEF TableInv, LastUpdate
<1>3. HaveRows \subseteq DOMAIN seen
    BY <1>1, <1>2, CallersHaveRows, WalkReadsAll
<1>4. \A p \in DOMAIN seen : seen[p].state \in Terminal /\ seen[p].state = process[p].state
  <2>1. \A p \in DOMAIN process : process[p].state \in Terminal
    BY <1>1, <1>2, AllAreOver
  <2> QED BY <1>1, <1>2, <2>1 DEF Walk
<1>5. /\ \A i \in DOMAIN t : t[i].state = process[t[i].pk].state
      /\ \A p \in DOMAIN process : process[p].role \in {"plain", "leaf", "numbered"} =>
            Cardinality({i \in DOMAIN t : p \in t[i].pks}) = 1
    BY <1>1, <1>3, <1>4, LastTable
<1>6. LastTableIsFinal'
    BY <1>1, <1>5 DEF LastTableIsFinal
<1>7. ProcessTree'
    BY <1>1 DEF ProcessTree
<1>8. OnScreen'
  <2> PICK S : S = DOMAIN seen
    OBVIOUS
  <2>1. TableOf(S, table)'
    BY <1>1, TableKeeps
  <2> QED BY <1>2, <2>1 DEF OnScreen
<1> QED BY <1>1, <1>2, <1>6, <1>7, <1>8 DEF TableInv

\* What is known of a table depends on the tree and the table alone.
LEMMA TableStands ==
    ASSUME process' = process, table' = table, NEW S, TableOf(S, table)
    PROVE  TableOf(S, table)'
<1> PICK sh : sh = Shape(S)
    OBVIOUS
<1>1. /\ S \subseteq DOMAIN process /\ IsTree(sh) /\ \A p \in S : process[p].role # "function"
      /\ table \in Seq(Row) /\ Places(sh, S, table) /\ Apart(table, 1)
      /\ Numbers(sh, table) /\ InRunOrder(sh, table)
      /\ \A x \in DOMAIN table : table[x].depth = 0 => table[x].pk = Root
    BY DEF TableOf
<1>2. Shape(S)' = sh
    BY DEF Shape
<1>3. InRunOrder(sh, table)'
    BY <1>1 DEF InRunOrder, MayPrecede
<1> QED BY <1>1, <1>2, <1>3 DEF TableOf

\* So does every step.
LEMMA NextTableInv == TableInv /\ [TableNext]_tableVars => TableInv'
<1> SUFFICES ASSUME TableInv, [TableNext]_tableVars PROVE TableInv'
    OBVIOUS
<1>1. CASE Create \/ Advance \/ Terminate
    BY <1>1, DaemonKeepsTableInv
<1>2. CASE Watch
    BY <1>2, LoadKeepsTableInv, VisitKeepsTableInv, UpdateKeepsTableInv, LastUpdateKeepsTableInv
       DEF Watch
<1>3. CASE UNCHANGED tableVars
  <2>1. /\ process' = process /\ pc' = pc /\ root' = root /\ seen' = seen /\ todo' = todo
        /\ table' = table
    BY <1>3 DEF tableVars, watchVars
  <2>2. ProcessTree'
    BY <2>1 DEF ProcessTree, TableInv
  <2>3. pc \in {"walk", "final"} => Walk'
    BY <2>1 DEF Walk, Found, Distinct, ToSet, TableInv
  <2>4. table # <<>> => OnScreen'
    <3> SUFFICES ASSUME table # <<>> PROVE OnScreen'
      OBVIOUS
    <3>1. PICK S : TableOf(S, table) /\ (pc \in {"walk", "final"} => Reaches(S))
      BY DEF TableInv, OnScreen
    <3>2. TableOf(S, table)' /\ (pc \in {"walk", "final"} => Reaches(S)')
      <4>1. TableOf(S, table)'
        BY <2>1, <3>1, TableStands
      <4>2. pc \in {"walk", "final"} => Reaches(S)'
        BY <2>1, <3>1 DEF Reaches, Found, ToSet
      <4> QED BY <4>1, <4>2
    <3>3. ASSUME pc = "load"
          PROVE  /\ TableOf(DOMAIN seen, table)'
                 /\ Tells(Shape(DOMAIN seen), DOMAIN seen, seen, table, {})'
      <4>1. PICK R : R = DOMAIN seen
        OBVIOUS
      <4>2. TableOf(R, table) /\ Tells(Shape(R), R, seen, table, {})
        BY <3>3, <4>1 DEF TableInv, OnScreen
      <4>3. TableOf(R, table)'
        BY <2>1, <4>2, TableStands
      <4>4. Tells(Shape(R), R, seen, table, {})'
        BY <2>1, <4>2 DEF Shape, Tells
      <4>5. R = DOMAIN seen'
        BY <2>1, <4>1
      <4> QED BY <4>3, <4>4, <4>5
    <3> QED BY <2>1, <3>2, <3>3 DEF OnScreen
  <2>5. pc = "final" => root \in Terminal /\ Reaches(HaveRows)'
    BY <2>1 DEF Reaches, Found, HaveRows, TableInv, ToSet
  <2>6. pc = "ended" => process[Root].state \in Terminal /\ LastTableIsFinal'
    BY <2>1 DEF LastTableIsFinal, TableInv
  <2> QED BY <2>1, <2>2, <2>3, <2>4, <2>5, <2>6 DEF TableInv
<1> QED BY <1>1, <1>2, <1>3 DEF TableNext

\* The walk reads a part of the tree that holds with each process its caller, and
\* finds again whatever the table on the screen shows.
THEOREM TableInvariant == TableSpec => []TableInv
<1>1. TableInit => TableInv
    BY InitTableInv
<1>2. TableInv /\ [TableNext]_tableVars => TableInv'
    BY NextTableInv
<1> QED BY <1>1, <1>2, PTL DEF TableSpec

\* A row that has appeared is never withdrawn: whether a process has a row depends
\* on who called whom in what role, and more of the tree only splits groups.
THEOREM RowsNeverLeave == TableSpec => RowsStay
<1>1. TableInv /\ [TableNext]_tableVars => Rows(table) \subseteq Rows(table')
  <2> SUFFICES ASSUME TableInv, [TableNext]_tableVars PROVE Rows(table) \subseteq Rows(table')
    OBVIOUS
  <2>1. CASE Update \/ LastUpdate
    <3> PICK t : t = CollectRows(seen)
      OBVIOUS
    <3>1. /\ ProcessTree /\ Walk /\ todo = <<>> /\ table' = t /\ TableOf(DOMAIN seen, t)
      BY <2>1, UpdatesDraw
    <3>2. CASE table = <<>>
      <4>1. Rows(table) = {}
        BY <3>2 DEF Rows
      <4> QED BY <4>1
    <3>3. CASE table # <<>>
      <4>1. PICK S : TableOf(S, table) /\ Reaches(S)
        BY <2>1, <3>3 DEF TableInv, OnScreen, Update, LastUpdate
      <4>2. S \subseteq DOMAIN process /\ \A p \in S : p # Root => process[p].parent \in S
        BY <4>1, ShapesHaveCallers DEF HaveRows
      <4>3. S \subseteq DOMAIN seen
        BY <3>1, <4>1, <4>2, WalkReadsAll
      <4>4. Rows(table) \subseteq Rows(t)
        BY <3>1, <4>1, <4>3, MoreHasTheRows
      <4> QED BY <3>1, <4>4
    <3> QED BY <3>2, <3>3
  <2>2. CASE table' = table
    BY <2>2
  <2>3. ~(Update \/ LastUpdate) => table' = table
    BY DEF TableNext, Watch, Load, Visit, Create, Advance, Terminate, tableVars, watchVars
  <2> QED BY <2>1, <2>2, <2>3
<1> QED BY <1>1, TableInvariant, PTL DEF TableSpec, RowsStay

\* Each numbered process that shows has a line of its own, and its number.
THEOREM NumbersAlwaysTellApart == TableSpec => []NumbersTellApart
<1>1. TableInv => NumbersTellApart
  <2>1. table = <<>> => NumbersTellApart
    BY DEF NumbersTellApart
  <2>2. TableInv /\ table # <<>> => NumbersTellApart
    BY NumbersOfATable DEF TableInv, OnScreen
  <2> QED BY <2>1, <2>2
<1> QED BY <1>1, TableInvariant, PTL

\* Only the members of a fan-out, read by their numbers, leave the order in which
\* they were created.
THEOREM RowsAlwaysReadAsRun == TableSpec => []RowsReadAsRun
<1>1. TableInv => RowsReadAsRun
  <2>1. table = <<>> => RowsReadAsRun
    BY DEF RowsReadAsRun
  <2>2. TableInv /\ table # <<>> => RowsReadAsRun
    BY RunOrderOfATable DEF TableInv, OnScreen
  <2> QED BY <2>1, <2>2
<1> QED BY <1>1, TableInvariant, PTL

\* A pause that was read shows on the row that stands for the process.
THEOREM PauseAlwaysShows == TableSpec => []PausedShows
<1>1. TableInv => PausedShows
  <2>1. ~(pc = "load" /\ table # <<>>) => PausedShows
    BY DEF PausedShows
  <2>2. TableInv /\ pc = "load" /\ table # <<>> => PausedShows
    BY PauseOfATable DEF TableInv, OnScreen
  <2> QED BY <2>1, <2>2
<1> QED BY <1>1, TableInvariant, PTL

\* The last table shows each process once, and the state it ended in.
THEOREM LastTableIsAlwaysFinal == TableSpec => []LastTableIsFinal
<1>1. TableInv => LastTableIsFinal
  <2>1. pc # "ended" => LastTableIsFinal
    BY DEF LastTableIsFinal
  <2>2. TableInv /\ pc = "ended" => LastTableIsFinal
    BY DEF TableInv
  <2> QED BY <2>1, <2>2
<1> QED BY <1>1, TableInvariant, PTL
=============================================================================
