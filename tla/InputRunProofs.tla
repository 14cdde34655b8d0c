--------------------------- MODULE InputRunProofs ---------------------------
(***************************************************************************)
(* Proofs about an input file and the graph built of it, for every file    *)
(* the schema accepts, every site, and every edit the user may make.       *)
(***************************************************************************)
EXTENDS InputRun, FiniteOrders

-----------------------------------------------------------------------------
(* The blocks.                                                             *)

\* The bands below the blocks are counted up from none, block by block.
LEMMA CursorCounts ==
    ASSUME NEW w \in Seq(Nat)
    PROVE  Cursor(w) = [k \in 0..Len(w) |-> IF k = 0 THEN 0 ELSE Cursor(w)[k - 1] + w[k]]
<1> DEFINE Counts(n, g) == g = [k \in 0..n |-> IF k = 0 THEN 0 ELSE g[k - 1] + w[k]]
           S == {n \in 0..Len(w) : \E g : Counts(n, g)}
<1>1. 0 \in S
  <2>1. Counts(0, [k \in 0..0 |-> 0])
    OBVIOUS
  <2>2. \E g : Counts(0, g)
    BY <2>1
  <2> QED BY <2>2
<1>2. ASSUME NEW n \in 0..(Len(w) - 1), n \in S
      PROVE  n + 1 \in S
  <2>1. PICK g : Counts(n, g)
    BY <1>2
  <2> DEFINE h == [k \in 0..(n + 1) |-> IF k = n + 1 THEN g[n] + w[n + 1] ELSE g[k]]
  <2>2. Counts(n + 1, h)
    <3>1. ASSUME NEW k \in 0..(n + 1)
          PROVE  h[k] = IF k = 0 THEN 0 ELSE h[k - 1] + w[k]
      BY <2>1
    <3> QED BY <3>1
  <2>3. \E f : Counts(n + 1, f)
    BY <2>2
  <2> QED BY <2>3
<1>3. \A n \in 0..Len(w) : n \in S
  <2> HIDE DEF S
  <2>1. Len(w) \in Nat
    OBVIOUS
  <2>2. \A k \in 0..(Len(w) - 1) : k \in S => k + 1 \in S
    BY <1>2
  <2> QED BY ONLY <1>1, <2>1, <2>2, Counting
<1>4. PICK g : Counts(Len(w), g)
  <2>1. Len(w) \in 0..Len(w)
    OBVIOUS
  <2> QED BY <1>3, <2>1
<1> QED BY <1>4 DEF Cursor

\* The cursor starts at 0 and each block moves it by the functions it describes.
LEMMA CursorSteps ==
    ASSUME NEW w \in Seq(Nat)
    PROVE  /\ Cursor(w)[0] = 0
           /\ \A k \in DOMAIN w : Cursor(w)[k] = Cursor(w)[k - 1] + w[k]
<1>1. 0 \in 0..Len(w) /\ \A k \in DOMAIN w : k \in 0..Len(w) /\ k # 0
    OBVIOUS
<1> QED BY <1>1, CursorCounts

\* The cursor is a number at every block.
LEMMA CursorIsNumber ==
    ASSUME NEW w \in Seq(Nat), NEW k \in 0..Len(w)
    PROVE  Cursor(w)[k] \in Nat
<1> DEFINE S == {n \in 0..Len(w) : Cursor(w)[n] \in Nat}
<1>1. 0 \in S
    BY CursorSteps
<1>2. ASSUME NEW n \in 0..(Len(w) - 1), n \in S
      PROVE  n + 1 \in S
  <2>1. n + 1 \in DOMAIN w /\ w[n + 1] \in Nat
    OBVIOUS
  <2>2. Cursor(w)[n + 1] = Cursor(w)[n] + w[n + 1]
    BY <2>1, CursorSteps
  <2> QED BY <1>2, <2>1, <2>2
<1>3. \A n \in 0..Len(w) : n \in S
  <2> HIDE DEF S
  <2>1. Len(w) \in Nat
    OBVIOUS
  <2>2. \A n \in 0..(Len(w) - 1) : n \in S => n + 1 \in S
    BY <1>2
  <2> QED BY ONLY <1>1, <2>1, <2>2, Counting
<1> QED BY <1>3

\* A later block lies above an earlier one.
LEMMA CursorGrows ==
    ASSUME NEW w \in Seq(Nat), NEW i \in 0..Len(w), NEW j \in i..Len(w)
    PROVE  Cursor(w)[i] <= Cursor(w)[j]
<1> DEFINE S == {n \in 0..Len(w) : i <= n => Cursor(w)[i] <= Cursor(w)[n]}
<1>1. 0 \in S
    BY CursorIsNumber
<1>2. ASSUME NEW n \in 0..(Len(w) - 1), n \in S
      PROVE  n + 1 \in S
  <2>1. n + 1 \in DOMAIN w /\ w[n + 1] \in Nat
    OBVIOUS
  <2>2. Cursor(w)[n + 1] = Cursor(w)[n] + w[n + 1]
    BY <2>1, CursorSteps
  <2>3. Cursor(w)[n] \in Nat /\ Cursor(w)[n + 1] \in Nat /\ Cursor(w)[i] \in Nat
    BY CursorIsNumber
  <2>4. CASE i <= n
    BY <1>2, <2>1, <2>2, <2>3, <2>4
  <2>5. CASE i = n + 1
    BY <2>3, <2>5
  <2> QED BY <2>4, <2>5
<1>3. \A n \in 0..Len(w) : n \in S
  <2> HIDE DEF S
  <2>1. Len(w) \in Nat
    OBVIOUS
  <2>2. \A k \in 0..(Len(w) - 1) : k \in S => k + 1 \in S
    BY <1>2
  <2> QED BY ONLY <1>1, <2>1, <2>2, Counting
<1> QED BY <1>3

\* Where a block starts and ends: the last one alone takes the extra bands.
LEMMA RangeOfBlock ==
    ASSUME NEW w \in Seq(Nat), NEW nbnd \in Nat, NEW i \in 1..Len(w)
    PROVE  /\ Below(w, i) \in Nat /\ w[i] \in Nat
           /\ Cursor(w)[i] = Below(w, i) + w[i]
           /\ Cursor(w)[i] <= NumWann(w)
           /\ NumWann(w) \in Nat
           /\ i < Len(w) => Extra(w, i, nbnd) = 0
           /\ i = Len(w) => /\ Cursor(w)[i] = NumWann(w)
                            /\ Extra(w, i, nbnd) = nbnd - NumWann(w)
<1>1. i \in 1..Len(w) /\ i - 1 \in 0..Len(w) /\ i \in 0..Len(w) /\ Len(w) \in i..Len(w)
      /\ Len(w) \in 0..Len(w) /\ w[i] \in Nat
    OBVIOUS
<1>2. Cursor(w)[i] = Cursor(w)[i - 1] + w[i]
    BY CursorSteps
<1>3. Cursor(w)[i - 1] \in Nat /\ Cursor(w)[Len(w)] \in Nat
    BY <1>1, CursorIsNumber
<1>4. Cursor(w)[i] <= Cursor(w)[Len(w)]
    BY <1>1, CursorGrows
<1>5. Below(w, i) = Cursor(w)[i - 1] /\ NumWann(w) = Cursor(w)[Len(w)]
    BY DEF Below, NumWann
<1>6. Extra(w, i, nbnd) = IF i = Len(w) THEN nbnd - NumWann(w) ELSE 0
    BY DEF Extra
<1>7. CASE i = Len(w)
    BY <1>1, <1>2, <1>3, <1>5, <1>6, <1>7
<1>8. CASE i < Len(w)
    BY <1>1, <1>2, <1>3, <1>4, <1>5, <1>6, <1>8
<1> QED BY <1>1, <1>7, <1>8

\* Two blocks of one filling are counted apart.
LEMMA LabelsDiffer ==
    ASSUME NEW n \in Nat, NEW fillings, NEW i \in 1..n, NEW j \in 1..n, i < j
    PROVE  Label(fillings, i) # Label(fillings, j)
<1> DEFINE Alike(k) == {l \in 1..k : fillings[l] = fillings[k]}
<1>1. SUFFICES ASSUME fillings[i] = fillings[j], fillings[i] # "unsettled",
                      Cardinality(Alike(i)) = Cardinality(Alike(j))
               PROVE  FALSE
    BY DEF Label
<1>2. IsFiniteSet(Alike(j))
  <2>1. IsFiniteSet(1..j)
    BY FS_Interval
  <2> QED BY <2>1, FS_Subset
<1>3. Alike(i) \subseteq Alike(j) /\ j \in Alike(j) /\ j \notin Alike(i)
    BY <1>1
<1>4. Cardinality(Alike(i)) = Cardinality(Alike(j)) => Alike(i) = Alike(j)
  <2> HIDE DEF Alike
  <2> QED BY <1>2, <1>3, FS_Subset
<1> QED BY <1>1, <1>3, <1>4

\* The blocks of stated projections follow one another from the lowest band up.
LEMMA ExplicitBlocksAreInOrder ==
    ASSUME NEW w \in Seq(Nat), NEW nbnd \in Nat, NEW nocc
    PROVE  InOrder(CreateExplicitBlocks(w, nbnd, nocc))
<1> DEFINE blocks == CreateExplicitBlocks(w, nbnd, nocc)
           fillings == [i \in DOMAIN w |-> Filling(BandRange(w, i, nbnd), nbnd, nocc)]
<1>1. Len(w) \in Nat
    OBVIOUS
<1>2. /\ DOMAIN blocks = 1..Len(w)
      /\ \A i \in 1..Len(w) : /\ blocks[i].range = BandRange(w, i, nbnd)
                             /\ blocks[i].label = Label(fillings, i)
    BY DEF CreateExplicitBlocks
<1> HIDE DEF blocks
<1>3. ASSUME NEW i \in 1..Len(w)
      PROVE  blocks[i].range.start = IF i = 1 THEN 1 ELSE blocks[i - 1].range.end + 1
  <2>0. blocks[i].range = BandRange(w, i, nbnd)
    BY <1>2
  <2>1. blocks[i].range.start = Cursor(w)[i - 1] + 1
    BY <2>0 DEF BandRange, Below
  <2>2. CASE i = 1
    BY <2>1, <2>2, CursorSteps
  <2>3. CASE i # 1
    <3>1. i - 1 \in 1..Len(w)
      BY <1>1, <2>3
    <3>2. blocks[i - 1].range = BandRange(w, i - 1, nbnd)
      BY <1>2, <3>1
    <3>3. blocks[i - 1].range.end = Cursor(w)[i - 1]
      BY <3>1, <3>2, RangeOfBlock DEF BandRange
    <3> QED BY <2>1, <2>3, <3>3
  <2> QED BY <2>2, <2>3
<1>4. ASSUME NEW i \in 1..Len(w), NEW j \in 1..Len(w)
      PROVE  /\ i # j => blocks[i].label # blocks[j].label
             /\ i < j => blocks[i].range.num_bands = blocks[i].range.num_wann
  <2>1. i # j => blocks[i].label # blocks[j].label
    <3>1. i < j => Label(fillings, i) # Label(fillings, j)
      <4> HIDE DEF fillings
      <4> QED BY <1>1, LabelsDiffer
    <3>2. j < i => Label(fillings, i) # Label(fillings, j)
      <4> HIDE DEF fillings
      <4> QED BY <1>1, LabelsDiffer
    <3> HIDE DEF fillings
    <3> QED BY <1>1, <1>2, <3>1, <3>2
  <2>2. i < j => Extra(w, i, nbnd) = 0 /\ w[i] \in Nat
    BY <1>1, RangeOfBlock
  <2>3. blocks[i].range = BandRange(w, i, nbnd)
    BY <1>2
  <2> QED BY <2>1, <2>2, <2>3 DEF BandRange
<1> QED BY <1>2, <1>3, <1>4 DEF InOrder, blocks

\* Each reads or excludes every band, where the bands are enough for them.
LEMMA ExplicitBlocksAreAccounted ==
    ASSUME NEW w \in Seq(Nat), NEW nbnd \in Nat, NEW nocc, NumWann(w) <= nbnd
    PROVE  Accounted(CreateExplicitBlocks(w, nbnd, nocc), nbnd)
<1> DEFINE blocks == CreateExplicitBlocks(w, nbnd, nocc)
<1>1. Len(w) \in Nat
    OBVIOUS
<1>2. /\ DOMAIN blocks = 1..Len(w)
      /\ \A i \in 1..Len(w) : /\ blocks[i].range = BandRange(w, i, nbnd)
                             /\ blocks[i].exclude = ExcludedBands(BandRange(w, i, nbnd), nbnd)
    BY DEF CreateExplicitBlocks
<1> HIDE DEF blocks
<1>3. ASSUME NEW i \in 1..Len(w)
      PROVE  /\ blocks[i].exclude \cup Reads(blocks[i]) = 1..nbnd
             /\ blocks[i].exclude \cap Reads(blocks[i]) = {}
  <2> DEFINE below == Below(w, i)
             size == w[i]
             extra == Extra(w, i, nbnd)
  <2>1. below \in Nat /\ size \in Nat /\ extra \in Nat /\ below + size <= nbnd
        /\ (extra # 0 => below + size + extra = nbnd)
    <3>0. NumWann(w) \in Nat
      BY RangeOfBlock
    <3>1. CASE i = Len(w)
      <4>1. /\ below \in Nat /\ size \in Nat /\ below + size = NumWann(w)
            /\ extra = nbnd - NumWann(w)
        BY <3>1, RangeOfBlock
      <4> DEFINE total == NumWann(w)
      <4>2. /\ below \in Nat /\ size \in Nat /\ total \in Nat /\ total <= nbnd
            /\ below + size = total /\ extra = nbnd - total
        BY <3>0, <4>1
      <4> HIDE DEF below, size, extra, total
      <4> QED BY ONLY nbnd \in Nat, <4>2
    <3>2. CASE i < Len(w)
      BY <3>2, RangeOfBlock
    <3> QED BY <1>1, <3>1, <3>2
  <2>0. /\ blocks[i].range = BandRange(w, i, nbnd)
        /\ blocks[i].exclude = ExcludedBands(BandRange(w, i, nbnd), nbnd)
    BY <1>2
  <2>2. /\ Reads(blocks[i]) = (below + 1)..(below + size + extra)
        /\ blocks[i].exclude = IF size + extra > size THEN 1..below
                               ELSE (1..nbnd) \ ((below + 1)..(below + size))
    <3>1. /\ blocks[i].range.start = below + 1
          /\ blocks[i].range.num_bands = size + extra
      BY <2>0 DEF BandRange
    <3>2. ExcludedBands(BandRange(w, i, nbnd), nbnd) =
              IF size + extra > size THEN 1..((below + 1) - 1)
              ELSE (1..nbnd) \ ((below + 1)..(below + size))
      BY DEF ExcludedBands, BandRange
    <3> HIDE DEF below, size, extra
    <3>3. (below + 1) - 1 = below /\ (below + 1) + (size + extra) - 1 = below + size + extra
      BY <2>1
    <3> QED BY <2>0, <3>1, <3>2, <3>3 DEF Reads
  <2> HIDE DEF below, size, extra
  <2>3. CASE extra = 0
    BY <2>1, <2>2, <2>3
  <2>4. CASE extra # 0
    BY <2>1, <2>2, <2>4
  <2> QED BY <2>3, <2>4
<1> QED BY <1>2, <1>3 DEF Accounted, blocks

-----------------------------------------------------------------------------
(* The guards, and the graph of each route.                                *)

\* A chain of guards holds nothing back when no guard of it does.
LEMMA Chained == \A a, b : (a || b) = {} <=> a = {} /\ b = {}
<1> QED BY DEF ||

\* A guard complains when its condition holds.
LEMMA Unmet == \A condition, complaint : When(condition, complaint) = {} <=> ~condition
<1> QED BY DEF When

\* The keywords the argument reads, and what the schema has under them.
LEMMA FileTypes ==
    ASSUME NEW f, WellFormed(f)
    PROVE  /\ f.projections \in Seq(Nat) /\ f.up \in Seq(Nat) /\ f.down \in Seq(Nat)
           /\ f.nbnd \in Nat /\ f.pw_nbnd \in Nat /\ f.kcp_nbnd \in Nat
           /\ f.wannierize \in Nat
           /\ f.gamma_only \in BOOLEAN /\ f.path \in BOOLEAN /\ f.calculate_alpha \in BOOLEAN
           /\ f.tot_magnetization \in Seq(Int)
           /\ f.scf.stated \in BOOLEAN /\ f.dielectric.stated \in BOOLEAN
<1> QED BY DEF WellFormed, Schema, StepEntries

\* A keyword rewritten with a value of the schema leaves the file well-formed.
LEMMA OneKeywordChanged ==
    ASSUME NEW f, WellFormed(f), NEW keyword \in DOMAIN Schema, NEW value \in Schema[keyword]
    PROVE  WellFormed([f EXCEPT ![keyword] = value])
<1> QED BY DEF WellFormed

\* Reading settles the grouping and leaves the rest of the file alone.
LEMMA ParseKeeps ==
    ASSUME NEW f, WellFormed(f)
    PROVE  /\ WellFormed(Parse(f))
           /\ Parse(f) = [f EXCEPT !.group_by = Parse(f).group_by,
                                   !.group_tol = Parse(f).group_tol]
<1> DEFINE Regrouped(by, tol) == [f EXCEPT !.group_by = by, !.group_tol = tol]
           Groupings == {"unset", "none", "self_hartree", "spread"}
           Tolerances == {"unset", "stated", "default"}
<1>1. /\ "group_by" \in DOMAIN Schema /\ Schema["group_by"] = Groupings
      /\ "group_tol" \in DOMAIN Schema /\ Schema["group_tol"] = Tolerances
    BY DEF Schema
<1>2. /\ f = [keyword \in DOMAIN Schema |-> f[keyword]]
      /\ f.group_by \in Groupings /\ f.group_tol \in Tolerances
    BY <1>1 DEF WellFormed
<1>3. \E by \in Groupings, tol \in Tolerances : Parse(f) = Regrouped(by, tol)
  <2>1. \E by \in Groupings : DefaultGroupingToNone(f) = [f EXCEPT !.group_by = by]
    BY <1>1, <1>2 DEF DefaultGroupingToNone
  <2>2. PICK first \in Groupings : DefaultGroupingToNone(f) = [f EXCEPT !.group_by = first]
    BY <2>1
  <2>3. ASSUME NEW g, g = [f EXCEPT !.group_by = first]
        PROVE  \E by \in Groupings, tol \in Tolerances :
                   ResolveGroupOrbitalsBy(g) = [g EXCEPT !.group_by = by, !.group_tol = tol]
    BY <1>1, <1>2, <2>3 DEF ResolveGroupOrbitalsBy
  <2>4. \A by, tol : [[f EXCEPT !.group_by = first] EXCEPT !.group_by = by, !.group_tol = tol]
                        = Regrouped(by, tol)
    BY <1>1, <1>2
  <2> DEFINE g == [f EXCEPT !.group_by = first]
  <2>5. Parse(f) = ResolveGroupOrbitalsBy(g)
    BY <2>2 DEF Parse
  <2>6. PICK by \in Groupings, tol \in Tolerances :
            ResolveGroupOrbitalsBy(g) = [g EXCEPT !.group_by = by, !.group_tol = tol]
    BY <2>3
  <2>7. Parse(f) = Regrouped(by, tol)
    BY <2>4, <2>5, <2>6
  <2> QED BY <2>7
<1>4. PICK by \in Groupings, tol \in Tolerances : Parse(f) = Regrouped(by, tol)
    BY <1>3
<1>5. Parse(f).group_by = by /\ Parse(f).group_tol = tol
    BY <1>1, <1>2, <1>4
<1>6. WellFormed([f EXCEPT !.group_by = by])
    BY <1>1, OneKeywordChanged
<1>7. WellFormed([[f EXCEPT !.group_by = by] EXCEPT !.group_tol = tol])
    BY <1>1, <1>6, OneKeywordChanged
<1> QED BY <1>4, <1>5, <1>7

\* A file that is not refused passed the guards of one route, which builds its graph.
LEMMA BuiltByRoute ==
    ASSUME NEW f, NEW s, BuildRefusals(f, s) = {}
    PROVE  /\ RouteGuards(f, s) = {}
           /\ KeywordGuards(f) = {} /\ ComputerGuards(f, s) = {} /\ SchedulerGuards(f, s) = {}
           /\ \/ /\ HasSnapshots(f)
                 /\ SnapshotsGuards(f, s) = {} /\ RouteGraph(f, s) = SnapshotsGraph(f, s)
              \/ /\ ~HasSnapshots(f) /\ f.task = "dft_bands"
                 /\ DftBandsGuards(f, s) = {} /\ RouteGraph(f, s) = DftBandsGraph(f)
              \/ /\ ~HasSnapshots(f) /\ f.task = "dft_eps"
                 /\ DftEpsGuards(f, s) = {} /\ RouteGraph(f, s) = DftEpsGraph(f)
              \/ /\ ~HasSnapshots(f) /\ f.task = "wannierize"
                 /\ WannierizeGuards(f, s) = {} /\ RouteGraph(f, s) = WannierizeGraph(f, s)
              \/ /\ ~HasSnapshots(f) /\ f.task = "bse"
                 /\ BseGuards(f, s) = {} /\ RouteGraph(f, s) = BseGraph(f, s)
              \/ /\ ~HasSnapshots(f) /\ f.task = "singlepoint" /\ f.formalism = "dfpt"
                 /\ DfptGuards(f, s) = {} /\ RouteGraph(f, s) = DfptGraph(f, s)
              \/ /\ ~HasSnapshots(f) /\ f.task = "singlepoint" /\ f.formalism # "dfpt"
                 /\ DscfGuards(f, s) = {} /\ RouteGraph(f, s) = DscfGraph(f, s)
<1>1. /\ RouteGuards(f, s) = {}
      /\ KeywordGuards(f) = {} /\ ComputerGuards(f, s) = {} /\ SchedulerGuards(f, s) = {}
    BY Chained DEF BuildRefusals
<1>2. HasSnapshots(f) \/ f.task \in {"dft_bands", "dft_eps", "wannierize", "bse", "singlepoint"}
    BY <1>1 DEF RouteGuards
<1> QED BY <1>1, <1>2 DEF RouteGuards, RouteGraph

\* A path the reading let through is one the route of the file interpolates.
LEMMA RoutesServeThePath ==
    ASSUME NEW f, NEW s, WellFormed(f), BuildRefusals(f, s) = {},
           BandPathRefusal(f) = {}, NamesBandPath(f),
           NEW g, g = BuildWorkgraph(f, s)
    PROVE  /\ g.bands # 0
           /\ g.channels # <<>> \/ g.entry = "Wannierize" => g.interpolation # 0
<1>1. g = RouteGraph(f, s)
    BY DEF BuildWorkgraph
<1>2. /\ ~(HasSnapshots(f) /\ f.task = "singlepoint" /\ f.formalism # "dfpt")
      /\ ~(~HasSnapshots(f) /\ f.task = "dft_eps")
      /\ ~(/\ ~HasSnapshots(f) /\ f.task = "singlepoint" /\ f.formalism = "dscf"
           /\ DscfInitializationIsSupported(f) /\ ~WannierInit(f))
    BY DEF BandPathRefusal, ||, When
<1>3. InterpolationPath(f, TopDensity) = 10 /\ WannierizeInterpolationPath(f) # 0
    BY FileTypes
    DEF InterpolationPath, TopDensity, WannierizeInterpolationPath, DefaultWannierDensity
<1>4. CASE HasSnapshots(f) /\ SnapshotsGuards(f, s) = {}
  <2>1. f.task = "singlepoint" /\ f.formalism # "dfpt"
    BY <1>4 DEF SnapshotsGuards, ||, When
  <2> QED BY <1>2, <1>4, <2>1
<1>5. CASE RouteGraph(f, s) = DftBandsGraph(f)
    BY <1>1, <1>3, <1>5 DEF DftBandsGraph, NoGraph
<1>6. CASE RouteGraph(f, s) = WannierizeGraph(f, s)
    BY <1>1, <1>3, <1>6 DEF WannierizeGraph, BlockwiseGraph, OneManifoldGraph, NoGraph
<1>7. CASE RouteGraph(f, s) \in {DfptGraph(f, s), BseGraph(f, s)}
  <2>1. DfptGraph(f, s).bands = 10
        /\ DfptGraph(f, s).interpolation = WannierizeInterpolationPath(f)
    BY NamesBandPath(f) DEF DfptGraph, BandInterpolation, TopDensity, NoGraph
  <2>2. BseGraph(f, s).bands = 10
        /\ BseGraph(f, s).interpolation = WannierizeInterpolationPath(f)
    BY <2>1, NamesBandPath(f) DEF BseGraph, DfptGraph, BandInterpolation, NoGraph
  <2> QED BY <1>1, <1>3, <1>7, <2>1, <2>2
<1>8. CASE /\ ~HasSnapshots(f) /\ f.task = "singlepoint" /\ f.formalism # "dfpt"
           /\ DscfGuards(f, s) = {} /\ RouteGraph(f, s) = DscfGraph(f, s)
    BY <1>1, <1>3, <1>8, NamesBandPath(f)
    DEF DscfGraph, BandInterpolation, WannierInitGraph, TopDensity, NoGraph
<1> QED BY <1>2, <1>4, <1>5, <1>6, <1>7, <1>8, BuiltByRoute, Zenon

\* Every route passes the options of the codes as they are resolved.
LEMMA RoutesPassTheOptions ==
    ASSUME NEW f, NEW s, BuildRefusals(f, s) = {}, NEW g, g = BuildWorkgraph(f, s)
    PROVE  /\ g.mapping = AsMapping(f)
           /\ g.seeded \in {<<>>, <<CodeParallelization(f, "pw")>>}
<1> DEFINE Passed(x) == /\ x.mapping = AsMapping(f)
                        /\ x.seeded \in {<<>>, <<CodeParallelization(f, "pw")>>}
<1>1. g = RouteGraph(f, s)
    BY DEF BuildWorkgraph
<1>2. Passed(SnapshotsGraph(f, s))
    BY DEF SnapshotsGraph, WannierInitGraph, NoGraph
<1>3. Passed(DftBandsGraph(f)) /\ Passed(DftEpsGraph(f))
    BY DEF DftBandsGraph, DftEpsGraph, NoGraph
<1>4. Passed(WannierizeGraph(f, s))
    BY DEF WannierizeGraph, BlockwiseGraph, OneManifoldGraph, NoGraph
<1>5. Passed(DfptGraph(f, s))
    BY DEF DfptGraph, BandInterpolation, NoGraph
<1>6. Passed(BseGraph(f, s))
    BY <1>5 DEF BseGraph, DfptGraph, BandInterpolation, NoGraph
<1>7. Passed(DscfGraph(f, s))
    BY DEF DscfGraph, BandInterpolation, WannierInitGraph, NoGraph
<1>8. RouteGraph(f, s) \in {SnapshotsGraph(f, s), DftBandsGraph(f), DftEpsGraph(f),
                             WannierizeGraph(f, s), DfptGraph(f, s), BseGraph(f, s),
                             DscfGraph(f, s)}
    BY BuiltByRoute
<1> HIDE DEF Passed
<1>9. Passed(g)
    BY <1>1, <1>2, <1>3, <1>4, <1>5, <1>6, <1>7, <1>8
<1> QED BY <1>9 DEF Passed

\* What a code is told by the mapping is what the file says of it, and of
\* the run where it says nothing of the code: a code that is not in the
\* mapping is one of which neither says anything.
LEMMA MappingTells ==
    ASSUME NEW f, NEW code \in AllCodes
    PROVE  /\ DirectivesOfMapping(AsMapping(f), code) =
                  [resources |-> Directive(f, code).ntasks,
                   cmdline |-> [npool |-> Directive(f, code).npool,
                                pd |-> Directive(f, code).pd = "on"],
                   max_wallclock_seconds |-> EffectiveWalltime(f, code),
                   account |-> f.account, queue_name |-> f.queue]
           /\ Directive(f, code).omp # 0 \/ Directive(f, code).roles # 0 =>
                  /\ code \in DOMAIN AsMapping(f)
                  /\ AsMapping(f)[code].omp = Directive(f, code).omp
                  /\ AsMapping(f)[code].roles = Directive(f, code).roles
<1> DEFINE fields == Directive(f, code)
           entry == MappingEntry(f, code)
<1>1. /\ entry.ntasks = fields.ntasks /\ entry.npool = fields.npool
      /\ entry.pd = fields.pd /\ entry.omp = fields.omp /\ entry.roles = fields.roles
      /\ entry.max_wallclock_seconds = EffectiveWalltime(f, code)
      /\ entry.account = f.account /\ entry.queue_name = f.queue
    BY DEF MappingEntry
<1>2. CASE entry # NoFields
  <2>1. code \in DOMAIN AsMapping(f) /\ AsMapping(f)[code] = entry
    BY <1>2 DEF AsMapping
  <2> HIDE DEF fields, entry
  <2> QED BY <1>1, <2>1 DEF DirectivesOfMapping, fields
<1>3. CASE entry = NoFields
  <2>1. code \notin DOMAIN AsMapping(f)
    BY <1>3 DEF AsMapping
  <2>2. NoFields.omp = 0 /\ NoFields.roles = 0
    BY DEF NoFields
  <2> HIDE DEF fields, entry
  <2> QED BY <1>1, <1>3, <2>1, <2>2 DEF DirectivesOfMapping, fields
<1> QED BY <1>2, <1>3

-----------------------------------------------------------------------------
(* The mesh of the dielectric step.                                        *)

\* The first entry that states a part, where there is one entry.
LEMMA LeastOfOne == Min({1}) = 1
<1> QED BY DEF Min

\* The scf step samples the mesh or the spacing of its own entry.
LEMMA ScfSampling ==
    ASSUME NEW f, WellFormed(f), ~StepEntryRefused(f.scf)
    PROVE  LET sampling == PinStepKpoints(f, "scf")
           IN  /\ sampling.spacing = IF f.scf.stated THEN f.scf.spacing ELSE 0
               /\ sampling.grid = IF f.scf.stated /\ f.scf.spacing # 0 THEN <<>>
                                  ELSE IF f.scf.stated /\ f.scf.grid # <<>> THEN f.scf.grid
                                  ELSE f.grid
<1>0. f.scf.stated \in BOOLEAN
    BY FileTypes
<1>1. EntriesOf(f, "scf") = <<f.scf>>
    BY DEF EntriesOf
<1>2. StepGridSpacing(f, "scf") = IF f.scf.stated THEN f.scf.spacing ELSE 0
  <2> DEFINE entries == <<f.scf>>
             stating == {i \in DOMAIN entries :
                            /\ entries[i].stated
                            /\ (entries[i].spacing # 0 \/ entries[i].grid # <<>>)}
  <2>1. StepGridSpacing(f, "scf") = IF stating = {} THEN 0 ELSE entries[Min(stating)].spacing
    BY <1>1 DEF StepGridSpacing, Nearest
  <2>2. CASE f.scf.stated /\ (f.scf.spacing # 0 \/ f.scf.grid # <<>>)
    <3>1. stating = {1}
      BY <2>2
    <3>2. Min(stating) = 1 /\ entries[1] = f.scf
      BY <3>1, LeastOfOne
    <3> HIDE DEF entries, stating
    <3> QED BY <2>1, <2>2, <3>1, <3>2
  <2>3. CASE ~(f.scf.stated /\ (f.scf.spacing # 0 \/ f.scf.grid # <<>>))
    <3>1. stating = {}
      BY <2>3
    <3> QED BY <2>1, <2>3, <3>1
  <2> QED BY <2>2, <2>3
<1>3. /\ StepKpointsMesh(f, "scf").grid =
            IF f.scf.stated /\ f.scf.grid # <<>> THEN f.scf.grid ELSE f.grid
      /\ StepKpointsMesh(f, "scf").spacing = 0
  <2> DEFINE entries == <<f.scf>>
             stating == {i \in DOMAIN entries :
                            entries[i].stated /\ entries[i].grid # <<>>}
  <2>1. StepKpointsMesh(f, "scf") =
            Mesh(IF stating = {} THEN f.grid ELSE entries[Min(stating)].grid,
                 StepOffset(f, "scf"))
    BY <1>1 DEF StepKpointsMesh, Nearest
  <2>2. CASE f.scf.stated /\ f.scf.grid # <<>>
    <3>1. stating = {1}
      BY <2>2
    <3>2. Min(stating) = 1 /\ entries[1] = f.scf
      BY <3>1, LeastOfOne
    <3> HIDE DEF entries, stating
    <3> QED BY <2>1, <2>2, <3>1, <3>2 DEF Mesh
  <2>3. CASE ~(f.scf.stated /\ f.scf.grid # <<>>)
    <3>1. stating = {}
      BY <2>3
    <3> HIDE DEF entries, stating
    <3>2. StepKpointsMesh(f, "scf") = Mesh(f.grid, StepOffset(f, "scf"))
      BY <2>1, <3>1
    <3> QED BY <2>3, <3>2 DEF Mesh
  <2> QED BY <2>2, <2>3
<1>4. CASE f.scf.stated /\ f.scf.spacing # 0
    BY <1>2, <1>4 DEF PinStepKpoints, Spaced
<1>5. CASE ~(f.scf.stated /\ f.scf.spacing # 0)
  <2>1. StepGridSpacing(f, "scf") = 0
    BY <1>2, <1>5
  <2>2. PinStepKpoints(f, "scf") = StepKpointsMesh(f, "scf")
    BY <2>1 DEF PinStepKpoints
  <2> QED BY <1>0, <1>3, <1>5, <2>2
<1> QED BY <1>4, <1>5

\* The mesh the notice names is the one the step samples.
LEMMA DefaultMeshIsSampled ==
    ASSUME NEW f, WellFormed(f), ~StepEntryRefused(f.scf)
    PROVE  /\ f.formalism # "dscf" =>
                 /\ DefaultDielectricMesh(f).grid = PinStepKpoints(f, "scf").grid
                 /\ DefaultDielectricMesh(f).spacing = PinStepKpoints(f, "scf").spacing
           /\ f.formalism = "dscf" => DefaultDielectricMesh(f) = Mesh(f.grid, f.offset)
<1> QED BY ScfSampling DEF DefaultDielectricMesh, Mesh, Spaced, StepEntryRefused

\* The dielectric step samples nothing of its own only where no entry states a mesh.
LEMMA NothingSampled ==
    ASSUME NEW f, WellFormed(f), DielectricKpoints(f) = NoSampling
    PROVE  f.gamma_only \/ ~f.dielectric.stated
<1> QED BY FileTypes
    DEF DielectricKpoints, NoSampling, StepSpacingMesh, StepKpointsMesh, Mesh

-----------------------------------------------------------------------------
(* What a file that is read is known to be.                                *)

\* Reading complains of nothing when no block does.
LEMMA NoneOf == \A S, T : S \cup T = {} <=> S = {} /\ T = {}
<1> QED OBVIOUS

\* What reading a file without complaint tells of the parsed one.
LEMMA ReadFile ==
    ASSUME NEW raw, WellFormed(raw), ParseRefusals(raw) = {}, NEW f, f = Parse(raw)
    PROVE  /\ ~(f.task = "singlepoint" /\ f.formalism = "unset")
           /\ ~(f.task = "bse" /\ f.formalism = "dscf")
           /\ ~StepEntryRefused(f.scf)
           /\ NamesBandPath(raw) => NamesBandPath(f) /\ BandPathRefusal(f) = {}
           /\ f.nbnd = raw.nbnd /\ f.pw_nbnd = raw.pw_nbnd
           /\ f.parallelization = raw.parallelization /\ f.walltime = raw.walltime
           /\ f.account = raw.account /\ f.queue = raw.queue
           /\ ScreensRegardless(f) <=> ScreensRegardless(raw)
<1> DEFINE Agrees(g) == /\ g.task = raw.task /\ g.formalism = raw.formalism
                        /\ g.scf = raw.scf /\ g.gamma_only = raw.gamma_only
                        /\ g.path = raw.path /\ g.positions = raw.positions
                        /\ g.init = raw.init /\ g.periodic = raw.periodic
                        /\ g.parallelization = raw.parallelization
                        /\ g.walltime = raw.walltime
                        /\ g.account = raw.account /\ g.queue = raw.queue
                        /\ g.nbnd = raw.nbnd /\ g.pw_nbnd = raw.pw_nbnd
                        /\ g.calculate_alpha = raw.calculate_alpha
<1>1. Agrees(f)
  <2>1. {"task", "formalism", "scf", "gamma_only", "path", "positions", "init", "periodic",
         "parallelization", "walltime", "account", "queue", "nbnd", "pw_nbnd",
         "calculate_alpha"} \subseteq DOMAIN Schema
    BY DEF Schema
  <2>2. raw = [keyword \in DOMAIN Schema |-> raw[keyword]]
    BY DEF WellFormed
  <2>3. f = [raw EXCEPT !.group_by = f.group_by, !.group_tol = f.group_tol]
    BY ParseKeeps
  <2> QED BY <2>1, <2>2, <2>3
<1>2. /\ WorkflowRefusals(raw) = {} /\ AtomsRefusals(raw) = {} /\ KpointsRefusals(raw) = {}
    BY NoneOf DEF ParseRefusals, ||
<1>3. /\ ~(raw.task = "singlepoint" /\ raw.formalism = "unset")
      /\ ~(raw.task = "bse" /\ raw.formalism = "dscf")
    BY <1>2 DEF WorkflowRefusals, ||, When
<1>4. OverridesRefusals(raw) = {}
    BY <1>2, Chained DEF KpointsRefusals
<1>5. ~StepEntryRefused(raw.scf)
    BY <1>4 DEF OverridesRefusals, ||, When
<1>6. NamesBandPath(raw) => BandPathRefusal(raw) = {}
    BY <1>2, Chained DEF KpointsRefusals
<1>7. BandPathRefusal(f) = BandPathRefusal(raw)
    BY <1>1 DEF BandPathRefusal, HasSnapshots, DscfInitializationIsSupported, WannierInit
<1>8. NamesBandPath(f) <=> NamesBandPath(raw)
    BY <1>1 DEF NamesBandPath
<1>9. ScreensRegardless(f) <=> ScreensRegardless(raw)
    BY <1>1 DEF ScreensRegardless
<1> QED BY <1>1, <1>3, <1>5, <1>6, <1>7, <1>8, <1>9

\* The routes that compute the dielectric constant, what they sample for it
\* where the file states nothing, and that no notice calls it idle.
LEMMA DielectricRoutes ==
    ASSUME NEW f, NEW s, WellFormed(f), BuildRefusals(f, s) = {},
           ~(f.task = "singlepoint" /\ f.formalism = "unset"),
           ~(f.task = "bse" /\ f.formalism = "dscf"),
           ~ScreensRegardless(f),
           NEW g, g = BuildWorkgraph(f, s), RunsDielectricStep(g)
    PROVE  /\ f.task \in {"singlepoint", "bse"} /\ f.eps_inf = "auto" /\ EpsInfInert(f) = {}
           /\ g.eps_kpoints = DielectricKpoints(f)
           /\ g.scf = IF f.formalism = "dscf" THEN Mesh(f.grid, f.offset)
                      ELSE PinStepKpoints(f, "scf")
<1>1. g = RouteGraph(f, s) /\ g.eps_inf = "auto"
    BY DEF BuildWorkgraph, RunsDielectricStep
<1>2. ~(/\ HasSnapshots(f) /\ SnapshotsGuards(f, s) = {}
        /\ RouteGraph(f, s) = SnapshotsGraph(f, s))
  <2>1. SUFFICES ASSUME SnapshotsGuards(f, s) = {}, g = SnapshotsGraph(f, s) PROVE FALSE
    BY <1>1
  <2>2. f.eps_inf # "auto"
    BY <2>1 DEF SnapshotsGuards, ||, When
  <2> QED BY <1>1, <2>1, <2>2 DEF SnapshotsGraph, WannierInitGraph, NoGraph
<1>3. RouteGraph(f, s) # DftBandsGraph(f) /\ RouteGraph(f, s) # DftEpsGraph(f)
    BY <1>1 DEF DftBandsGraph, DftEpsGraph, NoGraph
<1>4. RouteGraph(f, s) # WannierizeGraph(f, s)
    BY <1>1 DEF WannierizeGraph, BlockwiseGraph, OneManifoldGraph, NoGraph
<1>5. CASE f.task = "singlepoint" /\ f.formalism = "dfpt" /\ g = DfptGraph(f, s)
  <2>1. /\ g.entry = "SinglepointDFPT" /\ g.eps_inf = f.eps_inf
        /\ g.screened = f.calculate_alpha /\ g.eps_kpoints = DielectricKpoints(f)
        /\ g.scf = PinStepKpoints(f, "scf")
    BY <1>5 DEF DfptGraph, BandInterpolation, NoGraph
  <2> QED BY <1>1, <1>5, <2>1
      DEF RunsDielectricStep, ConsumesEpsInf, EpsInfInert, ||, When
<1>6. CASE f.task = "bse" /\ g = BseGraph(f, s)
  <2> DEFINE h == DfptGraph(f, s)
  <2>0. /\ h.eps_inf = f.eps_inf /\ h.eps_kpoints = DielectricKpoints(f)
        /\ h.scf = PinStepKpoints(f, "scf")
    BY DEF DfptGraph, BandInterpolation, NoGraph
  <2>1. g.eps_inf = f.eps_inf /\ g.eps_kpoints = DielectricKpoints(f)
        /\ g.scf = PinStepKpoints(f, "scf")
    BY <1>6, <2>0 DEF BseGraph, DfptGraph, BandInterpolation, NoGraph
  <2> QED BY <1>1, <1>6, <2>1 DEF EpsInfInert
<1>7. CASE /\ ~HasSnapshots(f) /\ f.task = "singlepoint" /\ f.formalism # "dfpt"
           /\ g = DscfGraph(f, s)
  <2>1. f.formalism = "dscf"
    BY <1>7 DEF WellFormed, Schema
  <2>2. f.ml_mode = "none"
    BY <1>7, BuiltByRoute DEF KeywordGuards, ||, When
  <2>3. WannierInit(f)
    BY <1>1, <1>7 DEF DscfGraph, BandInterpolation, WannierInitGraph, NoGraph
  <2>4. /\ g.entry = "KoopmansDSCF" /\ g.eps_inf = f.eps_inf
        /\ g.mp_correction = f.mp_correction /\ g.eps_kpoints = DielectricKpoints(f)
        /\ g.scf = Mesh(f.grid, f.offset)
    BY <1>7, <2>3 DEF DscfGraph, BandInterpolation, WannierInitGraph, NoGraph
  <2>5. f.calculate_alpha
    BY <1>7, <2>1 DEF ScreensRegardless
  <2> QED BY <1>1, <1>7, <2>1, <2>2, <2>3, <2>4, <2>5
      DEF RunsDielectricStep, ConsumesEpsInf, EpsInfInert, ||, When
<1> QED BY <1>1, <1>2, <1>3, <1>4, <1>5, <1>6, <1>7, BuiltByRoute, Zenon

\* A route that computes the dielectric constant on an unstated mesh has a notice
\* that names the mesh its scf samples.
LEMMA DielectricMeshIsAnnounced ==
    ASSUME NEW f, NEW s, WellFormed(f), BuildRefusals(f, s) = {},
           ~(f.task = "singlepoint" /\ f.formalism = "unset"),
           ~(f.task = "bse" /\ f.formalism = "dscf"),
           ~StepEntryRefused(f.scf), ~ScreensRegardless(f),
           NEW g, g = BuildWorkgraph(f, s), RunsDielectricStep(g), g.eps_kpoints = NoSampling
    PROVE  \E n \in AdvisoriesFor(f) :
              \/ n.about = "dielectric" /\ n.why = "gamma only"
              \/ /\ n.about = "eps mesh"
                 /\ n.mesh.grid = g.scf.grid
                 /\ n.mesh.spacing = g.scf.spacing
<1>1. /\ f.task \in {"singlepoint", "bse"} /\ f.eps_inf = "auto" /\ EpsInfInert(f) = {}
      /\ g.eps_kpoints = DielectricKpoints(f)
      /\ g.scf = IF f.formalism = "dscf" THEN Mesh(f.grid, f.offset)
                 ELSE PinStepKpoints(f, "scf")
    BY DielectricRoutes
<1>2. f.gamma_only \/ ~f.dielectric.stated
    BY <1>1, NothingSampled
<1>3. CASE f.dielectric.stated
  <2>1. f.gamma_only
    BY <1>2, <1>3
  <2>2. StatesEntry(f, "dielectric")
    BY <1>3 DEF StatesEntry
  <2>3. Notice("dielectric", "gamma only") \in GammaOnlyOverrideAdvisories(f)
    BY <2>2 DEF GammaOnlyOverrideAdvisories, InertSteps
  <2>4. Notice("dielectric", "gamma only") \in AdvisoriesFor(f)
    BY <2>1, <2>3 DEF AdvisoriesFor, KpointOverrideAdvisories
  <2> QED BY <2>4 DEF Notice
<1>4. CASE ~f.dielectric.stated
  <2> DEFINE n == [Notice("eps mesh", "add an entry") EXCEPT !.mesh = DefaultDielectricMesh(f)]
  <2>1. n \in EpsInfAdvisories(f)
    BY <1>1, <1>4 DEF EpsInfAdvisories
  <2>2. n \in AdvisoriesFor(f)
    BY <2>1 DEF AdvisoriesFor
  <2>3. n.about = "eps mesh" /\ n.mesh = DefaultDielectricMesh(f)
    BY DEF Notice
  <2>4. DefaultDielectricMesh(f).grid = g.scf.grid
        /\ DefaultDielectricMesh(f).spacing = g.scf.spacing
    BY <1>1, DefaultMeshIsSampled
  <2> QED BY <2>2, <2>3, <2>4
<1> QED BY <1>3, <1>4

-----------------------------------------------------------------------------
(* The blocks of each route.                                               *)

\* A channel in order, whose blocks know of the same bands and, where the
\* nscf is told how many to run, of every one of those.
Tiled(blocks, nbnd) ==
    /\ InOrder(blocks)
    /\ LaidOverOneCount(blocks)
    /\ nbnd = 0 \/ Accounted(blocks, nbnd)

\* The functions that a list of blocks describes are a number.
LEMMA NumWannIsNumber == \A w \in Seq(Nat) : NumWann(w) \in Nat
<1>1. \A w \in Seq(Nat) : Len(w) \in 0..Len(w)
    OBVIOUS
<1> QED BY <1>1, CursorIsNumber DEF NumWann

\* Stated projections tile the bands they are laid over.
LEMMA ExplicitBlocksTile ==
    ASSUME NEW w \in Seq(Nat), NEW laid \in Nat, NEW nocc, NEW nbnd,
           nbnd # 0 => nbnd = laid, NumWann(w) <= laid
    PROVE  Tiled(CreateExplicitBlocks(w, laid, nocc), nbnd)
<1>1. Accounted(CreateExplicitBlocks(w, laid, nocc), laid)
    BY ExplicitBlocksAreAccounted
<1>2. LaidOverOneCount(CreateExplicitBlocks(w, laid, nocc))
    BY <1>1 DEF Accounted, LaidOverOneCount
<1> QED BY <1>1, <1>2, ExplicitBlocksAreInOrder DEF Tiled

\* The one block of automatic projections tiles the bands.
LEMMA AutomaticBlocksTile ==
    ASSUME NEW n \in Nat
    PROVE  Tiled(CreateAutomaticBlocks(n), n)
<1> DEFINE blocks == CreateAutomaticBlocks(n)
<1>1. /\ DOMAIN blocks = {1} /\ blocks[1].range.start = 1
      /\ blocks[1].range.num_bands = n /\ blocks[1].exclude = {}
    BY DEF CreateAutomaticBlocks
<1> HIDE DEF blocks
<1>2. Reads(blocks[1]) = 1..n
    BY <1>1 DEF Reads
<1>3. InOrder(blocks)
    BY <1>1 DEF InOrder
<1>4. Accounted(blocks, n) /\ LaidOverOneCount(blocks)
    BY <1>1, <1>2 DEF Accounted, LaidOverOneCount
<1> QED BY <1>3, <1>4 DEF Tiled, blocks

\* The count the pw.x block states is the count the blocks are laid over.
LEMMA WannierInitTiles ==
    ASSUME NEW f, NEW s, WellFormed(f), WannierInit(f), WannierInitGuards(f, s) = {}
    PROVE  \A c \in DOMAIN WannierInitChannels(f, s) :
               Tiled(WannierInitChannels(f, s)[c], PwNbnd(f))
<1>1. /\ f.projections \in Seq(Nat) /\ f.up \in Seq(Nat) /\ f.down \in Seq(Nat)
      /\ f.nbnd \in Nat /\ f.pw_nbnd \in Nat /\ f.kcp_nbnd \in Nat
    BY FileTypes
<1>2. NscfNbnd(f) \in Nat /\ (PwNbnd(f) # 0 => PwNbnd(f) = NscfNbnd(f))
    BY <1>1 DEF NscfNbnd, PwNbnd
<1>3. ASSUME NEW w \in Seq(Nat), KcpNbndGuards(f, w) = {}
      PROVE  NumWann(w) <= NscfNbnd(f)
  <2>1. ~(NscfNbnd(f) < NumWann(w))
    BY <1>3 DEF KcpNbndGuards, ||, When
  <2> QED BY <1>2, <2>1, NumWannIsNumber
<1>4. CASE f.spin = "collinear"
  <2>1. TwoChannelGuards(f, s) = {}
    BY <1>4 DEF WannierInitGuards, ||
  <2>2. KcpNbndGuards(f, f.up) = {} /\ NumWann(f.up) = NumWann(f.down)
    BY <2>1 DEF TwoChannelGuards, ||, When
  <2>3. NumWann(f.up) <= NscfNbnd(f) /\ NumWann(f.down) <= NscfNbnd(f)
    BY <1>1, <1>3, <2>2
  <2>4. /\ \A nocc : Tiled(CreateExplicitBlocks(f.up, NscfNbnd(f), nocc), PwNbnd(f))
        /\ \A nocc : Tiled(CreateExplicitBlocks(f.down, NscfNbnd(f), nocc), PwNbnd(f))
    BY <1>1, <1>2, <2>3, ExplicitBlocksTile
  <2>5. WannierInitChannels(f, s) =
            <<CreateExplicitBlocks(f.up, NscfNbnd(f), NumOcc(f, s, 1)),
              CreateExplicitBlocks(f.down, NscfNbnd(f), NumOcc(f, s, -1))>>
    BY <1>4, WannierInit(f) DEF WannierInitChannels
  <2> QED BY <2>4, <2>5
<1>5. CASE f.spin # "collinear"
  <2>1. OneChannelGuards(f, s) = {}
    BY <1>5 DEF WannierInitGuards, ||
  <2>2. KcpNbndGuards(f, f.projections) = {}
    BY <2>1 DEF OneChannelGuards, ||
  <2>3. \A nocc : Tiled(CreateExplicitBlocks(f.projections, NscfNbnd(f), nocc), PwNbnd(f))
    BY <1>1, <1>2, <1>3, <2>2, ExplicitBlocksTile
  <2>4. WannierInitChannels(f, s) =
            <<CreateExplicitBlocks(f.projections, NscfNbnd(f), NumOcc(f, s, 0))>>
    BY <1>5, WannierInit(f) DEF WannierInitChannels
  <2> QED BY <2>3, <2>4
<1> QED BY <1>4, <1>5

\* A manifold is described by the numbers of its blocks' functions.
LEMMA ManifoldWidths ==
    ASSUME NEW f, NEW s, WellFormed(f)
    PROVE  /\ 1 \in DOMAIN DfptManifolds(f, s)
           /\ \A i \in DOMAIN DfptManifolds(f, s) : DfptManifolds(f, s)[i].w \in Seq(Nat)
<1>1. f.projections \in Seq(Nat) /\ f.up \in Seq(Nat) /\ f.down \in Seq(Nat)
    BY FileTypes
<1>2. ASSUME NEW w \in Seq(Nat) PROVE Doubled(w) \in Seq(Nat)
  <2>1. Doubled(w) = [k \in 1..Len(w) |-> 2 * w[k]] /\ Len(w) \in Nat
    BY DEF Doubled
  <2>2. \A k \in 1..Len(w) : 2 * w[k] \in Nat
    OBVIOUS
  <2> QED BY <2>1, <2>2
<1>3. Doubled(f.projections) \in Seq(Nat)
    BY <1>1, <1>2
<1> QED BY <1>1, <1>3 DEF DfptManifolds

\* A manifold kcw.x takes fits into the bands its blocks are laid over.
LEMMA ManifoldsTile ==
    ASSUME NEW f, NEW s, WellFormed(f), ManifoldGuards(f, s) = {},
           NEW i \in DOMAIN DfptManifolds(f, s)
    PROVE  LET m == DfptManifolds(f, s)[i]
               bands == IF BlockNbnd(f) = 0 THEN NumWann(m.w) ELSE BlockNbnd(f)
           IN  Tiled(CreateExplicitBlocks(m.w, bands, m.nocc), BlockNbnd(f))
<1> DEFINE manifolds == DfptManifolds(f, s)
           m == manifolds[i]
           bands == IF BlockNbnd(f) = 0 THEN NumWann(m.w) ELSE BlockNbnd(f)
           Refusal(x) == ManifoldRefusal(x.w, x.nocc, BlockNbnd(f))
<1>1. /\ f.projections \in Seq(Nat) /\ f.up \in Seq(Nat) /\ f.down \in Seq(Nat)
      /\ f.nbnd \in Nat /\ f.pw_nbnd \in Nat
    BY FileTypes
<1>3. BlockNbnd(f) \in Nat
    BY <1>1 DEF BlockNbnd
<1>4. /\ m.w \in Seq(Nat) /\ i \in {1, 2} /\ (i = 2 => Len(manifolds) = 2)
    BY ManifoldWidths DEF DfptManifolds
<1>5. Refusal(m) = {}
  <2>1. Refusal(manifolds[1]) = {} /\ (Len(manifolds) = 2 => Refusal(manifolds[2]) = {})
    BY DEF ManifoldGuards, ||
  <2> HIDE DEF manifolds, Refusal
  <2> QED BY <1>4, <2>1
<1>6. BlockNbnd(f) # 0 => ~SpansTooMany(m.w, BlockNbnd(f))
    BY <1>5 DEF ManifoldRefusal
<1> HIDE DEF m
<1>7. bands \in Nat /\ NumWann(m.w) <= bands
    BY <1>3, <1>4, <1>6, NumWannIsNumber DEF SpansTooMany
<1>8. Tiled(CreateExplicitBlocks(m.w, bands, m.nocc), BlockNbnd(f))
  <2> HIDE DEF bands
  <2> SUFFICES BlockNbnd(f) # 0 => BlockNbnd(f) = bands
    BY <1>4, <1>7, ExplicitBlocksTile
  <2> QED BY DEF bands
<1> QED BY <1>8 DEF m


\* The channels of the DFPT routes are tiled, but for the two counts that may differ.
LEMMA DfptTiles ==
    ASSUME NEW f, NEW s, WellFormed(f), ManifoldGuards(f, s) = {},
           NEW g, g \in {DfptGraph(f, s), BseGraph(f, s)}
    PROVE  /\ g.entry \in {"SinglepointDFPT", "BetheSalpeter"}
           /\ \A c \in DOMAIN g.channels :
                 /\ InOrder(g.channels[c])
                 /\ LaidOverOneCount(g.channels[c])
                 /\ \/ g.nscf_nbnd = 0
                    \/ f.nbnd # 0 /\ f.pw_nbnd # 0
                    \/ Accounted(g.channels[c], g.nscf_nbnd)
<1> DEFINE manifolds == DfptManifolds(f, s)
           Blocks(m) == CreateExplicitBlocks(
                            m.w, IF BlockNbnd(f) = 0 THEN NumWann(m.w) ELSE BlockNbnd(f), m.nocc)
           h == DfptGraph(f, s)
<1>1. /\ h.channels = [i \in DOMAIN manifolds |-> Blocks(manifolds[i])]
      /\ h.nscf_nbnd = PwNbnd(f) /\ h.entry = "SinglepointDFPT"
    BY DEF DfptGraph, BandInterpolation, NoGraph
<1>2. /\ g.channels = h.channels /\ g.nscf_nbnd = h.nscf_nbnd
      /\ g.entry \in {"SinglepointDFPT", "BetheSalpeter"}
  <2>1. CASE g = h
    BY <1>1, <2>1
  <2>2. CASE g = BseGraph(f, s)
    BY <2>2 DEF BseGraph, DfptGraph, BandInterpolation, NoGraph
  <2> QED BY <2>1, <2>2
<1>3. f.nbnd \in Nat /\ f.pw_nbnd \in Nat
    BY FileTypes
<1>4. PwNbnd(f) = 0 \/ (f.nbnd # 0 /\ f.pw_nbnd # 0) \/ PwNbnd(f) = BlockNbnd(f)
    BY <1>3 DEF PwNbnd, BlockNbnd
<1>5. ASSUME NEW c \in DOMAIN g.channels
      PROVE  Tiled(g.channels[c], BlockNbnd(f))
  <2>1. c \in DOMAIN manifolds /\ g.channels[c] = Blocks(manifolds[c])
    BY <1>1, <1>2
  <2> QED BY <2>1, ManifoldsTile
<1>6. PwNbnd(f) # 0 /\ PwNbnd(f) = BlockNbnd(f) => BlockNbnd(f) # 0
    OBVIOUS
<1> HIDE DEF h
<1> QED BY <1>1, <1>2, <1>4, <1>5 DEF Tiled

\* The blockwise Wannierization is given the bands its blocks are laid over.
LEMMA BlockwiseTiles ==
    ASSUME NEW f, NEW s, WellFormed(f), s.projectors \in Nat, BlockSourceGuards(f, s) = {}
    PROVE  \A c \in DOMAIN BlockwiseGraph(f, s).channels :
               Tiled(BlockwiseGraph(f, s).channels[c], BlockwiseGraph(f, s).nscf_nbnd)
<1> DEFINE g == BlockwiseGraph(f, s)
<1>1. f.projections \in Seq(Nat) /\ f.nbnd \in Nat /\ f.pw_nbnd \in Nat
    BY FileTypes
<1>2. CASE f.projections # <<>>
  <2> DEFINE nbnd == ExplicitNbnd(f)
             blocks == CreateExplicitBlocks(f.projections, nbnd, NumOcc(f, s, 0))
  <2>1. nbnd \in Nat
    BY <1>1, NumWannIsNumber DEF ExplicitNbnd, BlockNbnd
  <2>2. ~SpansTooMany(f.projections, nbnd)
    BY <1>2 DEF BlockSourceGuards, When
  <2>3. Tiled(blocks, nbnd)
    <3> HIDE DEF nbnd
    <3> QED BY <1>1, <2>1, <2>2, NumWannIsNumber, ExplicitBlocksTile DEF SpansTooMany
  <2>4. g.channels = <<blocks>> /\ g.nscf_nbnd = nbnd
    BY <1>2 DEF BlockwiseGraph, NoGraph
  <2> HIDE DEF g, blocks, nbnd
  <2> QED BY <2>3, <2>4 DEF g
<1>3. CASE f.projections = <<>>
  <2>1. g.channels = <<CreateAutomaticBlocks(s.projectors)>> /\ g.nscf_nbnd = s.projectors
    BY <1>3 DEF BlockwiseGraph, NoGraph
  <2> HIDE DEF g
  <2> QED BY <2>1, AutomaticBlocksTile DEF g
<1> QED BY <1>2, <1>3

\* The channels of every route.
LEMMA RoutesTileTheBands ==
    ASSUME NEW f, NEW s, WellFormed(f), s.projectors \in Nat, BuildRefusals(f, s) = {},
           NEW g, g = BuildWorkgraph(f, s), NEW c \in DOMAIN g.channels
    PROVE  /\ InOrder(g.channels[c])
           /\ LaidOverOneCount(g.channels[c])
           /\ \/ g.nscf_nbnd = 0
              \/ /\ g.entry \in {"SinglepointDFPT", "BetheSalpeter"}
                 /\ f.nbnd # 0 /\ f.pw_nbnd # 0
              \/ Accounted(g.channels[c], g.nscf_nbnd)
<1>1. g = RouteGraph(f, s)
    BY DEF BuildWorkgraph
<1>2. CASE SnapshotsGuards(f, s) = {} /\ g = SnapshotsGraph(f, s)
  <2>1. WannierInitGuards(f, s) = {}
    BY <1>2 DEF SnapshotsGuards, ||
  <2>2. CASE ~WannierInit(f)
    BY <1>2, <2>2 DEF SnapshotsGraph, WannierInitGraph, NoGraph
  <2>3. CASE WannierInit(f)
    <3>1. g.channels = WannierInitChannels(f, s) /\ g.nscf_nbnd = PwNbnd(f)
      BY <1>2, <2>3 DEF SnapshotsGraph, WannierInitGraph, NoGraph
    <3> QED BY <2>1, <2>3, <3>1, WannierInitTiles DEF Tiled
  <2> QED BY <2>2, <2>3
<1>3. CASE g \in {DftBandsGraph(f), DftEpsGraph(f)}
  <2>1. DftBandsGraph(f).channels = <<>> /\ DftEpsGraph(f).channels = <<>>
    BY DEF DftBandsGraph, DftEpsGraph, NoGraph
  <2> QED BY <1>3, <2>1
<1>4. CASE WannierizeGuards(f, s) = {} /\ g = WannierizeGraph(f, s)
  <2>1. CASE ~RunsByBlock(f)
    BY <1>4, <2>1 DEF WannierizeGraph, OneManifoldGraph, NoGraph
  <2>2. CASE RunsByBlock(f)
    <3>1. BlockSourceGuards(f, s) = {}
      BY <1>4, <2>2 DEF WannierizeGuards, BlockwiseGuards, ||
    <3>2. g = BlockwiseGraph(f, s)
      BY <1>4, <2>2 DEF WannierizeGraph
    <3> QED BY <3>1, <3>2, BlockwiseTiles DEF Tiled
  <2> QED BY <2>1, <2>2
<1>5. CASE DfptChainGuards(f, s) = {} /\ g \in {DfptGraph(f, s), BseGraph(f, s)}
  <2>1. ManifoldGuards(f, s) = {}
    BY <1>5 DEF DfptChainGuards, ||
  <2> QED BY <1>5, <2>1, DfptTiles
<1>6. CASE DscfGuards(f, s) = {} /\ g = DscfGraph(f, s)
  <2>1. WannierInitGuards(f, s) = {}
    BY <1>6 DEF DscfGuards, ||
  <2>2. CASE ~WannierInit(f)
    BY <1>6, <2>2 DEF DscfGraph, BandInterpolation, WannierInitGraph, NoGraph
  <2>3. CASE WannierInit(f)
    <3>1. g.channels = WannierInitChannels(f, s) /\ g.nscf_nbnd = PwNbnd(f)
      BY <1>6, <2>3 DEF DscfGraph, BandInterpolation, WannierInitGraph, NoGraph
    <3> QED BY <2>1, <2>3, <3>1, WannierInitTiles DEF Tiled
  <2> QED BY <2>2, <2>3
<1>7. DfptGuards(f, s) = {} \/ BseGuards(f, s) = {} => DfptChainGuards(f, s) = {}
    BY DEF DfptGuards, BseGuards, ||
<1> QED BY <1>1, <1>2, <1>3, <1>4, <1>5, <1>6, <1>7, BuiltByRoute, Zenon

-----------------------------------------------------------------------------
(* Two files that agree on all but what a notice may call without effect.  *)

AgreesElse(f2, f) ==
    /\ f2.task = f.task /\ f2.correction = f.correction /\ f2.init = f.init
    /\ f2.spin = f.spin /\ f2.calculate_alpha = f.calculate_alpha
    /\ f2.alpha_numsteps = f.alpha_numsteps /\ f2.mp_correction = f.mp_correction
    /\ f2.orbital_groups = f.orbital_groups /\ f2.coarse_grid = f.coarse_grid
    /\ f2.threshold = f.threshold /\ f2.auto_projections = f.auto_projections
    /\ f2.positions = f.positions /\ f2.periodic = f.periodic
    /\ f2.gamma_only = f.gamma_only /\ f2.grid = f.grid /\ f2.offset = f.offset
    /\ f2.path = f.path /\ f2.scf = f.scf
    /\ f2.ecutwfc = f.ecutwfc /\ f2.nbnd = f.nbnd /\ f2.pw_nbnd = f.pw_nbnd
    /\ f2.kcp_nbnd = f.kcp_nbnd /\ f2.tot_magnetization = f.tot_magnetization
    /\ f2.smearing = f.smearing /\ f2.projections = f.projections
    /\ f2.up = f.up /\ f2.down = f.down /\ f2.kcw_screen = f.kcw_screen
    /\ f2.bse_bands = f.bse_bands /\ f2.atom_proj_ext = f.atom_proj_ext
    /\ f2.atom_proj_dir = f.atom_proj_dir /\ f2.ml_mode = f.ml_mode
    /\ f2.descriptor = f.descriptor /\ f2.models = f.models
    /\ f2.computer = f.computer /\ f2.account = f.account /\ f2.queue = f.queue
    /\ f2.walltime = f.walltime /\ f2.parallelization = f.parallelization
    /\ f2.retired = f.retired

\* The guards and helpers that read nothing else.
LEMMA GuardsAgree ==
    ASSUME NEW f, NEW f2, AgreesElse(f2, f), NEW s
    PROVE  /\ KeywordGuards(f2) = KeywordGuards(f)
           /\ ComputerGuards(f2, s) = ComputerGuards(f, s)
           /\ SchedulerGuards(f2, s) = SchedulerGuards(f, s)
           /\ PrepareGuards(f2, s) = PrepareGuards(f, s)
           /\ DftEpsGuards(f2, s) = DftEpsGuards(f, s)
           /\ WannierizeGuards(f2, s) = WannierizeGuards(f, s)
           /\ ExternalProjectorGuards(f2) = ExternalProjectorGuards(f)
           /\ CorrectionGuards(f2) = CorrectionGuards(f)
           /\ ModelGuards(f2) = ModelGuards(f)
           /\ OrbitalGroupGuards(f2) = OrbitalGroupGuards(f)
           /\ WannierInitGuards(f2, s) = WannierInitGuards(f, s)
           /\ MomentGuards(f2, s) = MomentGuards(f, s)
           /\ ManifoldGuards(f2, s) = ManifoldGuards(f, s)
           /\ DscfInitializationIsSupported(f2) = DscfInitializationIsSupported(f)
           /\ HasSnapshots(f2) = HasSnapshots(f) /\ WannierInit(f2) = WannierInit(f)
           /\ Spinor(f2) = Spinor(f) /\ NamesBandPath(f2) = NamesBandPath(f)
<1>1. /\ HasSnapshots(f2) = HasSnapshots(f) /\ WannierInit(f2) = WannierInit(f)
      /\ Spinor(f2) = Spinor(f) /\ NamesBandPath(f2) = NamesBandPath(f)
      /\ Magnetization(f2) = Magnetization(f)
      /\ PwNbnd(f2) = PwNbnd(f) /\ BlockNbnd(f2) = BlockNbnd(f)
    BY DEF AgreesElse, HasSnapshots, WannierInit, Spinor, NamesBandPath, Magnetization,
                       PwNbnd, BlockNbnd
<1>2. /\ NumOcc(f2, s, 0) = NumOcc(f, s, 0)
      /\ NumOcc(f2, s, 1) = NumOcc(f, s, 1) /\ NumOcc(f2, s, -1) = NumOcc(f, s, -1)
      /\ NscfNbnd(f2) = NscfNbnd(f)
      /\ DscfInitializationIsSupported(f2) = DscfInitializationIsSupported(f)
    BY <1>1 DEF AgreesElse, NumOcc, NscfNbnd, DscfInitializationIsSupported
<1>3. /\ KeywordGuards(f2) = KeywordGuards(f)
      /\ ComputerGuards(f2, s) = ComputerGuards(f, s)
      /\ SchedulerGuards(f2, s) = SchedulerGuards(f, s)
    BY <1>1 DEF AgreesElse, KeywordGuards, ComputerGuards, SchedulerGuards, Directive
<1>4. /\ PwParameterGuards(f2) = PwParameterGuards(f)
      /\ FamilyGuards(f2, s) = FamilyGuards(f, s)
      /\ ProjectorFileGuards(f2, s) = ProjectorFileGuards(f, s)
      /\ ExternalProjectorGuards(f2) = ExternalProjectorGuards(f)
      /\ CorrectionGuards(f2) = CorrectionGuards(f)
      /\ ModelGuards(f2) = ModelGuards(f)
      /\ OrbitalGroupGuards(f2) = OrbitalGroupGuards(f)
    BY DEF AgreesElse, PwParameterGuards, FamilyGuards, ProjectorFileGuards,
        ExternalProjectorGuards, CorrectionGuards, ModelGuards, OrbitalGroupGuards
<1>5. /\ PrepareGuards(f2, s) = PrepareGuards(f, s)
      /\ DftEpsGuards(f2, s) = DftEpsGuards(f, s)
    BY <1>1, <1>4 DEF PrepareGuards, DftEpsGuards
<1>6. WannierizeGuards(f2, s) = WannierizeGuards(f, s)
  <2>1. /\ ChannelProjections(f2) = ChannelProjections(f)
        /\ ExplicitProjections(f2) = ExplicitProjections(f)
        /\ RunsByBlock(f2) = RunsByBlock(f)
        /\ ExplicitNbnd(f2) = ExplicitNbnd(f)
        /\ NeedsPathGuards(f2) = NeedsPathGuards(f)
    BY <1>1 DEF AgreesElse, ChannelProjections, ExplicitProjections, RunsByBlock,
        ExplicitNbnd, NeedsPathGuards
  <2>2. /\ ProjectionSourceGuards(f2) = ProjectionSourceGuards(f)
        /\ NoProjectionGuards(f2) = NoProjectionGuards(f)
    BY <2>1 DEF AgreesElse, ProjectionSourceGuards, NoProjectionGuards
  <2>3. AutomaticBlockGuards(f2, s) = AutomaticBlockGuards(f, s)
    BY <1>1, <1>2, <1>4 DEF AgreesElse, AutomaticBlockGuards
  <2>4. BlockSourceGuards(f2, s) = BlockSourceGuards(f, s)
    BY <2>1, <2>2, <2>3 DEF AgreesElse, BlockSourceGuards
  <2>5. /\ OneManifoldGuards(f2, s) = OneManifoldGuards(f, s)
        /\ BlockwiseGuards(f2, s) = BlockwiseGuards(f, s)
    BY <1>4, <1>5, <2>1, <2>2, <2>4 DEF OneManifoldGuards, BlockwiseGuards
  <2> QED BY <2>1, <2>2, <2>5 DEF AgreesElse, WannierizeGuards
<1>7. MomentGuards(f2, s) = MomentGuards(f, s)
    BY <1>1 DEF MomentGuards
<1>8. WannierInitGuards(f2, s) = WannierInitGuards(f, s)
  <2>1. \A w, nocc : /\ KcpNbndGuards(f2, w) = KcpNbndGuards(f, w)
                     /\ SequenceGuards(f2, w, nocc) = SequenceGuards(f, w, nocc)
    BY <1>2 DEF AgreesElse, KcpNbndGuards, SequenceGuards
  <2>2. OneChannelGuards(f2, s) = OneChannelGuards(f, s)
    BY <1>2, <2>1 DEF AgreesElse, OneChannelGuards
  <2>3. TwoChannelGuards(f2, s) = TwoChannelGuards(f, s)
    BY <1>2, <1>7, <2>1 DEF AgreesElse, TwoChannelGuards
  <2> QED BY <1>1, <1>4, <2>2, <2>3 DEF AgreesElse, WannierInitGuards
<1>9. ManifoldGuards(f2, s) = ManifoldGuards(f, s)
  <2>1. DfptManifolds(f2, s) = DfptManifolds(f, s)
    BY <1>1, <1>2 DEF AgreesElse, DfptManifolds
  <2> QED BY <1>1, <2>1 DEF AgreesElse, ManifoldGuards
<1> QED BY <1>1, <1>2, <1>3, <1>4, <1>5, <1>6, <1>7, <1>8, <1>9

\* Nothing of the calculation uses the dielectric constant.
EpsIsIdle(f) ==
    /\ f.task = "singlepoint"
    /\ \/ f.formalism = "dfpt" /\ ~f.calculate_alpha
       \/ /\ f.formalism = "dscf"
          /\ ~WannierInit(f) \/ f.mp_correction = "off" \/ f.ml_mode = "predict"

\* f2 lacks some keywords of f that the route of f does not use.
LacksIdle(f2, f) ==
    /\ AgreesElse(f2, f)
    /\ f2.formalism = f.formalism \/ f.task \in TasksWithoutKoopmansStep
    /\ f2.nscf = f.nscf \/ f.task \in {"dft_bands", "dft_eps"}
    /\ f2.group_by \in {f.group_by, "none"}
    /\ \/ f.task \in TasksWithoutKoopmansStep
       \/ HasSnapshots(f) /\ PredictsWithoutTrial(f)
       \/ \A c \in {"self_hartree", "spread"} : GroupingTol(f2, c) = GroupingTol(f, c)
    /\ \/ f2.alpha_guess = f.alpha_guess
       \/ f2.alpha_guess = "unset" /\ HasSnapshots(f) /\ PredictsWithoutTrial(f)
    /\ \/ f.task \in {"dft_bands", "dft_eps"}
       \/ ~NamesBandPath(f)
       \/ f2.wannierize = f.wannierize
    /\ \/ f.task \in TasksWithoutKoopmansStep
       \/ ~NamesBandPath(f)
       \/ SmoothFactor(f2) = SmoothFactor(f)
    /\ f2.eps_inf \in {f.eps_inf, "unset"}
    /\ \/ f.task \in TasksWithoutKoopmansStep
       \/ EpsIsIdle(f)
       \/ /\ f2.eps_inf = f.eps_inf
          /\ f.eps_inf # "auto" \/ DielectricKpoints(f2) = DielectricKpoints(f)

\* What is refused without those keywords was refused with them.
LEMMA NothingNewIsRefused ==
    ASSUME NEW f, NEW f2, LacksIdle(f2, f), NEW s, BuildRefusals(f, s) = {}
    PROVE  BuildRefusals(f2, s) = {}
<1>1. /\ RouteGuards(f, s) = {}
      /\ KeywordGuards(f) = {} /\ ComputerGuards(f, s) = {} /\ SchedulerGuards(f, s) = {}
    BY BuiltByRoute
<1>2. AgreesElse(f2, f)
    BY DEF LacksIdle
<1>3. KeywordGuards(f2) = {} /\ ComputerGuards(f2, s) = {} /\ SchedulerGuards(f2, s) = {}
    BY <1>1, <1>2, GuardsAgree
<1>4. /\ f2.task = f.task /\ HasSnapshots(f2) = HasSnapshots(f)
      /\ f.task = "singlepoint" => f2.formalism = f.formalism /\ f2.nscf = f.nscf
      /\ f.task = "bse" => f2.nscf = f.nscf
    BY <1>2, GuardsAgree DEF LacksIdle, AgreesElse, TasksWithoutKoopmansStep
<1>5. f.task = "singlepoint" /\ StepOverrideGuards(f) = {} => StepOverrideGuards(f2) = {}
    BY <1>2, <1>4 DEF ||, When, StepOverrideGuards, AgreesElse
<1>6. KcpGuards(f) = {} => KcpGuards(f2) = {}
  <2>1. f2.group_by # f.group_by => f2.group_by = "none"
    BY DEF LacksIdle
  <2>2. f2.alpha_guess # f.alpha_guess => f2.alpha_guess = "unset"
    BY DEF LacksIdle
  <2> QED BY <1>2, <2>1, <2>2, GuardsAgree DEF ||, When, KcpGuards, AgreesElse
<1>7. CASE HasSnapshots(f)
  <2>1. SnapshotsGuards(f, s) = {}
    BY <1>1, <1>7 DEF RouteGuards
  <2>2. f.task = "singlepoint" /\ f.eps_inf # "auto" /\ f.formalism # "dfpt"
    BY <2>1 DEF ||, When, SnapshotsGuards
  <2>3. f2.eps_inf # "auto" /\ f2.formalism # "dfpt"
    BY <1>4, <2>2 DEF LacksIdle
  <2>4. /\ ExternalProjectorGuards(f2) = {} /\ StepOverrideGuards(f2) = {}
        /\ CorrectionGuards(f2) = {} /\ ~Spinor(f2) /\ ModelGuards(f2) = {}
        /\ KcpGuards(f2) = {} /\ WannierInitGuards(f2, s) = {} /\ CodeGuards({"kcp"}, s) = {}
        /\ ~(/\ f.ml_mode # "none" /\ f.descriptor = "power_spectrum"
             /\ "pw2wannier90" \in s.unregistered)
        /\ DscfInitializationIsSupported(f2)
    BY <1>2, <1>5, <1>6, <2>1, <2>2, GuardsAgree DEF ||, When, SnapshotsGuards
  <2>5. f2.ml_mode = f.ml_mode /\ f2.descriptor = f.descriptor
    BY <1>2 DEF AgreesElse
  <2>6. SnapshotsGuards(f2, s) = {}
    BY <1>4, <2>2, <2>3, <2>4, <2>5 DEF ||, When, SnapshotsGuards
  <2>7. RouteGuards(f2, s) = {}
    BY <1>4, <1>7, <2>6 DEF RouteGuards
  <2> QED BY <1>3, <2>7, Chained DEF BuildRefusals
<1>8. DfptChainGuards(f, s) = {} => DfptChainGuards(f2, s) = {}
  <2>1. f2.group_by # f.group_by => f2.group_by = "none"
    BY DEF LacksIdle
  <2>2. /\ OrbitalGroupGuards(f2) = OrbitalGroupGuards(f)
        /\ f2.correction = f.correction /\ WannierInit(f2) = WannierInit(f)
        /\ f2.gamma_only = f.gamma_only /\ f2.spin = f.spin
        /\ f2.up = f.up /\ f2.down = f.down
        /\ PrepareGuards(f2, s) = PrepareGuards(f, s)
        /\ MomentGuards(f2, s) = MomentGuards(f, s)
        /\ ManifoldGuards(f2, s) = ManifoldGuards(f, s)
    BY <1>2, GuardsAgree DEF AgreesElse
  <2> QED BY <2>1, <2>2 DEF ||, When, DfptChainGuards
<1>9. CASE ~HasSnapshots(f)
  <2> SUFFICES RouteGuards(f2, s) = {}
    BY <1>3, Chained DEF BuildRefusals
  <2>1. f.task \in {"dft_bands", "dft_eps", "wannierize", "bse", "singlepoint"}
    BY <1>1, <1>9 DEF RouteGuards
  <2>2. CASE f.task = "dft_bands"
    <3>1. DftBandsGuards(f, s) = {}
      BY <1>1, <1>9, <2>2 DEF RouteGuards
    <3>2. DftBandsGuards(f2, s) = {}
      BY <1>2, <3>1, GuardsAgree DEF DftBandsGuards
    <3> QED BY <1>4, <1>9, <2>2, <3>2 DEF RouteGuards
  <2>3. CASE f.task = "dft_eps"
    BY <1>1, <1>2, <1>4, <1>9, <2>3, GuardsAgree DEF RouteGuards
  <2>4. CASE f.task = "wannierize"
    BY <1>1, <1>2, <1>4, <1>9, <2>4, GuardsAgree DEF RouteGuards
  <2>5. CASE f.task = "bse"
    <3>1. BseGuards(f, s) = {}
      BY <1>1, <1>9, <2>5 DEF RouteGuards
    <3>2. BseGuards(f2, s) = {}
      BY <1>2, <1>8, <3>1 DEF ||, When, BseGuards, AgreesElse
    <3> QED BY <1>4, <1>9, <2>5, <3>2 DEF RouteGuards
  <2>6. CASE f.task = "singlepoint" /\ f.formalism = "dfpt"
    <3>1. DfptGuards(f, s) = {}
      BY <1>1, <1>9, <2>6 DEF RouteGuards
    <3>2. DfptGuards(f2, s) = {}
      BY <1>2, <1>8, <3>1, Chained, GuardsAgree DEF DfptGuards
    <3> QED BY <1>4, <1>9, <2>6, <3>2 DEF RouteGuards
  <2>7. CASE f.task = "singlepoint" /\ f.formalism # "dfpt"
    <3>1. DscfGuards(f, s) = {}
      BY <1>1, <1>9, <2>7 DEF RouteGuards
    <3>2. DscfGuards(f2, s) = {}
      BY <1>2, <1>5, <1>6, <2>7, <3>1, GuardsAgree DEF ||, When, DscfGuards
    <3> QED BY <1>4, <1>9, <2>7, <3>2 DEF RouteGuards
  <2> QED BY <2>1, <2>2, <2>3, <2>4, <2>5, <2>6, <2>7
<1> QED BY <1>7, <1>9

\* What the graphs of two files that agree so have in common.
LEMMA InputsAgree ==
    ASSUME NEW f, NEW f2, AgreesElse(f2, f), NEW s
    PROVE  /\ PinStepKpoints(f2, "scf") = PinStepKpoints(f, "scf")
           /\ f2.nscf = f.nscf => StepKpointsMesh(f2, "nscf") = StepKpointsMesh(f, "nscf")
           /\ \A d : InterpolationPath(f2, d) = InterpolationPath(f, d)
           /\ AsMapping(f2) = AsMapping(f)
           /\ CodeParallelization(f2, "pw") = CodeParallelization(f, "pw")
           /\ PwNbnd(f2) = PwNbnd(f) /\ BlockNbnd(f2) = BlockNbnd(f)
           /\ ExplicitNbnd(f2) = ExplicitNbnd(f) /\ RunsByBlock(f2) = RunsByBlock(f)
           /\ PredictsWithoutTrial(f2) = PredictsWithoutTrial(f)
           /\ DfptManifolds(f2, s) = DfptManifolds(f, s)
           /\ WannierInitChannels(f2, s) = WannierInitChannels(f, s)
           /\ NumOcc(f2, s, 0) = NumOcc(f, s, 0)
<1>1. /\ Spinor(f2) = Spinor(f) /\ WannierInit(f2) = WannierInit(f)
      /\ PwNbnd(f2) = PwNbnd(f) /\ BlockNbnd(f2) = BlockNbnd(f)
      /\ Magnetization(f2) = Magnetization(f) /\ NamesBandPath(f2) = NamesBandPath(f)
      /\ PredictsWithoutTrial(f2) = PredictsWithoutTrial(f)
      /\ ExplicitProjections(f2) = ExplicitProjections(f)
    BY DEF AgreesElse, Spinor, WannierInit, PwNbnd, BlockNbnd, Magnetization, NamesBandPath,
           PredictsWithoutTrial, ExplicitProjections, ChannelProjections
<1>2. /\ NumOcc(f2, s, 0) = NumOcc(f, s, 0)
      /\ NumOcc(f2, s, 1) = NumOcc(f, s, 1) /\ NumOcc(f2, s, -1) = NumOcc(f, s, -1)
      /\ NscfNbnd(f2) = NscfNbnd(f)
      /\ ExplicitNbnd(f2) = ExplicitNbnd(f) /\ RunsByBlock(f2) = RunsByBlock(f)
    BY <1>1 DEF AgreesElse, NumOcc, NscfNbnd, ExplicitNbnd, RunsByBlock
<1>3. /\ DfptManifolds(f2, s) = DfptManifolds(f, s)
      /\ WannierInitChannels(f2, s) = WannierInitChannels(f, s)
    BY <1>1, <1>2 DEF AgreesElse, DfptManifolds, WannierInitChannels
<1>4. /\ \A c : MappingEntry(f2, c) = MappingEntry(f, c)
      /\ CodeParallelization(f2, "pw") = CodeParallelization(f, "pw")
    BY DEF AgreesElse, MappingEntry, CodeParallelization, EffectiveWalltime, Directive
<1>5. AsMapping(f2) = AsMapping(f) /\ CodeParallelization(f2, "pw") = CodeParallelization(f, "pw")
  <2>1. {c \in AllCodes : MappingEntry(f2, c) # NoFields}
          = {c \in AllCodes : MappingEntry(f, c) # NoFields}
    BY <1>4
  <2>2. AsMapping(f2) = AsMapping(f)
    BY <1>4, <2>1 DEF AsMapping
  <2> QED BY <1>4, <2>2
<1>6. \A d : InterpolationPath(f2, d) = InterpolationPath(f, d)
    BY <1>1 DEF InterpolationPath
<1>7. \A step \in {"scf", "nscf"} : f2[step] = f[step] =>
          /\ StepGridSpacing(f2, step) = StepGridSpacing(f, step)
          /\ StepKpointsMesh(f2, step) = StepKpointsMesh(f, step)
  <2> SUFFICES ASSUME NEW step \in {"scf", "nscf"}, f2[step] = f[step]
               PROVE  /\ StepGridSpacing(f2, step) = StepGridSpacing(f, step)
                      /\ StepKpointsMesh(f2, step) = StepKpointsMesh(f, step)
    OBVIOUS
  <2>1. EntriesOf(f2, step) = EntriesOf(f, step)
    BY DEF EntriesOf
  <2>2. f2.grid = f.grid /\ f2.offset = f.offset
    BY DEF AgreesElse
  <2>3. StepOffset(f2, step) = StepOffset(f, step)
    BY <2>1, <2>2 DEF StepOffset, Nearest
  <2>4. StepGridSpacing(f2, step) = StepGridSpacing(f, step)
    BY <2>1 DEF StepGridSpacing, Nearest
  <2> QED BY <2>1, <2>2, <2>3, <2>4 DEF StepKpointsMesh, Nearest
<1>8. PinStepKpoints(f2, "scf") = PinStepKpoints(f, "scf")
    BY <1>7 DEF PinStepKpoints, AgreesElse
<1> QED BY <1>1, <1>2, <1>3, <1>5, <1>6, <1>7, <1>8

Inputs == DOMAIN NoGraph

\* Two graphs that differ in what they say of the dielectric constant alone.
AlikeElse(g2, g) ==
    /\ g = [k \in Inputs |-> g[k]] /\ g2 = [k \in Inputs |-> g2[k]]
    /\ \A k \in Inputs \ {"eps_inf", "eps_kpoints"} : g2[k] = g[k]

\* They run the same calculation unless it uses what they differ in.
LEMMA IdleEpsIsIgnored ==
    ASSUME NEW g, NEW g2, AlikeElse(g2, g),
           g2.eps_inf = g.eps_inf \/ ~ConsumesEpsInf(g),
           g2.eps_kpoints = g.eps_kpoints \/ ~RunsDielectricStep(g)
    PROVE  Calculation(g2) = Calculation(g)
<1>1. Inputs = {"entry", "scf", "nscf", "bands", "interpolation", "smooth", "eps_inf",
                "eps_kpoints", "mp_correction", "screened", "ml_mode", "group_tol", "alpha",
                "channels", "nscf_nbnd", "seeded", "mapping", "needs"}
    BY DEF Inputs, NoGraph
<1>2. /\ g = [k \in Inputs |-> g[k]] /\ g2 = [k \in Inputs |-> g2[k]]
      /\ \A k \in Inputs \ {"eps_inf", "eps_kpoints"} : g2[k] = g[k]
    BY DEF AlikeElse
<1>3. ConsumesEpsInf(g2) = ConsumesEpsInf(g)
  <2>1. /\ g2.entry = g.entry /\ g2.channels = g.channels /\ g2.ml_mode = g.ml_mode
        /\ g2.mp_correction = g.mp_correction /\ g2.screened = g.screened
    BY <1>1, <1>2
  <2> QED BY <2>1 DEF ConsumesEpsInf
<1>4. /\ (IF ConsumesEpsInf(g2) THEN g2.eps_inf ELSE "unset")
             = (IF ConsumesEpsInf(g) THEN g.eps_inf ELSE "unset")
      /\ (IF RunsDielectricStep(g2) THEN g2.eps_kpoints ELSE NoSampling)
             = (IF RunsDielectricStep(g) THEN g.eps_kpoints ELSE NoSampling)
    BY <1>3 DEF RunsDielectricStep
<1>5. \A e, k : [g2 EXCEPT !.eps_inf = e, !.eps_kpoints = k]
                  = [g EXCEPT !.eps_inf = e, !.eps_kpoints = k]
  <2> SUFFICES ASSUME NEW e, NEW k
               PROVE  [g2 EXCEPT !.eps_inf = e, !.eps_kpoints = k]
                        = [g EXCEPT !.eps_inf = e, !.eps_kpoints = k]
    OBVIOUS
  <2> QED BY <1>2
<1> QED BY <1>4, <1>5 DEF Calculation

\* Interpolating, or not, keeps two graphs as alike as they are.
LEMMA InterpolatedAlike ==
    ASSUME NEW f, NEW f2, LacksIdle(f2, f), f.task \in {"singlepoint", "bse"},
           NEW g, NEW g2, AlikeElse(g2, g)
    PROVE  AlikeElse(BandInterpolation(f2, g2), BandInterpolation(f, g))
<1>1. /\ NamesBandPath(f2) = NamesBandPath(f) /\ f2.grid = f.grid
      /\ \A d : InterpolationPath(f2, d) = InterpolationPath(f, d)
    BY GuardsAgree, InputsAgree DEF LacksIdle, AgreesElse
<1>2. CASE ~NamesBandPath(f)
    BY <1>1, <1>2 DEF BandInterpolation
<1>3. CASE NamesBandPath(f)
  <2>1. f2.wannierize = f.wannierize /\ SmoothFactor(f2) = SmoothFactor(f)
    BY <1>3 DEF LacksIdle, TasksWithoutKoopmansStep
  <2>2. WannierizeInterpolationPath(f2) = WannierizeInterpolationPath(f)
    BY <1>1, <2>1 DEF WannierizeInterpolationPath
  <2>3. \A factor : SmoothGrid(f2, factor) = SmoothGrid(f, factor)
    BY <1>1 DEF SmoothGrid
  <2>4. PICK path, smooth :
            /\ BandInterpolation(f2, g2) = [g2 EXCEPT !.bands = TopDensity,
                                              !.interpolation = path, !.smooth = smooth]
            /\ BandInterpolation(f, g) = [g EXCEPT !.bands = TopDensity,
                                            !.interpolation = path, !.smooth = smooth]
    BY <1>1, <1>3, <2>1, <2>2, <2>3 DEF BandInterpolation
  <2> QED BY <2>4 DEF AlikeElse
<1> QED BY <1>2, <1>3

\* It leaves alone what tells whether the dielectric constant is used.
LEMMA InterpolatedElse ==
    ASSUME NEW f, NEW g, g = [k \in Inputs |-> g[k]],
           NEW k \in {"entry", "eps_inf", "eps_kpoints", "screened", "channels",
                      "mp_correction", "ml_mode"}
    PROVE  BandInterpolation(f, g)[k] = g[k]
<1>1. k \in Inputs
    BY DEF Inputs, NoGraph
<1> QED BY <1>1 DEF BandInterpolation

\* The chain on kcw.x, with or without the spectrum after it.
LEMMA DfptRunsTheSame ==
    ASSUME NEW f, NEW f2, LacksIdle(f2, f), NEW s, f.task \in {"singlepoint", "bse"},
           f.task = "singlepoint" => f.formalism = "dfpt", ~HasSnapshots(f)
    PROVE  /\ Calculation(DfptGraph(f2, s)) = Calculation(DfptGraph(f, s))
           /\ Calculation(BseGraph(f2, s)) = Calculation(BseGraph(f, s))
<1>1. /\ AgreesElse(f2, f) /\ f2.nscf = f.nscf /\ f2.alpha_guess = f.alpha_guess
      /\ f2.calculate_alpha = f.calculate_alpha
      /\ GroupingTol(f2, "spread") = GroupingTol(f, "spread")
      /\ EpsIsIdle(f) \/ (/\ f2.eps_inf = f.eps_inf
                          /\ f.eps_inf # "auto" \/ DielectricKpoints(f2) = DielectricKpoints(f))
    BY DEF LacksIdle, TasksWithoutKoopmansStep, AgreesElse
<1>2. EpsIsIdle(f) => f.task = "singlepoint" /\ ~f.calculate_alpha
    BY DEF EpsIsIdle
<1>3. DielectricCode(f2, f.calculate_alpha) = DielectricCode(f, f.calculate_alpha)
    BY <1>1, <1>2 DEF DielectricCode
<1> DEFINE manifolds(x) == DfptManifolds(x, s)
           bands(x, w) == IF BlockNbnd(x) = 0 THEN NumWann(w) ELSE BlockNbnd(x)
           channels(x) == [i \in DOMAIN manifolds(x) |->
                             CreateExplicitBlocks(manifolds(x)[i].w,
                                                  bands(x, manifolds(x)[i].w),
                                                  manifolds(x)[i].nocc)]
           Chain(x, eps_inf, eps_kpoints) ==
             [NoGraph EXCEPT !.entry = "SinglepointDFPT", !.scf = PinStepKpoints(x, "scf"),
                !.nscf = StepKpointsMesh(x, "nscf"), !.eps_inf = eps_inf,
                !.eps_kpoints = eps_kpoints,
                !.screened = x.calculate_alpha, !.group_tol = GroupingTol(x, "spread"),
                !.alpha = IF x.calculate_alpha THEN "unset" ELSE x.alpha_guess,
                !.channels = channels(x),
                !.nscf_nbnd = PwNbnd(x), !.seeded = <<CodeParallelization(x, "pw")>>,
                !.mapping = AsMapping(x), !.needs = DielectricCode(x, x.calculate_alpha)]
           C(x) == Chain(f, x.eps_inf, DielectricKpoints(x))
<1>4. \A x : DfptGraph(x, s)
                = BandInterpolation(x, Chain(x, x.eps_inf, DielectricKpoints(x)))
    BY DEF DfptGraph
<1>5. \A e, k : Chain(f2, e, k) = Chain(f, e, k)
  <2>1. /\ PinStepKpoints(f2, "scf") = PinStepKpoints(f, "scf")
        /\ StepKpointsMesh(f2, "nscf") = StepKpointsMesh(f, "nscf")
        /\ PwNbnd(f2) = PwNbnd(f) /\ BlockNbnd(f2) = BlockNbnd(f)
        /\ CodeParallelization(f2, "pw") = CodeParallelization(f, "pw")
        /\ AsMapping(f2) = AsMapping(f) /\ DfptManifolds(f2, s) = DfptManifolds(f, s)
    BY <1>1, InputsAgree
  <2>2. channels(f2) = channels(f)
    BY <2>1
  <2> HIDE DEF channels
  <2> QED BY <1>1, <1>3, <2>1, <2>2
<1>6. /\ DfptGraph(f2, s) = BandInterpolation(f2, C(f2))
      /\ DfptGraph(f, s) = BandInterpolation(f, C(f))
  <2> HIDE DEF Chain
  <2>1. \A x : DfptGraph(x, s)
                  = BandInterpolation(x, Chain(x, x.eps_inf, DielectricKpoints(x)))
    BY <1>4
  <2> QED BY <1>5, <2>1
<1>7. AlikeElse(C(f2), C(f))
  <2> HIDE DEF channels
  <2> QED BY DEF AlikeElse, Inputs
<1> HIDE DEF C
<1>8. AlikeElse(DfptGraph(f2, s), DfptGraph(f, s))
    BY <1>6, <1>7, InterpolatedAlike
<1>9. \A x \in {f, f2} :
          /\ DfptGraph(x, s).entry = "SinglepointDFPT"
          /\ DfptGraph(x, s).screened = f.calculate_alpha
          /\ DfptGraph(x, s).eps_inf = x.eps_inf
          /\ DfptGraph(x, s).eps_kpoints = DielectricKpoints(x)
  <2>1. \A x \in {f, f2} : /\ C(x) = [k \in Inputs |-> C(x)[k]]
                            /\ C(x).entry = "SinglepointDFPT"
                            /\ C(x).screened = f.calculate_alpha
                            /\ C(x).eps_inf = x.eps_inf
                            /\ C(x).eps_kpoints = DielectricKpoints(x)
    <3> HIDE DEF channels
    <3>1. {"entry", "screened", "eps_inf", "eps_kpoints"} \subseteq DOMAIN NoGraph
      BY DEF NoGraph
    <3>2. NoGraph = [k \in DOMAIN NoGraph |-> NoGraph[k]]
      BY DEF NoGraph
    <3> SUFFICES ASSUME NEW x \in {f, f2}
                 PROVE  /\ C(x) = [k \in Inputs |-> C(x)[k]]
                        /\ C(x).entry = "SinglepointDFPT"
                        /\ C(x).screened = f.calculate_alpha
                        /\ C(x).eps_inf = x.eps_inf
                        /\ C(x).eps_kpoints = DielectricKpoints(x)
      OBVIOUS
    <3>3. C(x).entry = "SinglepointDFPT" /\ C(x).screened = f.calculate_alpha
      BY <3>1, <3>2 DEF C
    <3>4. C(x).eps_inf = x.eps_inf /\ C(x).eps_kpoints = DielectricKpoints(x)
      BY <3>1, <3>2 DEF C
    <3>5. C(x) = [k \in Inputs |-> C(x)[k]]
      BY <3>2 DEF C, Inputs
    <3> QED BY <3>3, <3>4, <3>5
  <2> QED BY <1>6, <2>1, InterpolatedElse
<1>10. ASSUME NEW g, NEW g2, AlikeElse(g2, g), g.entry \in {"SinglepointDFPT", "BetheSalpeter"},
              g.screened = f.calculate_alpha,
              g2.eps_inf = f2.eps_inf, g.eps_inf = f.eps_inf,
              g2.eps_kpoints = DielectricKpoints(f2), g.eps_kpoints = DielectricKpoints(f)
       PROVE  Calculation(g2) = Calculation(g)
  <2>1. ConsumesEpsInf(g) => f.calculate_alpha
    BY <1>10 DEF ConsumesEpsInf
  <2>2. g2.eps_inf = g.eps_inf \/ ~ConsumesEpsInf(g)
    BY <1>1, <1>2, <1>10, <2>1
  <2>3. g2.eps_kpoints = g.eps_kpoints \/ ~RunsDielectricStep(g)
    BY <1>1, <1>2, <1>10, <2>1 DEF RunsDielectricStep
  <2> QED BY <1>10, <2>2, <2>3, IdleEpsIsIgnored
<1>11. Calculation(DfptGraph(f2, s)) = Calculation(DfptGraph(f, s))
    BY <1>8, <1>9, <1>10
<1>12. Calculation(BseGraph(f2, s)) = Calculation(BseGraph(f, s))
  <2>1. AlikeElse(BseGraph(f2, s), BseGraph(f, s))
    BY <1>8 DEF AlikeElse, BseGraph
  <2>2. /\ BseGraph(f, s).entry = "BetheSalpeter"
        /\ BseGraph(f, s).screened = f.calculate_alpha
        /\ \A x \in {f, f2} : /\ BseGraph(x, s).eps_inf = x.eps_inf
                               /\ BseGraph(x, s).eps_kpoints = DielectricKpoints(x)
    <3>1. {"entry", "screened", "eps_inf", "eps_kpoints"} \subseteq Inputs
      BY DEF Inputs, NoGraph
    <3>2. \A x \in {f, f2} : DfptGraph(x, s) = [k \in Inputs |-> DfptGraph(x, s)[k]]
      BY <1>8 DEF AlikeElse
    <3> QED BY <1>9, <3>1, <3>2 DEF BseGraph
  <2> QED BY <1>10, <2>1, <2>2
<1> QED BY <1>11, <1>12

\* The Wannier functions of a kcp.x run are asked for in the same way, but for the
\* dielectric constant.
LEMMA SeededAlike ==
    ASSUME NEW f, NEW f2, AgreesElse(f2, f), NEW s, NEW g, g = [k \in Inputs |-> g[k]]
    PROVE  /\ AlikeElse(WannierInitGraph(f2, s, g), WannierInitGraph(f, s, g))
           /\ \A x \in {f, f2} :
                 /\ \A k \in {"entry", "ml_mode", "eps_kpoints"} :
                        WannierInitGraph(x, s, g)[k] = g[k]
                 /\ ~WannierInit(f) => WannierInitGraph(x, s, g) = g
                 /\ WannierInit(f) => /\ WannierInitGraph(x, s, g).eps_inf = x.eps_inf
                                      /\ WannierInitGraph(x, s, g).mp_correction = f.mp_correction
<1>1. /\ WannierInit(f2) = WannierInit(f) /\ f2.grid = f.grid /\ f2.offset = f.offset
      /\ WannierInitChannels(f2, s) = WannierInitChannels(f, s) /\ PwNbnd(f2) = PwNbnd(f)
      /\ f2.mp_correction = f.mp_correction
    BY GuardsAgree, InputsAgree DEF AgreesElse
<1>2. {"entry", "ml_mode", "eps_kpoints", "eps_inf", "mp_correction"} \subseteq Inputs
    BY DEF Inputs, NoGraph
<1>3. CASE ~WannierInit(f)
    BY <1>1, <1>3 DEF WannierInitGraph, AlikeElse
<1>4. CASE WannierInit(f)
  <2> PICK mesh, channels, nbnd, mp :
          /\ mesh = Mesh(f.grid, f.offset) /\ channels = WannierInitChannels(f, s)
          /\ nbnd = PwNbnd(f) /\ mp = f.mp_correction
    OBVIOUS
  <2>1. \A x \in {f, f2} : WannierInitGraph(x, s, g) =
            [g EXCEPT !.scf = mesh, !.nscf = mesh, !.channels = channels,
                      !.nscf_nbnd = nbnd, !.eps_inf = x.eps_inf, !.mp_correction = mp,
                      !.needs = WannierInitCodes]
    BY <1>1, <1>4 DEF WannierInitGraph
  <2>2. AlikeElse(WannierInitGraph(f2, s, g), WannierInitGraph(f, s, g))
    <3> PICK g2, g1 : g2 = WannierInitGraph(f2, s, g) /\ g1 = WannierInitGraph(f, s, g)
      OBVIOUS
    <3>1. /\ g2 = [g EXCEPT !.scf = mesh, !.nscf = mesh, !.channels = channels,
                      !.nscf_nbnd = nbnd, !.eps_inf = f2.eps_inf, !.mp_correction = mp,
                      !.needs = WannierInitCodes]
          /\ g1 = [g EXCEPT !.scf = mesh, !.nscf = mesh, !.channels = channels,
                      !.nscf_nbnd = nbnd, !.eps_inf = f.eps_inf, !.mp_correction = mp,
                      !.needs = WannierInitCodes]
      BY <2>1
    <3>2. AlikeElse(g2, g1)
      <4>1. /\ g2 = [k \in Inputs |-> g2[k]] /\ g1 = [k \in Inputs |-> g1[k]]
        BY <3>1
      <4>2. ASSUME NEW k \in Inputs, k # "eps_inf"
            PROVE  g2[k] = g1[k]
        <5> DEFINE Written == {"scf", "nscf", "channels", "nscf_nbnd", "mp_correction", "needs"}
        <5>1. DOMAIN g = Inputs /\ Written \subseteq Inputs
          BY <1>2 DEF Inputs, NoGraph
        <5>2. CASE k \notin Written
          <6>1. g2[k] = g[k]
            BY <3>1, <4>2, <5>1, <5>2
          <6>2. g1[k] = g[k]
            BY <3>1, <4>2, <5>1, <5>2
          <6> QED BY <6>1, <6>2
        <5>3. g2.scf = mesh /\ g1.scf = mesh
          <6>1. "scf" \in DOMAIN g
            BY <5>1
          <6>2. g2.scf = mesh
            BY <3>1, <6>1
          <6>3. g1.scf = mesh
            BY <3>1, <6>1
          <6> QED BY <6>2, <6>3
        <5>4. g2.nscf = mesh /\ g1.nscf = mesh
          <6>1. "nscf" \in DOMAIN g
            BY <5>1
          <6>2. g2.nscf = mesh
            BY <3>1, <6>1
          <6>3. g1.nscf = mesh
            BY <3>1, <6>1
          <6> QED BY <6>2, <6>3
        <5>5. g2.channels = channels /\ g1.channels = channels
          <6>1. "channels" \in DOMAIN g
            BY <5>1
          <6>2. g2.channels = channels
            BY <3>1, <6>1
          <6>3. g1.channels = channels
            BY <3>1, <6>1
          <6> QED BY <6>2, <6>3
        <5>6. g2.nscf_nbnd = nbnd /\ g1.nscf_nbnd = nbnd
          <6>1. "nscf_nbnd" \in DOMAIN g
            BY <5>1
          <6>2. g2.nscf_nbnd = nbnd
            BY <3>1, <6>1
          <6>3. g1.nscf_nbnd = nbnd
            BY <3>1, <6>1
          <6> QED BY <6>2, <6>3
        <5>7. g2.mp_correction = mp /\ g1.mp_correction = mp
          <6>1. "mp_correction" \in DOMAIN g
            BY <5>1
          <6>2. g2.mp_correction = mp
            BY <3>1, <6>1
          <6>3. g1.mp_correction = mp
            BY <3>1, <6>1
          <6> QED BY <6>2, <6>3
        <5>8. g2.needs = WannierInitCodes /\ g1.needs = WannierInitCodes
          <6>1. "needs" \in DOMAIN g
            BY <5>1
          <6>2. g2.needs = WannierInitCodes
            BY <3>1, <6>1
          <6>3. g1.needs = WannierInitCodes
            BY <3>1, <6>1
          <6> QED BY <6>2, <6>3
        <5> QED BY <5>2, <5>3, <5>4, <5>5, <5>6, <5>7, <5>8
      <4> QED BY <4>1, <4>2 DEF AlikeElse
    <3> QED BY <3>2
  <2>3. ASSUME NEW x \in {f, f2}
        PROVE  /\ \A k \in {"entry", "ml_mode", "eps_kpoints"} :
                      WannierInitGraph(x, s, g)[k] = g[k]
               /\ WannierInitGraph(x, s, g).eps_inf = x.eps_inf
               /\ WannierInitGraph(x, s, g).mp_correction = mp
    <3> PICK h : h = WannierInitGraph(x, s, g)
      OBVIOUS
    <3>1. h = [g EXCEPT !.scf = mesh, !.nscf = mesh, !.channels = channels,
                      !.nscf_nbnd = nbnd, !.eps_inf = x.eps_inf, !.mp_correction = mp,
                      !.needs = WannierInitCodes]
      BY <2>1
    <3>2. h.eps_inf = x.eps_inf
      BY <1>2, <3>1
    <3>3. h.mp_correction = mp
      BY <1>2, <3>1
    <3>4. h.entry = g.entry /\ h.ml_mode = g.ml_mode /\ h.eps_kpoints = g.eps_kpoints
      BY <1>2, <3>1
    <3> QED BY <3>2, <3>3, <3>4
  <2> QED BY <1>4, <2>2, <2>3
<1> QED BY <1>3, <1>4

\* The fan-out over the frames of a trajectory.
LEMMA SnapshotsRunTheSame ==
    ASSUME NEW f, NEW f2, LacksIdle(f2, f), NEW s,
           f.task = "singlepoint", f.formalism = "dscf", HasSnapshots(f), f.eps_inf # "auto"
    PROVE  Calculation(SnapshotsGraph(f2, s)) = Calculation(SnapshotsGraph(f, s))
<1>1. /\ AgreesElse(f2, f) /\ f2.ml_mode = f.ml_mode
      /\ AsMapping(f2) = AsMapping(f) /\ PredictsWithoutTrial(f2) = PredictsWithoutTrial(f)
    BY InputsAgree DEF LacksIdle, AgreesElse
<1>2. ~PredictsWithoutTrial(f) => /\ f2.alpha_guess = f.alpha_guess
                                  /\ GroupingTol(f2, "self_hartree") = GroupingTol(f, "self_hartree")
    BY DEF LacksIdle, TasksWithoutKoopmansStep
<1> DEFINE Kcp(x) ==
        [NoGraph EXCEPT !.entry = "Trajectory", !.screened = TRUE,
                   !.ml_mode = x.ml_mode, !.mapping = AsMapping(x),
                   !.group_tol = IF ~PredictsWithoutTrial(x) THEN GroupingTol(x, "self_hartree")
                                 ELSE "unset",
                   !.alpha = IF ~PredictsWithoutTrial(x) THEN x.alpha_guess ELSE "unset"]
<1>3. \A x : SnapshotsGraph(x, s) = WannierInitGraph(x, s, Kcp(x))
    BY DEF SnapshotsGraph
<1>4. Kcp(f2) = Kcp(f)
    BY <1>1, <1>2
<1>5. /\ Kcp(f) = [k \in Inputs |-> Kcp(f)[k]]
      /\ Kcp(f).entry = "Trajectory" /\ Kcp(f).ml_mode = f.ml_mode
      /\ Kcp(f).eps_inf = "unset" /\ Kcp(f).eps_kpoints = NoSampling
      /\ Kcp(f).channels = <<>>
  <2>1. /\ {"entry", "ml_mode", "eps_inf", "eps_kpoints", "channels"} \subseteq DOMAIN NoGraph
        /\ NoGraph = [k \in DOMAIN NoGraph |-> NoGraph[k]]
        /\ NoGraph.eps_inf = "unset" /\ NoGraph.eps_kpoints = NoSampling
        /\ NoGraph.channels = <<>>
    BY DEF NoGraph
  <2> QED BY <2>1 DEF Inputs
<1> HIDE DEF Kcp
<1> PICK kcp : kcp = Kcp(f)
    OBVIOUS
<1>6. /\ SnapshotsGraph(f2, s) = WannierInitGraph(f2, s, kcp)
      /\ SnapshotsGraph(f, s) = WannierInitGraph(f, s, kcp)
    BY <1>3, <1>4
<1> PICK g2, g : g2 = SnapshotsGraph(f2, s) /\ g = SnapshotsGraph(f, s)
    OBVIOUS
<1>7. /\ AlikeElse(g2, g) /\ g.entry = "Trajectory" /\ g.ml_mode = f.ml_mode
      /\ g2.eps_kpoints = g.eps_kpoints
      /\ ~WannierInit(f) => g2 = g
      /\ WannierInit(f) => /\ g2.eps_inf = f2.eps_inf /\ g.eps_inf = f.eps_inf
                           /\ g.mp_correction = f.mp_correction
    BY <1>1, <1>5, <1>6, SeededAlike
<1>8. g2.eps_inf = g.eps_inf \/ ~ConsumesEpsInf(g)
  <2>1. CASE WannierInit(f) /\ f2.eps_inf # f.eps_inf
    <3>1. EpsIsIdle(f)
      BY <2>1 DEF LacksIdle, TasksWithoutKoopmansStep
    <3>2. g.mp_correction = "off" \/ g.ml_mode = "predict"
      BY <1>7, <2>1, <3>1 DEF EpsIsIdle
    <3> QED BY <1>7, <3>2 DEF ConsumesEpsInf
  <2> QED BY <1>7, <2>1
<1>9. Calculation(g2) = Calculation(g)
    BY <1>7, <1>8, IdleEpsIsIgnored
<1> QED BY <1>9

\* A kcp.x run of one structure.
LEMMA DscfRunsTheSame ==
    ASSUME NEW f, NEW f2, LacksIdle(f2, f), NEW s,
           f.task = "singlepoint", f.formalism = "dscf", ~HasSnapshots(f), f.ml_mode = "none"
    PROVE  Calculation(DscfGraph(f2, s)) = Calculation(DscfGraph(f, s))
<1>1. /\ AgreesElse(f2, f) /\ AsMapping(f2) = AsMapping(f)
      /\ f2.alpha_guess = f.alpha_guess /\ f2.mp_correction = f.mp_correction
      /\ GroupingTol(f2, "self_hartree") = GroupingTol(f, "self_hartree")
      /\ WannierInit(f2) = WannierInit(f)
    BY InputsAgree, GuardsAgree DEF LacksIdle, AgreesElse, TasksWithoutKoopmansStep
<1>2. EpsIsIdle(f) \/ (/\ f2.eps_inf = f.eps_inf
                       /\ f.eps_inf # "auto" \/ DielectricKpoints(f2) = DielectricKpoints(f))
    BY DEF LacksIdle, TasksWithoutKoopmansStep
<1>3. EpsIsIdle(f) => ~WannierInit(f) \/ f.mp_correction = "off"
    BY DEF EpsIsIdle
<1> DEFINE Kcp(x) ==
        [NoGraph EXCEPT !.entry = "KoopmansDSCF", !.screened = TRUE,
                   !.group_tol = GroupingTol(x, "self_hartree"),
                   !.alpha = x.alpha_guess, !.mapping = AsMapping(x)]
           Sampled(x, seeded) ==
              IF ~WannierInit(x) THEN seeded
              ELSE [seeded EXCEPT !.eps_kpoints = DielectricKpoints(x),
                       !.needs = @ \cup DielectricCode(x, x.mp_correction # "off")]
<1>4. \A x : DscfGraph(x, s)
               = BandInterpolation(x, Sampled(x, WannierInitGraph(x, s, Kcp(x))))
    BY DEF DscfGraph
<1>5. Kcp(f2) = Kcp(f)
    BY <1>1
<1>6. /\ Kcp(f) = [k \in Inputs |-> Kcp(f)[k]]
      /\ Kcp(f).entry = "KoopmansDSCF"
  <2>1. /\ "entry" \in DOMAIN NoGraph
        /\ NoGraph = [k \in DOMAIN NoGraph |-> NoGraph[k]]
    BY DEF NoGraph
  <2> QED BY <2>1 DEF Inputs
<1> HIDE DEF Kcp
<1> PICK kcp : kcp = Kcp(f)
    OBVIOUS
<1> PICK h2, h : h2 = WannierInitGraph(f2, s, kcp) /\ h = WannierInitGraph(f, s, kcp)
    OBVIOUS
<1>7. /\ AlikeElse(h2, h) /\ h.entry = "KoopmansDSCF" /\ h2.eps_kpoints = h.eps_kpoints
      /\ ~WannierInit(f) => h2 = h
      /\ WannierInit(f) => /\ h2.eps_inf = f2.eps_inf /\ h.eps_inf = f.eps_inf
                           /\ h.mp_correction = f.mp_correction
    BY <1>1, <1>6, SeededAlike
<1> PICK i2, i : i2 = Sampled(f2, h2) /\ i = Sampled(f, h)
    OBVIOUS
<1>8. /\ AlikeElse(i2, i) /\ i.entry = "KoopmansDSCF"
      /\ ~WannierInit(f) => i2 = i
      /\ WannierInit(f) => /\ i2.eps_inf = f2.eps_inf /\ i.eps_inf = f.eps_inf
                           /\ i.mp_correction = f.mp_correction
                           /\ i2.eps_kpoints = DielectricKpoints(f2)
                           /\ i.eps_kpoints = DielectricKpoints(f)
  <2>1. CASE ~WannierInit(f)
    BY <1>1, <1>7, <2>1
  <2>2. CASE WannierInit(f)
    <3>1. DielectricCode(f2, f2.mp_correction # "off") = DielectricCode(f, f.mp_correction # "off")
      BY <1>1, <1>2, <1>3, <2>2 DEF DielectricCode
    <3>2. {"entry", "eps_inf", "eps_kpoints", "mp_correction", "needs"} \subseteq Inputs
      BY DEF Inputs, NoGraph
    <3>3. PICK k2, k, code :
              /\ k2 = DielectricKpoints(f2) /\ k = DielectricKpoints(f)
              /\ code = DielectricCode(f, f.mp_correction # "off")
      OBVIOUS
    <3>4. /\ i2 = [h2 EXCEPT !.eps_kpoints = k2, !.needs = h2.needs \cup code]
          /\ i = [h EXCEPT !.eps_kpoints = k, !.needs = h.needs \cup code]
      BY <1>1, <2>2, <3>1, <3>3
    <3>5. h2.needs = h.needs
      BY <1>7, <3>2 DEF AlikeElse
    <3>6. AlikeElse(i2, i)
      <4> PICK n : n = h.needs \cup code
        OBVIOUS
      <4>1. i2 = [h2 EXCEPT !.eps_kpoints = k2, !.needs = n]
        BY <3>4, <3>5
      <4>2. i = [h EXCEPT !.eps_kpoints = k, !.needs = n]
        BY <3>4
      <4>3. /\ h = [k1 \in Inputs |-> h[k1]] /\ h2 = [k1 \in Inputs |-> h2[k1]]
            /\ \A k1 \in Inputs \ {"eps_inf", "eps_kpoints"} : h2[k1] = h[k1]
        BY <1>7 DEF AlikeElse
      <4>4. i = [k1 \in Inputs |-> i[k1]] /\ i2 = [k1 \in Inputs |-> i2[k1]]
        BY <4>1, <4>2, <4>3
      <4>5. ASSUME NEW k1 \in Inputs \ {"eps_inf", "eps_kpoints"}
            PROVE  i2[k1] = i[k1]
        <5>1. DOMAIN h = Inputs /\ DOMAIN h2 = Inputs
          BY <4>3
        <5>2. i.needs = n /\ i2.needs = n
          BY <3>2, <4>1, <4>2, <5>1
        <5>3. CASE k1 # "needs"
          <6>1. i2[k1] = h2[k1] /\ i[k1] = h[k1]
            BY <4>1, <4>2, <5>1, <5>3
          <6> QED BY <4>3, <6>1
        <5> QED BY <5>2, <5>3
      <4> QED BY <4>4, <4>5 DEF AlikeElse
    <3>7. /\ i.entry = h.entry /\ i2.eps_inf = h2.eps_inf /\ i.eps_inf = h.eps_inf
          /\ i.mp_correction = h.mp_correction /\ i2.eps_kpoints = k2 /\ i.eps_kpoints = k
      BY <1>7, <3>2, <3>4 DEF AlikeElse
    <3> QED BY <1>7, <2>2, <3>3, <3>6, <3>7
  <2> QED BY <2>1, <2>2
<1> HIDE DEF Sampled
<1> PICK g2, g : g2 = DscfGraph(f2, s) /\ g = DscfGraph(f, s)
    OBVIOUS
<1>9. g2 = BandInterpolation(f2, i2) /\ g = BandInterpolation(f, i)
    BY <1>4, <1>5
<1>10. AlikeElse(g2, g)
    BY <1>8, <1>9, InterpolatedAlike
<1>11. /\ i = [k \in Inputs |-> i[k]] /\ i2 = [k \in Inputs |-> i2[k]]
    BY <1>8 DEF AlikeElse
<1>12. /\ g.entry = "KoopmansDSCF" /\ g.mp_correction = i.mp_correction
       /\ g2.eps_inf = i2.eps_inf /\ g.eps_inf = i.eps_inf
       /\ g2.eps_kpoints = i2.eps_kpoints /\ g.eps_kpoints = i.eps_kpoints
    BY <1>8, <1>9, <1>11, InterpolatedElse
<1>13. g2.eps_inf = g.eps_inf \/ ~ConsumesEpsInf(g)
  <2>1. CASE WannierInit(f) /\ f.mp_correction = "off"
    BY <1>8, <1>12, <2>1 DEF ConsumesEpsInf
  <2> QED BY <1>2, <1>3, <1>8, <1>12, <2>1
<1>14. g2.eps_kpoints = g.eps_kpoints \/ ~RunsDielectricStep(g)
  <2>1. CASE WannierInit(f) /\ f.mp_correction = "off"
    BY <1>8, <1>12, <2>1 DEF RunsDielectricStep, ConsumesEpsInf
  <2>2. CASE WannierInit(f) /\ f.eps_inf # "auto"
    BY <1>8, <1>12, <2>2 DEF RunsDielectricStep
  <2> QED BY <1>2, <1>3, <1>8, <1>12, <2>1, <2>2
<1>15. Calculation(g2) = Calculation(g)
    BY <1>10, <1>13, <1>14, IdleEpsIsIgnored
<1> QED BY <1>15

\* The plain pw.x and ph.x runs read nothing that the two files differ in.
LEMMA DftRunsTheSame ==
    ASSUME NEW f, NEW f2, LacksIdle(f2, f)
    PROVE  DftBandsGraph(f2) = DftBandsGraph(f) /\ DftEpsGraph(f2) = DftEpsGraph(f)
<1>1. /\ PinStepKpoints(f2, "scf") = PinStepKpoints(f, "scf")
      /\ InterpolationPath(f2, TopDensity) = InterpolationPath(f, TopDensity)
      /\ AsMapping(f2) = AsMapping(f) /\ PwNbnd(f2) = PwNbnd(f)
      /\ CodeParallelization(f2, "pw") = CodeParallelization(f, "pw")
    BY InputsAgree DEF LacksIdle
<1> QED BY <1>1 DEF DftBandsGraph, DftEpsGraph

\* A Wannierization differs from them in its nscf and in its density along
\* the path, which are those of the file where it has a path.
LEMMA WannierizeRunsTheSame ==
    ASSUME NEW f, NEW f2, LacksIdle(f2, f), NEW s, f.task = "wannierize"
    PROVE  WannierizeGraph(f2, s) = WannierizeGraph(f, s)
<1>1. /\ PinStepKpoints(f2, "scf") = PinStepKpoints(f, "scf")
      /\ InterpolationPath(f2, TopDensity) = InterpolationPath(f, TopDensity)
      /\ AsMapping(f2) = AsMapping(f) /\ PwNbnd(f2) = PwNbnd(f)
      /\ CodeParallelization(f2, "pw") = CodeParallelization(f, "pw")
      /\ ExplicitNbnd(f2) = ExplicitNbnd(f) /\ RunsByBlock(f2) = RunsByBlock(f)
      /\ NumOcc(f2, s, 0) = NumOcc(f, s, 0)
    BY InputsAgree DEF LacksIdle
<1>2. StepKpointsMesh(f2, "nscf") = StepKpointsMesh(f, "nscf")
  <2>1. f2.nscf = f.nscf
    BY DEF LacksIdle
  <2> QED BY <2>1, InputsAgree DEF LacksIdle
<1>3. WannierizeInterpolationPath(f2) = WannierizeInterpolationPath(f)
  <2>1. NamesBandPath(f2) = NamesBandPath(f)
    BY GuardsAgree DEF LacksIdle
  <2>2. CASE ~NamesBandPath(f)
    BY <2>1, <2>2 DEF WannierizeInterpolationPath, InterpolationPath
  <2>3. CASE NamesBandPath(f)
    <3>1. f2.wannierize = f.wannierize
      BY <2>3 DEF LacksIdle
    <3> QED BY <2>1, <3>1 DEF WannierizeInterpolationPath, InterpolationPath
  <2> QED BY <2>2, <2>3
<1>4. OneManifoldGraph(f2) = OneManifoldGraph(f)
    BY <1>1, <1>2, <1>3 DEF OneManifoldGraph
<1>5. BlockwiseGraph(f2, s) = BlockwiseGraph(f, s)
  <2>1. f2.projections = f.projections /\ f2.threshold = f.threshold
    BY DEF LacksIdle, AgreesElse
  <2> QED BY <1>1, <1>2, <1>3, <2>1 DEF BlockwiseGraph
<1> QED BY <1>1, <1>4, <1>5 DEF WannierizeGraph

\* A run that is not refused calculates the same without them.
LEMMA RunsTheSame ==
    ASSUME NEW f, NEW f2, LacksIdle(f2, f), NEW s, BuildRefusals(f, s) = {},
           ~(f.task = "singlepoint" /\ f.formalism = "unset"),
           f.formalism \in {"unset", "dscf", "dfpt"}
    PROVE  Calculation(BuildWorkgraph(f2, s)) = Calculation(BuildWorkgraph(f, s))
<1>1. /\ f2.task = f.task /\ HasSnapshots(f2) = HasSnapshots(f)
      /\ f.task = "singlepoint" => f2.formalism = f.formalism
    BY GuardsAgree DEF LacksIdle, AgreesElse, TasksWithoutKoopmansStep
<1>2. CASE HasSnapshots(f)
  <2>1. SnapshotsGuards(f, s) = {}
    BY <1>2, BuiltByRoute
  <2>2. f.task = "singlepoint" /\ f.eps_inf # "auto" /\ f.formalism # "dfpt"
    BY <2>1 DEF ||, When, SnapshotsGuards
  <2>3. /\ RouteGraph(f2, s) = SnapshotsGraph(f2, s)
        /\ RouteGraph(f, s) = SnapshotsGraph(f, s)
    BY <1>1, <1>2 DEF RouteGraph
  <2>4. Calculation(SnapshotsGraph(f2, s)) = Calculation(SnapshotsGraph(f, s))
    BY <1>2, <2>2, SnapshotsRunTheSame
  <2> QED BY <2>3, <2>4 DEF BuildWorkgraph
<1>3. CASE ~HasSnapshots(f)
  <2>1. f.task \in {"dft_bands", "dft_eps", "wannierize", "bse", "singlepoint"}
    BY <1>3, BuiltByRoute
  <2>2. f.ml_mode = "none" \/ f.task # "singlepoint"
    <3>1. KeywordGuards(f) = {}
      BY BuiltByRoute
    <3> QED BY <1>3, <3>1 DEF ||, When, KeywordGuards
  <2>3. CASE f.task \in {"dft_bands", "dft_eps"}
    <3>1. RouteGraph(f2, s) = RouteGraph(f, s)
      BY <1>1, <1>3, <2>3, DftRunsTheSame DEF RouteGraph
    <3> QED BY <3>1 DEF BuildWorkgraph
  <2>4. CASE f.task = "wannierize"
    <3>1. WannierizeGraph(f2, s) = WannierizeGraph(f, s)
      BY <2>4, WannierizeRunsTheSame
    <3>2. RouteGraph(f2, s) = RouteGraph(f, s)
      BY <1>1, <1>3, <2>4, <3>1 DEF RouteGraph
    <3> QED BY <3>2 DEF BuildWorkgraph
  <2>5. CASE f.task = "bse"
    <3>1. RouteGraph(f2, s) = BseGraph(f2, s) /\ RouteGraph(f, s) = BseGraph(f, s)
      BY <1>1, <1>3, <2>5 DEF RouteGraph
    <3>2. Calculation(BseGraph(f2, s)) = Calculation(BseGraph(f, s))
      BY <1>3, <2>5, DfptRunsTheSame
    <3> QED BY <3>1, <3>2 DEF BuildWorkgraph
  <2>6. CASE f.task = "singlepoint" /\ f.formalism = "dfpt"
    <3>1. RouteGraph(f2, s) = DfptGraph(f2, s) /\ RouteGraph(f, s) = DfptGraph(f, s)
      BY <1>1, <1>3, <2>6 DEF RouteGraph
    <3>2. Calculation(DfptGraph(f2, s)) = Calculation(DfptGraph(f, s))
      BY <1>3, <2>6, DfptRunsTheSame
    <3> QED BY <3>1, <3>2 DEF BuildWorkgraph
  <2>7. CASE f.task = "singlepoint" /\ f.formalism = "dscf"
    <3>1. RouteGraph(f2, s) = DscfGraph(f2, s) /\ RouteGraph(f, s) = DscfGraph(f, s)
      BY <1>1, <1>3, <2>7 DEF RouteGraph
    <3>2. Calculation(DscfGraph(f2, s)) = Calculation(DscfGraph(f, s))
      BY <1>3, <2>2, <2>7, DscfRunsTheSame
    <3> QED BY <3>1, <3>2 DEF BuildWorkgraph
  <2> QED BY <2>1, <2>3, <2>4, <2>5, <2>6, <2>7
<1> QED BY <1>2, <1>3

\* What a notice that says "no effect" is about, and what the file it is
\* printed for is like.
LEMMA NoticeKinds ==
    ASSUME NEW f, NEW n \in AdvisoriesFor(f), SaysNoEffect(n)
    PROVE  \/ /\ n.why = "no trial calculation"
              /\ f.task = "singlepoint" /\ HasSnapshots(f) /\ PredictsWithoutTrial(f)
           \/ /\ n.why # "no trial calculation"
              /\ \/ n.about = "formalism" /\ f.task \in TasksWithoutKoopmansStep
                 \/ n.about = "nscf" /\ f.task \in {"dft_bands", "dft_eps"}
                 \/ /\ n.about \in InertSteps
                    /\ f.gamma_only \/ InertReason(f, n.about) # {}
                 \/ n.about = "eps_inf" /\ EpsInfInert(f) # {}
                 \/ n.about = "group_tol" /\ f.group_by = "none" /\ f.group_tol # "unset"
<1> DEFINE Kind == \/ /\ n.why = "no trial calculation"
                      /\ f.task = "singlepoint" /\ HasSnapshots(f) /\ PredictsWithoutTrial(f)
                   \/ /\ n.why # "no trial calculation"
                      /\ \/ n.about = "formalism" /\ f.task \in TasksWithoutKoopmansStep
                         \/ n.about = "nscf" /\ f.task \in {"dft_bands", "dft_eps"}
                         \/ /\ n.about \in InertSteps
                            /\ f.gamma_only \/ InertReason(f, n.about) # {}
                         \/ n.about = "eps_inf" /\ EpsInfInert(f) # {}
                         \/ /\ n.about = "group_tol"
                            /\ f.group_by = "none" /\ f.group_tol # "unset"
<1> SUFFICES Kind
    OBVIOUS
<1>0. \A about, why : Notice(about, why).about = about /\ Notice(about, why).why = why
    BY DEF Notice
<1>1. CASE n \in FormalismAdvisories(f)
  <2>1. n = Notice("formalism", "no Koopmans step") /\ f.task \in TasksWithoutKoopmansStep
    BY <1>1 DEF FormalismAdvisories
  <2>2. n.about = "formalism" /\ n.why = "no Koopmans step"
    BY <1>0, <2>1
  <2> QED BY <2>1, <2>2
<1>2. CASE n \in GammaOnlyOverrideAdvisories(f) /\ f.gamma_only
  <2>1. PICK step \in InertSteps : n = Notice(step, "gamma only")
    BY <1>2 DEF GammaOnlyOverrideAdvisories
  <2>2. n.about = step /\ n.why = "gamma only"
    BY <1>0, <2>1
  <2> QED BY <1>2, <2>2
<1>3. CASE n \in NscfAdvisories(f)
  <2>1. n = Notice("nscf", "no nscf step") /\ f.task \in {"dft_bands", "dft_eps"}
    BY <1>3 DEF NscfAdvisories
  <2>2. n.about = "nscf" /\ n.why = "no nscf step"
    BY <1>0, <2>1
  <2> QED BY <2>1, <2>2
<1>4. ASSUME NEW step \in InertSteps, NEW why \in InertReason(f, step), n = Notice(step, why)
      PROVE  Kind
  <2>1. \A c : "no trial calculation" # c => ~("no trial calculation" \in {c})
    OBVIOUS
  <2>2. "no trial calculation" \notin WithoutPathReason(f)
    BY DEF WithoutPathReason, ||, When
  <2>3. "no trial calculation" \notin WannierizeInertReason(f)
    BY <2>2 DEF WannierizeInertReason
  <2>4. "no trial calculation" \notin WannierizeSmoothInertReason(f)
    BY <2>2 DEF WannierizeSmoothInertReason, When
  <2>5. "no trial calculation" \notin DielectricInertReason(f)
    BY DEF DielectricInertReason, ||, When
  <2>6. why # "no trial calculation"
    BY <1>4, <2>3, <2>4, <2>5 DEF InertReason, InertSteps
  <2>7. n.about = step /\ n.why = why
    BY <1>4 DEF Notice
  <2> QED BY <1>4, <2>6, <2>7
<1>5. CASE n \in SmoothMeshAdvisory(f)
  <2>1. n = Notice("smooth mesh", "no denser")
    BY <1>5 DEF SmoothMeshAdvisory
  <2> QED BY <1>0, <2>1 DEF SaysNoEffect
<1>6. CASE n \in EpsInfAdvisories(f)
  <2>1. "no trial calculation" \notin EpsInfInert(f)
    BY DEF EpsInfInert, ||, When
  <2>2. CASE EpsInfInert(f) # {}
    <3>1. PICK why \in EpsInfInert(f) : n = Notice("eps_inf", why)
      BY <1>6, <2>2 DEF EpsInfAdvisories
    <3>2. n.about = "eps_inf" /\ n.why = why
      BY <3>1 DEF Notice
    <3> QED BY <2>1, <2>2, <3>2
  <2>3. CASE EpsInfInert(f) = {}
    <3>1. n = [Notice("eps mesh", "add an entry") EXCEPT !.mesh = DefaultDielectricMesh(f)]
      BY <1>6, <2>3 DEF EpsInfAdvisories
    <3>2. n.about = "eps mesh"
      BY <3>1 DEF Notice
    <3> QED BY <3>2 DEF SaysNoEffect
  <2> QED BY <2>2, <2>3
<1>7. CASE n \in GroupingAdvisories(f)
  <2>1. PICK why \in {"no Koopmans step", "resolved to none"} : n = Notice("group_tol", why)
    BY <1>7 DEF GroupingAdvisories
  <2>2. f.group_by = "none" /\ f.group_tol # "unset"
    BY <1>7 DEF GroupingAdvisories
  <2>3. n.about = "group_tol" /\ n.why # "no trial calculation"
    BY <1>0, <2>1
  <2> QED BY <2>2, <2>3
<1>8. CASE /\ n \in PredictNoTrialAdvisories(f)
           /\ f.task = "singlepoint" /\ HasSnapshots(f) /\ PredictsWithoutTrial(f)
  <2>1. \E key : n = Notice(key, "no trial calculation")
    BY <1>8 DEF PredictNoTrialAdvisories
  <2>2. n.why = "no trial calculation"
    BY <1>0, <2>1
  <2> QED BY <1>8, <2>2
<1>9. CASE n \in KpointOverrideAdvisories(f)
  <2>1. CASE f.gamma_only
    BY <1>2, <1>9, <2>1 DEF KpointOverrideAdvisories
  <2>2. CASE ~f.gamma_only
    <3>1. \/ n \in NscfAdvisories(f) \/ n \in SmoothMeshAdvisory(f)
          \/ \E step \in InertSteps : \E why \in InertReason(f, step) : n = Notice(step, why)
      <4> DEFINE Inert(step) == {Notice(step, why) : why \in InertReason(f, step)}
                 Stated == {st \in InertSteps : StatesEntry(f, st)}
      <4>1. n \in NscfAdvisories(f) \cup (UNION {Inert(step) : step \in Stated})
                     \cup SmoothMeshAdvisory(f)
        BY <1>9, <2>2 DEF KpointOverrideAdvisories
      <4>2. ASSUME NEW step \in Stated, n \in Inert(step)
            PROVE  \E why \in InertReason(f, step) : n = Notice(step, why)
        BY <4>2
      <4>3. \/ n \in NscfAdvisories(f) \/ n \in SmoothMeshAdvisory(f)
            \/ n \in UNION {Inert(step) : step \in Stated}
        BY <4>1
      <4>4. CASE n \in UNION {Inert(step) : step \in Stated}
        <5> HIDE DEF Inert, Stated
        <5>1. \E step \in Stated : n \in Inert(step)
          BY <4>4
        <5>2. PICK step \in Stated : n \in Inert(step)
          BY <5>1
        <5>3. \E why \in InertReason(f, step) : n = Notice(step, why)
          BY <4>2, <5>2
        <5>4. step \in InertSteps
          BY <5>2 DEF Stated
        <5> QED BY <5>3, <5>4
      <4> QED BY <4>3, <4>4
    <3> HIDE DEF Kind
    <3> QED BY <1>3, <1>4, <1>5, <3>1
  <2> QED BY <2>1, <2>2
<1> QED BY <1>1, <1>6, <1>7, <1>8, <1>9 DEF AdvisoriesFor

\* The keywords that a notice may be about.
Idle == {"formalism", "eps_inf", "group_by", "group_tol", "alpha_guess", "nscf",
         "dielectric", "wannierize", "wannierize_smooth"}

\* Two files that differ in those alone agree as AgreesElse says.
LEMMA ElseAgrees ==
    ASSUME NEW f, NEW f2, \A keyword \in DOMAIN Schema \ Idle : f2[keyword] = f[keyword]
    PROVE  AgreesElse(f2, f)
<1>1. {"task", "correction", "init", "spin", "calculate_alpha", "alpha_numsteps",
       "mp_correction", "orbital_groups", "coarse_grid", "threshold", "auto_projections",
       "positions", "periodic", "gamma_only", "grid", "offset", "path", "scf", "ecutwfc",
       "nbnd", "pw_nbnd", "kcp_nbnd", "tot_magnetization", "smearing", "projections", "up",
       "down", "kcw_screen", "bse_bands", "atom_proj_ext", "atom_proj_dir", "ml_mode",
       "descriptor", "models", "computer", "account", "queue", "walltime",
       "parallelization", "retired"} \subseteq DOMAIN Schema \ Idle
    BY DEF Schema, Idle
<1> QED BY <1>1 DEF AgreesElse

\* What reading makes of each keyword.
LEMMA ParsedKeywords ==
    ASSUME NEW f, WellFormed(f)
    PROVE  /\ \A keyword \in DOMAIN Schema \ {"group_by", "group_tol"} :
                  Parse(f)[keyword] = f[keyword]
           /\ Parse(f).group_by =
                  IF f.group_by # "unset" THEN f.group_by
                  ELSE IF PredictsWithoutTrial(f) /\ f.group_tol = "unset" THEN "none"
                  ELSE IF WannierInit(f) /\ f.formalism = "dscf" THEN "self_hartree"
                  ELSE "none"
           /\ Parse(f).group_tol =
                  IF f.group_tol = "unset" /\ Parse(f).group_by # "none" THEN "default"
                  ELSE f.group_tol
<1>1. /\ f = [keyword \in DOMAIN Schema |-> f[keyword]]
      /\ {"group_by", "group_tol", "init", "formalism", "ml_mode", "descriptor"}
           \subseteq DOMAIN Schema
    BY DEF WellFormed, Schema
<1>2. Parse(f) = [f EXCEPT !.group_by = Parse(f).group_by, !.group_tol = Parse(f).group_tol]
    BY ParseKeeps
<1>3. \A keyword \in DOMAIN Schema \ {"group_by", "group_tol"} : Parse(f)[keyword] = f[keyword]
    BY <1>1, <1>2
<1> PICK g : g = DefaultGroupingToNone(f)
    OBVIOUS
<1>4. /\ g = [keyword \in DOMAIN Schema |-> g[keyword]]
      /\ g.init = f.init /\ g.formalism = f.formalism /\ g.group_tol = f.group_tol
      /\ g.group_by = IF PredictsWithoutTrial(f) /\ f.group_by = "unset" /\ f.group_tol = "unset"
                      THEN "none" ELSE f.group_by
  <2>1. CASE PredictsWithoutTrial(f) /\ f.group_by = "unset" /\ f.group_tol = "unset"
    <3>1. g = [f EXCEPT !.group_by = "none"]
      BY <2>1 DEF DefaultGroupingToNone
    <3> QED BY <1>1, <2>1, <3>1
  <2>2. CASE ~(PredictsWithoutTrial(f) /\ f.group_by = "unset" /\ f.group_tol = "unset")
    <3>1. g = f
      BY <2>2 DEF DefaultGroupingToNone
    <3> QED BY <1>1, <2>2, <3>1
  <2> QED BY <2>1, <2>2
<1>5. PICK by : by = IF g.group_by # "unset" THEN g.group_by
                     ELSE IF WannierInit(g) /\ g.formalism = "dscf" THEN "self_hartree"
                     ELSE "none"
    OBVIOUS
<1>6. PICK tol : tol = IF g.group_tol = "unset" /\ by # "none" THEN "default" ELSE g.group_tol
    OBVIOUS
<1>7. Parse(f) = [g EXCEPT !.group_by = by, !.group_tol = tol]
    BY <1>5, <1>6 DEF Parse, ResolveGroupOrbitalsBy
<1>8. Parse(f).group_by = by /\ Parse(f).group_tol = tol
    BY <1>1, <1>4, <1>7
<1>9. WannierInit(g) = WannierInit(f)
    BY <1>4 DEF WannierInit
<1> QED BY <1>3, <1>4, <1>5, <1>6, <1>8, <1>9

\* raw2 leaves out of the file raw some of what a notice may be about.
LeavesOut(raw2, raw) ==
    /\ AgreesElse(raw2, raw)
    /\ \/ raw2.formalism = raw.formalism
       \/ raw2.formalism = "unset" /\ raw.task \in TasksWithoutKoopmansStep
    /\ raw2.nscf \in {raw.nscf, NoEntry} /\ raw2.dielectric \in {raw.dielectric, NoEntry}
    /\ \/ raw2.group_by = raw.group_by /\ raw2.group_tol \in {raw.group_tol, "unset"}
       \/ raw2.group_by = "unset" /\ raw2.group_tol = "unset"

\* What reading accepts it accepts without them.
LEMMA NothingNewIsMisread ==
    ASSUME NEW raw, WellFormed(raw), NEW raw2, WellFormed(raw2), LeavesOut(raw2, raw),
           ParseRefusals(raw) = {}
    PROVE  ParseRefusals(raw2) = {}
<1>1. /\ WorkflowRefusals(raw) = {} /\ AtomsRefusals(raw) = {} /\ KpointsRefusals(raw) = {}
      /\ CalculatorRefusals(raw) = {} /\ MLRefusals(raw) = {}
      /\ ParallelizationRefusals(raw) = {}
      /\ CollinearRefusal(raw) = {} /\ ScreenRefusal(raw) = {}
      /\ MLStructuresRefusal(raw) = {} /\ YamboRefusals(raw) = {}
    BY NoneOf, Chained DEF ParseRefusals
<1>2. AgreesElse(raw2, raw)
    BY DEF LeavesOut
<1>3. /\ AtomsRefusals(raw2) = AtomsRefusals(raw)
      /\ CalculatorRefusals(raw2) = CalculatorRefusals(raw) /\ MLRefusals(raw2) = MLRefusals(raw)
      /\ CollinearRefusal(raw2) = CollinearRefusal(raw)
      /\ ScreenRefusal(raw2) = ScreenRefusal(raw) /\ YamboRefusals(raw2) = YamboRefusals(raw)
    BY <1>2 DEF AgreesElse, AtomsRefusals, CalculatorRefusals, MLRefusals, CollinearRefusal,
                ScreenRefusal, YamboRefusals
<1>4. /\ ParallelizationRefusals(raw2) = ParallelizationRefusals(raw)
      /\ MLStructuresRefusal(raw2) = MLStructuresRefusal(raw)
      /\ HasSnapshots(raw2) = HasSnapshots(raw) /\ NamesBandPath(raw2) = NamesBandPath(raw)
  <2>1. HasSnapshots(raw2) = HasSnapshots(raw) /\ NamesBandPath(raw2) = NamesBandPath(raw)
    BY <1>2 DEF AgreesElse, HasSnapshots, NamesBandPath
  <2>2. raw2.parallelization = raw.parallelization
    BY <1>2 DEF AgreesElse
  <2>3. ParallelizationRefusals(raw2) = ParallelizationRefusals(raw)
    BY <2>2 DEF ParallelizationRefusals, RoleSplitRefusals, Directive
  <2> QED BY <1>2, <2>1, <2>3 DEF AgreesElse, MLStructuresRefusal
<1>5. WorkflowRefusals(raw2) = {}
  <2>1. DefaultGroupingToNone(raw).group_by = "none" => raw.group_tol = "unset"
    BY <1>1 DEF WorkflowRefusals, ||, When
  <2>2. DefaultGroupingToNone(raw2).group_by = "none" => raw2.group_tol = "unset"
    <3>1. CASE raw2.group_tol # "unset"
      <4>1. raw2.group_by = raw.group_by /\ raw.group_tol # "unset"
        BY <3>1 DEF LeavesOut
      <4>2. DefaultGroupingToNone(raw2) = raw2 /\ DefaultGroupingToNone(raw) = raw
        BY <3>1, <4>1 DEF DefaultGroupingToNone
      <4> QED BY <2>1, <4>1, <4>2
    <3> QED BY <3>1
  <2>3. /\ raw2.retired = raw.retired /\ raw2.task = raw.task /\ raw2.spin = raw.spin
        /\ raw2.orbital_groups = raw.orbital_groups
    BY <1>2 DEF AgreesElse
  <2>4. raw.task \in {"singlepoint", "bse"} => raw2.formalism = raw.formalism
    BY DEF LeavesOut, TasksWithoutKoopmansStep
  <2>5. /\ raw.retired # "calculate_bands"
        /\ ~(raw.task = "singlepoint" /\ raw.formalism = "unset")
        /\ ~(raw.task = "bse" /\ raw.formalism = "dscf")
        /\ ~(/\ raw.orbital_groups # 0
             /\ raw.orbital_groups # (IF raw.spin = "collinear" THEN 2 ELSE 1))
    BY <1>1 DEF WorkflowRefusals, ||, When
  <2> QED BY <2>2, <2>3, <2>4, <2>5 DEF WorkflowRefusals, ||, When
<1>6. FormerKpointsKeywords(raw2) = {}
  <2>1. FormerKpointsKeywords(raw2) = FormerKpointsKeywords(raw)
    BY <1>2 DEF AgreesElse, FormerKpointsKeywords
  <2> QED BY <1>1, <2>1, Chained DEF KpointsRefusals
<1>7. OverridesRefusals(raw2) = {}
  <2>1. OverridesRefusals(raw) = {}
    BY <1>1, Chained DEF KpointsRefusals
  <2>2. /\ ~StepEntryRefused(raw.scf) /\ ~StepEntryRefused(raw.nscf)
        /\ ~StepEntryRefused(raw.dielectric)
        /\ raw.nscf.spacing = 0 /\ raw.nscf.offset = <<>>
    BY <2>1 DEF OverridesRefusals, ||, When
  <2>3. ~StepEntryRefused(NoEntry) /\ NoEntry.spacing = 0 /\ NoEntry.offset = <<>>
    BY DEF StepEntryRefused, NoEntry
  <2>4. raw2.scf = raw.scf
    BY <1>2 DEF AgreesElse
  <2>5. /\ ~StepEntryRefused(raw2.scf) /\ ~StepEntryRefused(raw2.nscf)
        /\ ~StepEntryRefused(raw2.dielectric)
        /\ raw2.nscf.spacing = 0 /\ raw2.nscf.offset = <<>>
    BY <2>2, <2>3, <2>4 DEF LeavesOut
  <2> QED BY <2>5 DEF OverridesRefusals, ||, When
<1>8. GammaOnlyRefusals(raw2) = {}
  <2>1. GammaOnlyRefusals(raw) = {}
    BY <1>1, Chained DEF KpointsRefusals
  <2>2. raw2.nscf.stated => raw.nscf.stated
    BY DEF LeavesOut, NoEntry
  <2>3. /\ raw2.gamma_only = raw.gamma_only /\ raw2.grid = raw.grid
        /\ raw2.offset = raw.offset /\ raw2.path = raw.path /\ raw2.scf = raw.scf
    BY <1>2 DEF AgreesElse
  <2> QED BY <2>1, <2>2, <2>3 DEF GammaOnlyRefusals, ||, When
<1>9. NamesBandPath(raw2) => BandPathRefusal(raw2) = {}
  <2>1. NamesBandPath(raw) => BandPathRefusal(raw) = {}
    BY <1>1, Chained DEF KpointsRefusals
  <2>2. /\ raw2.task = raw.task /\ WannierInit(raw2) = WannierInit(raw)
        /\ DscfInitializationIsSupported(raw2) = DscfInitializationIsSupported(raw)
    BY <1>2, GuardsAgree DEF AgreesElse
  <2>3. raw.task = "singlepoint" => raw2.formalism = raw.formalism
    BY DEF LeavesOut, TasksWithoutKoopmansStep
  <2>4. BandPathRefusal(raw2) = BandPathRefusal(raw)
    BY <1>4, <2>2, <2>3 DEF BandPathRefusal, ||, When
  <2> QED BY <1>4, <2>1, <2>4
<1>10. KpointsRefusals(raw2) = {}
    BY <1>6, <1>7, <1>8, <1>9, Chained DEF KpointsRefusals
<1> QED BY <1>1, <1>3, <1>4, <1>5, <1>10, NoneOf, Chained DEF ParseRefusals

\* A path that a file names and reading accepts is one of a run that makes
\* Wannier functions.
LEMMA PathsAreOfWannierRuns ==
    ASSUME NEW f, NEW s, BuildRefusals(f, s) = {}, BandPathRefusal(f) = {},
           f.formalism \in {"dscf", "dfpt"}, f.task = "singlepoint"
    PROVE  WannierInit(f)
<1> SUFFICES ASSUME ~WannierInit(f)
             PROVE  FALSE
    OBVIOUS
<1>1. /\ ~(HasSnapshots(f) /\ f.formalism # "dfpt")
      /\ ~(/\ ~HasSnapshots(f) /\ f.formalism = "dscf"
           /\ DscfInitializationIsSupported(f))
    BY DEF BandPathRefusal, ||, When
<1>2. CASE HasSnapshots(f)
  <2>1. SnapshotsGuards(f, s) = {}
    BY <1>2, BuiltByRoute
  <2>2. f.formalism # "dfpt"
    BY <2>1 DEF SnapshotsGuards, ||, When
  <2> QED BY <1>1, <1>2, <2>2
<1>3. CASE ~HasSnapshots(f) /\ f.formalism = "dfpt"
  <2>1. DfptGuards(f, s) = {}
    BY <1>3, BuiltByRoute
  <2>2. DfptChainGuards(f, s) = {}
    BY <2>1, Chained DEF DfptGuards
  <2>3. WannierInit(f)
    BY <2>2 DEF DfptChainGuards, ||, When
  <2> QED BY <2>3
<1>4. CASE ~HasSnapshots(f) /\ f.formalism = "dscf"
  <2>1. DscfGuards(f, s) = {}
    BY <1>4, BuiltByRoute
  <2>2. DscfInitializationIsSupported(f)
    BY <2>1 DEF DscfGuards, ||, When
  <2> QED BY <1>1, <1>4, <2>2
<1> QED BY <1>2, <1>3, <1>4

\* The conditions of LacksIdle, of the keywords alone.
LEMMA LacksIdleOf ==
    ASSUME NEW f, NEW f2, AgreesElse(f2, f),
           f2.formalism = f.formalism \/ f.task \in TasksWithoutKoopmansStep,
           f2.nscf = f.nscf \/ f.task \in {"dft_bands", "dft_eps"},
           f2.group_by \in {f.group_by, "none"},
           \/ f.task \in TasksWithoutKoopmansStep
           \/ HasSnapshots(f) /\ PredictsWithoutTrial(f)
           \/ f2.group_by = f.group_by /\ f2.group_tol = f.group_tol
           \/ f2.group_by = "none" /\ f.group_by = "none",
           \/ f2.alpha_guess = f.alpha_guess
           \/ f2.alpha_guess = "unset" /\ HasSnapshots(f) /\ PredictsWithoutTrial(f),
           \/ f2.wannierize = f.wannierize
           \/ f.task \in {"dft_bands", "dft_eps"} \/ ~NamesBandPath(f),
           \/ f2.wannierize_smooth = f.wannierize_smooth
           \/ f.task \in TasksWithoutKoopmansStep \/ ~NamesBandPath(f)
           \/ SmoothFactor(f) = <<>> /\ f2.wannierize_smooth = <<>>,
           f2.eps_inf \in {f.eps_inf, "unset"},
           \/ f.task \in TasksWithoutKoopmansStep
           \/ EpsIsIdle(f)
           \/ /\ f2.eps_inf = f.eps_inf
              /\ f.eps_inf # "auto" \/ f.gamma_only \/ f2.dielectric = f.dielectric
    PROVE  LacksIdle(f2, f)
<1>1. /\ f2.gamma_only = f.gamma_only /\ f2.scf = f.scf
      /\ f2.grid = f.grid /\ f2.offset = f.offset
    BY DEF AgreesElse
<1>2. f2.wannierize_smooth = f.wannierize_smooth => SmoothFactor(f2) = SmoothFactor(f)
    BY <1>1 DEF SmoothFactor
<1>3. f2.wannierize_smooth = <<>> => SmoothFactor(f2) = <<>>
    BY DEF SmoothFactor
<1>4. f.gamma_only => DielectricKpoints(f2) = DielectricKpoints(f)
    BY <1>1 DEF DielectricKpoints
<1>5. f2.dielectric = f.dielectric => DielectricKpoints(f2) = DielectricKpoints(f)
  <2> SUFFICES ASSUME f2.dielectric = f.dielectric
               PROVE  DielectricKpoints(f2) = DielectricKpoints(f)
    OBVIOUS
  <2>1. EntriesOf(f2, "dielectric") = EntriesOf(f, "dielectric")
    BY <1>1 DEF EntriesOf
  <2>2. StepOffset(f2, "dielectric") = StepOffset(f, "dielectric")
    BY <1>1, <2>1 DEF StepOffset, Nearest
  <2>3. StepGridSpacing(f2, "dielectric") = StepGridSpacing(f, "dielectric")
    BY <2>1 DEF StepGridSpacing, Nearest
  <2>4. StepKpointsMesh(f2, "dielectric") = StepKpointsMesh(f, "dielectric")
    BY <1>1, <2>1, <2>2 DEF StepKpointsMesh, Nearest
  <2>5. StepSpacingMesh(f2, "dielectric") = StepSpacingMesh(f, "dielectric")
    BY <2>2, <2>3 DEF StepSpacingMesh
  <2> QED BY <1>1, <2>3, <2>4, <2>5 DEF DielectricKpoints
<1>6. \/ f.task \in TasksWithoutKoopmansStep
      \/ HasSnapshots(f) /\ PredictsWithoutTrial(f)
      \/ \A c \in {"self_hartree", "spread"} : GroupingTol(f2, c) = GroupingTol(f, c)
    BY DEF GroupingTol
<1>7. \/ f.task \in TasksWithoutKoopmansStep
      \/ ~NamesBandPath(f)
      \/ SmoothFactor(f2) = SmoothFactor(f)
    BY <1>2, <1>3
<1>8. \/ f.task \in TasksWithoutKoopmansStep
      \/ EpsIsIdle(f)
      \/ /\ f2.eps_inf = f.eps_inf
         /\ f.eps_inf # "auto" \/ DielectricKpoints(f2) = DielectricKpoints(f)
    BY <1>4, <1>5
<1> QED BY <1>6, <1>7, <1>8 DEF LacksIdle

\* What reading makes of two files that differ in the keywords X.
LEMMA ParsedAgree ==
    ASSUME NEW raw, WellFormed(raw), NEW raw2, WellFormed(raw2), NEW X \in SUBSET Idle,
           \A keyword \in DOMAIN Schema \ X : raw2[keyword] = raw[keyword]
    PROVE  /\ AgreesElse(raw2, raw) /\ AgreesElse(Parse(raw2), Parse(raw))
           /\ \A keyword \in Idle \ {"group_by", "group_tol"} :
                 /\ Parse(raw2)[keyword] = raw2[keyword]
                 /\ keyword \notin X => Parse(raw2)[keyword] = Parse(raw)[keyword]
           /\ "group_by" \notin X /\ "group_tol" \notin X /\ "formalism" \notin X =>
                 /\ Parse(raw2).group_by = Parse(raw).group_by
                 /\ Parse(raw2).group_tol = Parse(raw).group_tol
<1>1. Idle \subseteq DOMAIN Schema
    BY DEF Idle, Schema
<1>2. AgreesElse(raw2, raw)
    BY ElseAgrees
<1>3. \A keyword \in DOMAIN Schema \ Idle : Parse(raw2)[keyword] = Parse(raw)[keyword]
  <2> SUFFICES ASSUME NEW keyword \in DOMAIN Schema \ Idle
               PROVE  Parse(raw2)[keyword] = Parse(raw)[keyword]
    OBVIOUS
  <2>1. keyword \in DOMAIN Schema \ {"group_by", "group_tol"}
    BY DEF Idle
  <2>2. Parse(raw2)[keyword] = raw2[keyword]
    BY <2>1, ParsedKeywords
  <2>3. Parse(raw)[keyword] = raw[keyword]
    BY <2>1, ParsedKeywords
  <2>4. raw2[keyword] = raw[keyword]
    OBVIOUS
  <2> QED BY <2>2, <2>3, <2>4
<1>4. AgreesElse(Parse(raw2), Parse(raw))
    BY <1>3, ElseAgrees
<1>5. \A keyword \in Idle \ {"group_by", "group_tol"} :
          /\ Parse(raw2)[keyword] = raw2[keyword]
          /\ keyword \notin X => Parse(raw2)[keyword] = Parse(raw)[keyword]
    BY <1>1, ParsedKeywords
<1>6. ASSUME "group_by" \notin X, "group_tol" \notin X, "formalism" \notin X
      PROVE  /\ Parse(raw2).group_by = Parse(raw).group_by
             /\ Parse(raw2).group_tol = Parse(raw).group_tol
  <2>1. /\ raw2.group_by = raw.group_by /\ raw2.group_tol = raw.group_tol
        /\ raw2.formalism = raw.formalism
    <3>1. {"group_by", "group_tol", "formalism"} \subseteq DOMAIN Schema \ X
      BY <1>6 DEF Schema
    <3> QED BY <3>1
  <2>2. /\ PredictsWithoutTrial(raw2) = PredictsWithoutTrial(raw)
        /\ WannierInit(raw2) = WannierInit(raw)
    BY <1>2 DEF AgreesElse, PredictsWithoutTrial, WannierInit
  <2>3. Parse(raw2).group_by = Parse(raw).group_by
    BY <2>1, <2>2, ParsedKeywords
  <2> QED BY <2>1, <2>3, ParsedKeywords
<1> QED BY <1>2, <1>4, <1>5, <1>6

\* Why a notice of the dielectric constant, or of its mesh, is right.
LEMMA InertEpsIsIdle ==
    ASSUME NEW f, EpsInfInert(f) # {}, ~ScreensRegardless(f),
           f.formalism \in {"unset", "dscf", "dfpt"},
           ~(f.task = "singlepoint" /\ f.formalism = "unset")
    PROVE  EpsIsIdle(f)
<1>1. f.task = "singlepoint"
    BY DEF EpsInfInert
<1>2. \/ ~f.calculate_alpha
      \/ /\ f.formalism = "dscf"
         /\ ~WannierInit(f) \/ f.mp_correction = "off" \/ f.ml_mode = "predict"
    BY DEF EpsInfInert, ||, When
<1> QED BY <1>1, <1>2 DEF EpsIsIdle, ScreensRegardless

\* A file a task of which no route exists is refused.
LEMMA TasksOfRoutes ==
    ASSUME NEW f, NEW s, BuildRefusals(f, s) = {}
    PROVE  f.task \in TasksWithoutKoopmansStep \cup {"singlepoint", "bse"}
<1>1. HasSnapshots(f) => f.task = "singlepoint"
  <2>1. HasSnapshots(f) => SnapshotsGuards(f, s) = {}
    BY BuiltByRoute
  <2> QED BY <2>1 DEF SnapshotsGuards, ||, When
<1>2. ~HasSnapshots(f) => f.task \in {"dft_bands", "dft_eps", "wannierize", "bse", "singlepoint"}
    BY BuiltByRoute
<1> QED BY <1>1, <1>2 DEF TasksWithoutKoopmansStep

\* The entry of a step that a notice calls inert.
LEMMA InertEntries ==
    ASSUME NEW f, NEW s, BuildRefusals(f, s) = {},
           NamesBandPath(f) => BandPathRefusal(f) = {},
           f.formalism \in {"unset", "dscf", "dfpt"},
           ~(f.task = "singlepoint" /\ f.formalism = "unset")
    PROVE  /\ WannierizeInertReason(f) # {} =>
                  f.task \in {"dft_bands", "dft_eps"} \/ ~NamesBandPath(f)
           /\ WannierizeSmoothInertReason(f) # {} =>
                  \/ f.task \in TasksWithoutKoopmansStep \/ ~NamesBandPath(f)
                  \/ SmoothFactor(f) = <<>>
           /\ DielectricInertReason(f) # {} /\ ~ScreensRegardless(f) =>
                  \/ f.task \in TasksWithoutKoopmansStep
                  \/ f.eps_inf # "auto" \/ EpsIsIdle(f)
<1>1. f.task \in TasksWithoutKoopmansStep \cup {"singlepoint", "bse"}
    BY TasksOfRoutes
<1>2. f.task = "singlepoint" /\ NamesBandPath(f) => WannierInit(f)
    BY PathsAreOfWannierRuns
<1>3. WithoutPathReason(f) # {} => ~NamesBandPath(f)
    BY DEF WithoutPathReason, ||, When
<1>4. WannierizeInertReason(f) # {} =>
          f.task \in {"dft_bands", "dft_eps"} \/ ~NamesBandPath(f)
    BY <1>1, <1>2, <1>3 DEF WannierizeInertReason, RunsWannierization, TasksWithoutKoopmansStep
<1>5. WannierizeSmoothInertReason(f) # {} =>
          \/ f.task \in TasksWithoutKoopmansStep \/ ~NamesBandPath(f)
          \/ SmoothFactor(f) = <<>>
  <2>1. /\ f.task \in {"singlepoint", "bse"} /\ RunsWannierization(f) /\ NamesBandPath(f)
        /\ SmoothFactor(f) # <<>>
        => WannierizeSmoothInertReason(f) = {}
    BY <1>3 DEF WannierizeSmoothInertReason, When
  <2>2. f.task \in {"singlepoint", "bse"} /\ NamesBandPath(f) => RunsWannierization(f)
    BY <1>2 DEF RunsWannierization
  <2> QED BY <1>1, <2>1, <2>2
<1>6. DielectricInertReason(f) # {} /\ ~ScreensRegardless(f) =>
          \/ f.task \in TasksWithoutKoopmansStep
          \/ f.eps_inf # "auto" \/ EpsIsIdle(f)
  <2>1. DielectricInertReason(f) # {} =>
            \/ f.task \notin {"singlepoint", "bse"} \/ f.eps_inf # "auto"
            \/ EpsInfInert(f) # {}
    BY DEF DielectricInertReason, ||, When
  <2> QED BY <1>1, <2>1, InertEpsIsIdle
<1> QED BY <1>4, <1>5, <1>6

\* A file without what a notice is about is read as the file is, but for that.
LEMMA WithoutIt ==
    ASSUME NEW raw, WellFormed(raw), NEW s, ParseRefusals(raw) = {},
           BuildRefusals(Parse(raw), s) = {},
           NEW n \in AdvisoriesFor(Parse(raw)), SaysNoEffect(n),
           ~(n.about \in {"eps_inf", "dielectric"} /\ ScreensRegardless(raw)),
           NEW raw2, raw2 = Without(raw, n)
    PROVE  ParseRefusals(raw2) = {} /\ LacksIdle(Parse(raw2), Parse(raw))
<1> PICK f, f2 : f = Parse(raw) /\ f2 = Parse(raw2)
    OBVIOUS
<1>1. /\ BuildRefusals(f, s) = {} /\ n \in AdvisoriesFor(f)
      /\ ~(f.task = "singlepoint" /\ f.formalism = "unset")
      /\ NamesBandPath(f) => BandPathRefusal(f) = {}
      /\ ScreensRegardless(f) <=> ScreensRegardless(raw)
  <2>1. NamesBandPath(f) => NamesBandPath(raw)
    <3>1. {"gamma_only", "path"} \subseteq DOMAIN Schema \ {"group_by", "group_tol"}
      BY DEF Schema
    <3>2. f.gamma_only = raw.gamma_only /\ f.path = raw.path
      BY <3>1, ParsedKeywords
    <3> QED BY <3>2 DEF NamesBandPath
  <2> QED BY <2>1, ReadFile
<1>2. f.formalism \in {"unset", "dscf", "dfpt"} /\ f.task = raw.task /\ WellFormed(f)
  <2>1. WellFormed(f)
    BY ParseKeeps
  <2>2. /\ Schema.formalism = {"unset", "dscf", "dfpt"}
        /\ {"formalism", "task"} \subseteq DOMAIN Schema \ {"group_by", "group_tol"}
    BY DEF Schema
  <2> QED BY <2>1, <2>2, ParsedKeywords DEF WellFormed
<1>3. /\ \A keyword \in {"formalism", "eps_inf", "group_by", "group_tol", "alpha_guess"} :
             "unset" \in Schema[keyword]
      /\ NoEntry \in Schema.nscf /\ NoEntry \in Schema.dielectric
      /\ 0 \in Schema.wannierize /\ <<>> \in Schema.wannierize_smooth
      /\ Idle \subseteq DOMAIN Schema
    BY DEF Schema, Idle, NoEntry, StepEntries
<1>4. raw = [keyword \in DOMAIN Schema |-> raw[keyword]]
    BY DEF WellFormed
<1> DEFINE Blanked(k) == CASE k \in {"formalism", "eps_inf", "group_tol"} -> "unset"
                          [] k \in {"nscf", "dielectric"} -> NoEntry
                          [] k = "wannierize" -> 0
                          [] k = "wannierize_smooth" -> <<>>
           Written == {"formalism", "eps_inf", "group_tol", "nscf", "dielectric", "wannierize",
                       "wannierize_smooth"}
<1>5. ASSUME n.why # "no trial calculation", n.about \in Written
      PROVE  /\ WellFormed(raw2) /\ raw2[n.about] = Blanked(n.about)
             /\ \A keyword \in DOMAIN Schema \ {n.about} : raw2[keyword] = raw[keyword]
  <2>1. raw2 = [raw EXCEPT ![n.about] = Blanked(n.about)]
    BY <1>5 DEF Without
  <2>2. n.about \in DOMAIN Schema /\ Blanked(n.about) \in Schema[n.about]
    BY <1>3, <1>5 DEF Idle
  <2> HIDE DEF Blanked
  <2> PICK keyword, value : keyword = n.about /\ value = Blanked(n.about)
    OBVIOUS
  <2>3. /\ raw2 = [raw EXCEPT ![keyword] = value]
        /\ keyword \in DOMAIN Schema /\ value \in Schema[keyword]
    BY <2>1, <2>2
  <2>4. WellFormed([raw EXCEPT ![keyword] = value])
    BY <2>3, OneKeywordChanged
  <2>5. WellFormed(raw2)
    BY <2>3, <2>4
  <2> QED BY <1>4, <2>3, <2>5
<1>6. ASSUME n.why # "no trial calculation", n.about \in Written
      PROVE  /\ AgreesElse(raw2, raw) /\ AgreesElse(f2, f)
             /\ \A keyword \in Idle \ {"group_by", "group_tol", n.about} :
                    f2[keyword] = f[keyword] /\ raw2[keyword] = raw[keyword]
             /\ n.about # "group_tol" => f2[n.about] = Blanked(n.about)
             /\ raw2[n.about] = Blanked(n.about)
             /\ n.about \notin {"group_tol", "formalism"} =>
                    f2.group_by = f.group_by /\ f2.group_tol = f.group_tol
             /\ raw2.group_by = raw.group_by
             /\ n.about # "group_tol" => raw2.group_tol = raw.group_tol
  <2>1. {n.about} \in SUBSET Idle /\ n.about # "group_by"
    BY <1>6 DEF Idle
  <2>2. /\ WellFormed(raw2) /\ raw2[n.about] = Blanked(n.about)
        /\ \A keyword \in DOMAIN Schema \ {n.about} : raw2[keyword] = raw[keyword]
    BY <1>5, <1>6
  <2> HIDE DEF Blanked, Written
  <2>3. /\ AgreesElse(raw2, raw) /\ AgreesElse(f2, f)
        /\ \A keyword \in Idle \ {"group_by", "group_tol"} :
              /\ f2[keyword] = raw2[keyword]
              /\ keyword \notin {n.about} => f2[keyword] = f[keyword]
        /\ {n.about} \cap {"group_by", "group_tol", "formalism"} = {} =>
              f2.group_by = f.group_by /\ f2.group_tol = f.group_tol
    <3> PICK X : X = {n.about}
      OBVIOUS
    <3>1. /\ X \in SUBSET Idle
          /\ \A keyword \in DOMAIN Schema \ X : raw2[keyword] = raw[keyword]
      BY <2>1, <2>2
    <3>2. /\ AgreesElse(raw2, raw) /\ AgreesElse(Parse(raw2), Parse(raw))
          /\ \A keyword \in Idle \ {"group_by", "group_tol"} :
                /\ Parse(raw2)[keyword] = raw2[keyword]
                /\ keyword \notin X => Parse(raw2)[keyword] = Parse(raw)[keyword]
          /\ "group_by" \notin X /\ "group_tol" \notin X /\ "formalism" \notin X =>
                /\ Parse(raw2).group_by = Parse(raw).group_by
                /\ Parse(raw2).group_tol = Parse(raw).group_tol
      BY <2>2, <3>1, ParsedAgree
    <3>3. {n.about} \cap {"group_by", "group_tol", "formalism"} = {} =>
              f2.group_by = f.group_by /\ f2.group_tol = f.group_tol
      BY <3>2
    <3> QED BY <3>2, <3>3
  <2>4. {"group_by", "group_tol"} \subseteq DOMAIN Schema
    BY <1>3 DEF Idle
  <2>5. \A keyword \in Idle \ {n.about} : raw2[keyword] = raw[keyword]
    BY <1>3, <2>2
  <2>6. n.about # "group_tol" => f2[n.about] = Blanked(n.about)
    BY <2>1, <2>2, <2>3
  <2> QED BY <2>1, <2>2, <2>3, <2>4, <2>5, <2>6
<1>7. {"formalism", "eps_inf", "alpha_guess", "nscf", "dielectric", "wannierize",
       "wannierize_smooth"} = Idle \ {"group_by", "group_tol"}
    BY DEF Idle
<1>8. /\ Blanked("formalism") = "unset" /\ Blanked("eps_inf") = "unset"
       /\ Blanked("group_tol") = "unset"
       /\ Blanked("nscf") = NoEntry /\ Blanked("dielectric") = NoEntry
       /\ Blanked("wannierize") = 0 /\ Blanked("wannierize_smooth") = <<>>
    OBVIOUS
<1> HIDE DEF Blanked
<1> USE <1>1, <1>2
<1>9. ASSUME n.why # "no trial calculation", n.about = "formalism",
             f.task \in TasksWithoutKoopmansStep
      PROVE  ParseRefusals(raw2) = {} /\ LacksIdle(f2, f)
  <2>1. /\ AgreesElse(raw2, raw) /\ AgreesElse(f2, f) /\ raw2.formalism = "unset"
        /\ raw2.nscf = raw.nscf /\ raw2.dielectric = raw.dielectric
        /\ raw2.group_by = raw.group_by /\ raw2.group_tol = raw.group_tol
        /\ f2.nscf = f.nscf /\ f2.alpha_guess = f.alpha_guess /\ f2.wannierize = f.wannierize
        /\ f2.wannierize_smooth = f.wannierize_smooth /\ f2.eps_inf = f.eps_inf
        /\ WellFormed(raw2)
    BY <1>5, <1>6, <1>7, <1>9, <1>8
  <2>2. ParseRefusals(raw2) = {}
    BY <1>9, <2>1, NothingNewIsMisread DEF LeavesOut
  <2>3. f2.group_by \in {f.group_by, "none"}
    BY <2>1, ParsedKeywords
  <2> QED BY <1>9, <2>1, <2>2, <2>3, LacksIdleOf
<1>10. ASSUME n.why # "no trial calculation", n.about = "nscf",
              f.task \in {"dft_bands", "dft_eps"}
       PROVE  ParseRefusals(raw2) = {} /\ LacksIdle(f2, f)
  <2>1. /\ AgreesElse(raw2, raw) /\ AgreesElse(f2, f) /\ raw2.formalism = raw.formalism
        /\ raw2.nscf = NoEntry /\ raw2.dielectric = raw.dielectric
        /\ raw2.group_by = raw.group_by /\ raw2.group_tol = raw.group_tol
        /\ f2.formalism = f.formalism /\ f2.group_by = f.group_by
        /\ f2.alpha_guess = f.alpha_guess /\ f2.wannierize = f.wannierize
        /\ f2.wannierize_smooth = f.wannierize_smooth /\ f2.eps_inf = f.eps_inf
        /\ WellFormed(raw2)
    BY <1>5, <1>6, <1>7, <1>10, <1>8
  <2>2. ParseRefusals(raw2) = {}
    BY <2>1, NothingNewIsMisread DEF LeavesOut
  <2>3. f.task \in TasksWithoutKoopmansStep
    BY <1>10 DEF TasksWithoutKoopmansStep
  <2> QED BY <1>10, <2>1, <2>2, <2>3, LacksIdleOf
<1>11. ASSUME n.why # "no trial calculation", n.about \in InertSteps,
              f.gamma_only \/ InertReason(f, n.about) # {}
       PROVE  ParseRefusals(raw2) = {} /\ LacksIdle(f2, f)
  <2>1. /\ n.about \in {"dielectric", "wannierize", "wannierize_smooth"}
        /\ n.about \in Written
    BY <1>11 DEF InertSteps
  <2>2. /\ AgreesElse(raw2, raw) /\ AgreesElse(f2, f) /\ raw2.formalism = raw.formalism
        /\ raw2.nscf = raw.nscf /\ raw2.dielectric \in {raw.dielectric, NoEntry}
        /\ raw2.group_by = raw.group_by /\ raw2.group_tol = raw.group_tol
        /\ f2.formalism = f.formalism /\ f2.group_by = f.group_by
        /\ f2.group_tol = f.group_tol /\ f2.nscf = f.nscf
        /\ f2.alpha_guess = f.alpha_guess /\ f2.eps_inf = f.eps_inf
        /\ WellFormed(raw2)
    BY <1>5, <1>6, <1>7, <1>11, <1>8, <2>1
  <2>3. /\ f2.wannierize = f.wannierize \/ n.about = "wannierize"
        /\ \/ f2.wannierize_smooth = f.wannierize_smooth
           \/ n.about = "wannierize_smooth" /\ f2.wannierize_smooth = <<>>
        /\ f2.dielectric = f.dielectric \/ n.about = "dielectric"
    BY <1>6, <1>7, <1>11, <1>8, <2>1
  <2>4. ParseRefusals(raw2) = {}
    BY <2>2, NothingNewIsMisread DEF LeavesOut
  <2>5. f.gamma_only => ~NamesBandPath(f)
    BY DEF NamesBandPath
  <2>6. \/ f2.wannierize = f.wannierize
        \/ f.task \in {"dft_bands", "dft_eps"} \/ ~NamesBandPath(f)
    BY <1>11, <2>3, <2>5, InertEntries DEF InertReason
  <2>7. \/ f2.wannierize_smooth = f.wannierize_smooth
        \/ f.task \in TasksWithoutKoopmansStep \/ ~NamesBandPath(f)
        \/ SmoothFactor(f) = <<>> /\ f2.wannierize_smooth = <<>>
    BY <1>11, <2>3, <2>5, InertEntries DEF InertReason
  <2>8. \/ f.task \in TasksWithoutKoopmansStep
        \/ EpsIsIdle(f)
        \/ f.eps_inf # "auto" \/ f.gamma_only \/ f2.dielectric = f.dielectric
    <3>1. n.about = "dielectric" => ~ScreensRegardless(f)
      OBVIOUS
    <3> QED BY <1>11, <2>3, <3>1, InertEntries DEF InertReason
  <2>9. LacksIdle(f2, f)
    BY <2>2, <2>6, <2>7, <2>8, LacksIdleOf
  <2> QED BY <2>4, <2>9
<1>12. ASSUME n.why # "no trial calculation", n.about = "eps_inf", EpsInfInert(f) # {}
       PROVE  ParseRefusals(raw2) = {} /\ LacksIdle(f2, f)
  <2>1. /\ AgreesElse(raw2, raw) /\ AgreesElse(f2, f) /\ raw2.formalism = raw.formalism
        /\ raw2.nscf = raw.nscf /\ raw2.dielectric = raw.dielectric
        /\ raw2.group_by = raw.group_by /\ raw2.group_tol = raw.group_tol
        /\ f2.formalism = f.formalism /\ f2.group_by = f.group_by /\ f2.nscf = f.nscf
        /\ f2.group_tol = f.group_tol /\ f2.eps_inf = "unset"
        /\ f2.alpha_guess = f.alpha_guess /\ f2.wannierize = f.wannierize
        /\ f2.wannierize_smooth = f.wannierize_smooth
        /\ WellFormed(raw2)
    BY <1>5, <1>6, <1>7, <1>12, <1>8
  <2>2. ParseRefusals(raw2) = {}
    BY <2>1, NothingNewIsMisread DEF LeavesOut
  <2>3. EpsIsIdle(f)
    BY <1>12, InertEpsIsIdle
  <2> QED BY <2>1, <2>2, <2>3, LacksIdleOf
<1>13. ASSUME n.why # "no trial calculation", n.about = "group_tol",
              f.group_by = "none", f.group_tol # "unset"
       PROVE  ParseRefusals(raw2) = {} /\ LacksIdle(f2, f)
  <2>1. /\ AgreesElse(raw2, raw) /\ AgreesElse(f2, f) /\ raw2.formalism = raw.formalism
        /\ raw2.nscf = raw.nscf /\ raw2.dielectric = raw.dielectric
        /\ raw2.group_by = raw.group_by /\ raw2.group_tol = "unset"
        /\ f2.formalism = f.formalism /\ f2.nscf = f.nscf /\ f2.dielectric = f.dielectric
        /\ f2.alpha_guess = f.alpha_guess /\ f2.wannierize = f.wannierize
        /\ f2.wannierize_smooth = f.wannierize_smooth /\ f2.eps_inf = f.eps_inf
        /\ WellFormed(raw2)
    BY <1>5, <1>6, <1>7, <1>13, <1>8
  <2>2. ParseRefusals(raw2) = {}
    BY <2>1, NothingNewIsMisread DEF LeavesOut
  <2>3. f2.group_by = "none"
    <3>1. raw.group_by \in {"none", "unset"}
      BY <1>13, ParsedKeywords
    <3>2. raw.group_tol # "unset"
      BY <1>13, ParsedKeywords
    <3>3. ~(WannierInit(raw) /\ raw.formalism = "dscf") \/ raw.group_by = "none"
      BY <1>13, <3>2, ParsedKeywords
    <3>4. WannierInit(raw2) = WannierInit(raw)
      BY <2>1 DEF AgreesElse, WannierInit
    <3> QED BY <2>1, <3>1, <3>3, <3>4, ParsedKeywords
  <2> QED BY <1>13, <2>1, <2>2, <2>3, LacksIdleOf
<1>14. ASSUME n.why = "no trial calculation",
              f.task = "singlepoint", HasSnapshots(f), PredictsWithoutTrial(f)
       PROVE  ParseRefusals(raw2) = {} /\ LacksIdle(f2, f)
  <2>1. raw2 = [raw EXCEPT !.group_by = "unset", !.group_tol = "unset", !.alpha_guess = "unset"]
    BY <1>14 DEF Without
  <2>2. WellFormed(raw2)
    <3>1. PICK a : a = [raw EXCEPT !.group_by = "unset"]
      OBVIOUS
    <3>2. PICK b : b = [a EXCEPT !.group_tol = "unset"]
      OBVIOUS
    <3>3. WellFormed(a)
      BY <1>3, <3>1, OneKeywordChanged DEF Idle
    <3>4. WellFormed(b)
      BY <1>3, <3>2, <3>3, OneKeywordChanged DEF Idle
    <3>5. WellFormed([b EXCEPT !.alpha_guess = "unset"])
      BY <1>3, <3>4, OneKeywordChanged DEF Idle
    <3>6. raw2 = [b EXCEPT !.alpha_guess = "unset"]
      BY <1>4, <2>1, <3>1, <3>2
    <3> QED BY <3>5, <3>6
  <2>3. PICK X : X = {"group_by", "group_tol", "alpha_guess"}
    OBVIOUS
  <2>4. /\ X \in SUBSET Idle
        /\ \A keyword \in DOMAIN Schema \ X : raw2[keyword] = raw[keyword]
        /\ raw2.group_by = "unset" /\ raw2.group_tol = "unset" /\ raw2.alpha_guess = "unset"
    BY <1>3, <1>4, <2>1, <2>3 DEF Idle
  <2>5. /\ AgreesElse(raw2, raw) /\ AgreesElse(Parse(raw2), Parse(raw))
        /\ \A keyword \in Idle \ {"group_by", "group_tol"} :
              /\ Parse(raw2)[keyword] = raw2[keyword]
              /\ keyword \notin X => Parse(raw2)[keyword] = Parse(raw)[keyword]
    BY <2>2, <2>4, ParsedAgree
  <2>6. /\ f2.formalism = f.formalism /\ f2.nscf = f.nscf /\ f2.dielectric = f.dielectric
        /\ f2.alpha_guess = "unset" /\ f2.wannierize = f.wannierize
        /\ f2.wannierize_smooth = f.wannierize_smooth /\ f2.eps_inf = f.eps_inf
    BY <1>7, <2>3, <2>4, <2>5
  <2>7. raw2.formalism = raw.formalism /\ raw2.nscf = raw.nscf /\ raw2.dielectric = raw.dielectric
    <3>1. {"formalism", "nscf", "dielectric"} \subseteq DOMAIN Schema \ X
      BY <2>3 DEF Schema
    <3> QED BY <2>4, <3>1
  <2>8. ParseRefusals(raw2) = {}
    BY <2>2, <2>4, <2>5, <2>7, NothingNewIsMisread DEF LeavesOut
  <2>9. f2.group_by = "none"
    <3>1. PredictsWithoutTrial(f2)
      BY <1>14, <2>5 DEF AgreesElse, PredictsWithoutTrial
    <3>2. PredictsWithoutTrial(raw2)
      <4>1. {"ml_mode", "descriptor"} \subseteq DOMAIN Schema \ {"group_by", "group_tol"}
        BY DEF Schema
      <4>2. f2.ml_mode = raw2.ml_mode /\ f2.descriptor = raw2.descriptor
        BY <2>2, <4>1, ParsedKeywords
      <4> QED BY <3>1, <4>2 DEF PredictsWithoutTrial
    <3> QED BY <2>2, <2>4, <3>2, ParsedKeywords
  <2> QED BY <1>14, <2>5, <2>6, <2>8, <2>9, LacksIdleOf
<1> QED BY <1>9, <1>10, <1>11, <1>12, <1>13, <1>14, NoticeKinds

-----------------------------------------------------------------------------
(* The inductive invariant: what is known of the file and of the graph at  *)
(* each stage of a command. A graph that is refused on launching stays.    *)

Typed ==
    /\ WellFormed(file)
    /\ site = [property \in DOMAIN Sites |-> site[property]]
    /\ site.projectors \in Nat

BuiltOfFile ==
    /\ ParseRefusals(file) = {} /\ BuildRefusals(Parse(file), site) = {}
    /\ graph = BuildWorkgraph(Parse(file), site)

Staged ==
    /\ stage \in {"editing", "parsed", "built", "advised", "launched", "refused"}
    /\ stage \in {"editing", "parsed"} => graph = NoGraph
    /\ stage = "parsed" => ParseRefusals(file) = {}
    /\ stage \in {"built", "advised", "launched"} => BuiltOfFile
    /\ stage = "refused" => graph = NoGraph \/ BuiltOfFile
    /\ stage = "advised" => notices = AdvisoriesFor(Parse(file))

Inv == Typed /\ Staged

\* What a message has the user write is what the schema takes there.
LEMMA RemediesAreWellFormed ==
    ASSUME NEW f, WellFormed(f), NEW remedy \in RefusalRemedies(f) \cup NoticeRemedies
    PROVE  remedy[2] \in DOMAIN Schema /\ remedy[3] \in Schema[remedy[2]]
<1>1. /\ NumWann(IF f.spin = "collinear" THEN f.up ELSE f.projections) \in Nat
      /\ NumWann(DfptManifolds(f, site)[1].w) \in Nat
      /\ NumWann(f.projections) \in Nat
    BY FileTypes, NumWannIsNumber, ManifoldWidths
<1>2. NoEntry \in StepEntries /\ StepEntry(<<4, 4>>, 0, <<>>) \in StepEntries
    BY DEF NoEntry, StepEntry, StepEntries
<1>3. <<4>> \in Seq(Int) /\ <<2, 2>> \in Seq(Nat)
    OBVIOUS
<1>4. {"group_tol", "formalism", "path", "nscf", "gamma_only", "tot_magnetization", "kcw_screen",
       "bse_bands", "account", "walltime", "ecutwfc", "kcp_nbnd", "pw_nbnd", "nbnd", "eps_inf",
       "alpha_numsteps", "group_by", "wannierize_smooth", "dielectric"} \subseteq DOMAIN Schema
    BY DEF Schema
<1>5. /\ Schema.group_tol = {"unset", "stated", "default"}
      /\ Schema.formalism = {"unset", "dscf", "dfpt"}
      /\ Schema.eps_inf = {"unset", "number", "auto"}
      /\ Schema.group_by = {"unset", "none", "self_hartree", "spread"}
      /\ Schema.account = {"unset", "stated"}
      /\ Schema.path = BOOLEAN /\ Schema.gamma_only = BOOLEAN
      /\ Schema.kcw_screen = BOOLEAN /\ Schema.ecutwfc = BOOLEAN
      /\ Schema.nscf = StepEntries /\ Schema.dielectric = StepEntries
      /\ Schema.tot_magnetization = Seq(Int) /\ Schema.wannierize_smooth = Seq(Nat)
      /\ Schema.bse_bands = Nat /\ Schema.walltime = Nat /\ Schema.kcp_nbnd = Nat
      /\ Schema.pw_nbnd = Nat /\ Schema.nbnd = Nat /\ Schema.alpha_numsteps = Nat
    BY DEF Schema
<1> DEFINE Writes(r, keyword, value) == r[2] = keyword /\ r[3] = value
           Fits(keyword, value) == keyword \in DOMAIN Schema /\ value \in Schema[keyword]
           widths == {NumWann(IF f.spin = "collinear" THEN f.up ELSE f.projections),
                      NumWann(DfptManifolds(f, site)[1].w), NumWann(f.projections)}
<1>6. /\ Fits("group_tol", "unset") /\ Fits("formalism", "dfpt") /\ Fits("formalism", "dscf")
      /\ Fits("path", FALSE) /\ Fits("path", TRUE) /\ Fits("nscf", NoEntry)
      /\ Fits("gamma_only", FALSE) /\ Fits("tot_magnetization", <<4>>)
      /\ Fits("kcw_screen", FALSE) /\ Fits("account", "unset") /\ Fits("walltime", 0)
      /\ Fits("ecutwfc", TRUE) /\ Fits("kcp_nbnd", 0) /\ Fits("eps_inf", "number")
      /\ Fits("alpha_numsteps", 1) /\ Fits("group_by", "spread") /\ Fits("bse_bands", 0)
      /\ Fits("wannierize_smooth", <<2, 2>>)
      /\ Fits("dielectric", StepEntry(<<4, 4>>, 0, <<>>))
    BY <1>2, <1>3, <1>4, <1>5
<1>7. \A n \in widths : Fits("pw_nbnd", n) /\ Fits("nbnd", n) /\ Fits("bse_bands", n)
    BY <1>1, <1>4, <1>5
<1>8. \A why, keyword, value : Writes(<<why, keyword, value>>, keyword, value)
    OBVIOUS
<1>9. \A r, keyword, value :
          Writes(r, keyword, value) /\ Fits(keyword, value) => Fits(r[2], r[3])
    OBVIOUS
<1> SUFFICES Fits(remedy[2], remedy[3])
    OBVIOUS
<1> HIDE DEF Fits, Writes
<1>10. CASE remedy \in RefusalRemedies(f)
    BY <1>6, <1>7, <1>8, <1>9, <1>10, ZenonT(60)
    DEF RefusalRemedies, ReadingRemedies, SharedRemedies, KcpRemedies, KcwRemedies
<1>11. CASE remedy \in NoticeRemedies
    BY <1>6, <1>8, <1>9, <1>11, Zenon DEF NoticeRemedies
<1> QED BY <1>10, <1>11

\* The invariant holds of a draft.
LEMMA InitEstablishesInv == Init => Inv
<1> SUFFICES ASSUME Init PROVE Inv
    OBVIOUS
<1>1. WellFormed(file)
    BY EditsAssumption DEF Init
<1>2. site = [property \in DOMAIN Sites |-> site[property]] /\ site.projectors \in Nat
    BY DEF Init, UsualSite, Sites
<1> QED BY <1>1, <1>2 DEF Init, Inv, Typed, Staged

\* No step writes under a keyword what the schema does not take there.
LEMMA TypedIsKept == Typed /\ [Next]_vars => Typed'
<1> SUFFICES ASSUME Typed, [Next]_vars PROVE Typed'
    OBVIOUS
<1>1. ASSUME NEW keyword \in DOMAIN Values, Edit(keyword)
      PROVE  Typed'
  <2>1. keyword \in DOMAIN Schema /\ Values[keyword] \subseteq Schema[keyword]
    BY EditsAssumption
  <2>2. PICK value \in Values[keyword] : file' = [file EXCEPT ![keyword] = value]
    BY <1>1 DEF Edit
  <2>3. WellFormed(file')
    BY <2>1, <2>2, OneKeywordChanged DEF Typed
  <2> QED BY <1>1, <2>3 DEF Edit, Typed
<1>2. ASSUME NEW property \in DOMAIN SiteValues, Change(property)
      PROVE  Typed'
  <2>1. property \in DOMAIN Sites /\ SiteValues[property] \subseteq Sites[property]
    BY EditsAssumption
  <2>2. PICK value \in SiteValues[property] : site' = [site EXCEPT ![property] = value]
    BY <1>2 DEF Change
  <2>3. "projectors" \in DOMAIN Sites /\ Sites["projectors"] = Nat
    BY DEF Sites
  <2>4. /\ site' = [x \in DOMAIN Sites |-> site'[x]]
        /\ site'["projectors"] = IF property = "projectors" THEN value ELSE site["projectors"]
    BY <2>1, <2>2, <2>3 DEF Typed
  <2>5. site'["projectors"] \in Nat
    BY <2>1, <2>2, <2>3, <2>4 DEF Typed
  <2> QED BY <1>2, <2>4, <2>5 DEF Change, Typed
<1>3. CASE Read \/ Build \/ Advise \/ Launch
    BY <1>3 DEF Read, Build, Advise, Launch, Typed
<1>4. ASSUME NEW remedy \in RefusalRemedies(file) \cup NoticeRemedies, HeedAs(remedy)
      PROVE  Typed'
  <2>1. WellFormed([file EXCEPT ![remedy[2]] = remedy[3]])
    BY RemediesAreWellFormed, OneKeywordChanged DEF Typed
  <2> QED BY <1>4, <2>1 DEF HeedAs, Typed
<1>5. CASE HeedRefusal
    BY <1>4, <1>5 DEF HeedRefusal
<1>6. CASE HeedNotice
    BY <1>4, <1>6 DEF HeedNotice
<1>7. CASE UNCHANGED vars
    BY <1>7 DEF vars, Typed
<1> QED BY <1>1, <1>2, <1>3, <1>5, <1>6, <1>7 DEF Next

\* No step leaves a stage whose findings are not those of the file and the site.
LEMMA StagedIsKept == Staged /\ [Next]_vars => Staged'
<1> SUFFICES ASSUME Staged, [Next]_vars PROVE Staged'
    OBVIOUS
<1> USE DEF Staged, BuiltOfFile
<1>1. ASSUME NEW keyword \in DOMAIN Values, Edit(keyword)
      PROVE  Staged'
    BY <1>1 DEF Edit, MayEdit
<1>2. ASSUME NEW property \in DOMAIN SiteValues, Change(property)
      PROVE  Staged'
    BY <1>2 DEF Change, MayEdit
<1>3. CASE Read
    BY <1>3 DEF Read, Refuse
<1>4. CASE Build
    BY <1>4 DEF Build, Refuse
<1>5. CASE Advise
    BY <1>5 DEF Advise
<1>6. CASE Launch
    BY <1>6 DEF Launch, Refuse
<1>7. CASE HeedRefusal \/ HeedNotice
    BY <1>7 DEF HeedRefusal, HeedNotice, HeedAs
<1>8. CASE UNCHANGED vars
    BY <1>8 DEF vars
<1> QED BY <1>1, <1>2, <1>3, <1>4, <1>5, <1>6, <1>7, <1>8 DEF Next

\* What reading and building have checked stays true of the file and the
\* graph until the user edits again, whatever the user does in between.
THEOREM StagesAreConsistent == Spec => []Inv
<1>1. Inv /\ [Next]_vars => Inv'
    BY TypedIsKept, StagedIsKept DEF Inv
<1> QED BY <1>1, InitEstablishesInv, PTL DEF Spec

-----------------------------------------------------------------------------
(* The theorems.                                                           *)

\* A path that a file names, and that reading accepts, is interpolated by
\* every graph built of the file (band_path_refusal against the routes).
THEOREM PathsAreServed == Spec => []PathIsServed
<1>1. Inv => PathIsServed
  <2> SUFFICES ASSUME Inv, stage \in {"built", "advised", "launched"}, NamesBandPath(file)
               PROVE  /\ graph.bands # 0
                      /\ graph.channels # <<>> \/ graph.entry = "Wannierize" =>
                            graph.interpolation # 0
    BY DEF PathIsServed
  <2> DEFINE f == Parse(file)
  <2>1. WellFormed(file) /\ BuiltOfFile
    BY DEF Inv, Typed, Staged
  <2>2. WellFormed(f) /\ NamesBandPath(f) /\ BandPathRefusal(f) = {}
    BY <2>1, ParseKeeps, ReadFile DEF BuiltOfFile
  <2>3. BuildRefusals(f, site) = {} /\ graph = BuildWorkgraph(f, site)
    BY <2>1 DEF BuiltOfFile
  <2> HIDE DEF f
  <2> QED BY <2>2, <2>3, RoutesServeThePath
<1> QED BY <1>1, StagesAreConsistent, PTL

\* The directives of a code survive both translations, and agree where a
\* step hears of them twice, for every file, site and route
\* (code_parallelization and as_mapping).
THEOREM OptionsAreHonoured == Spec => []DirectivesAreHonoured
<1>1. Inv => DirectivesAreHonoured
  <2> SUFFICES ASSUME Inv, stage \in {"built", "advised", "launched"}
               PROVE  DirectivesAreHonoured
    BY DEF DirectivesAreHonoured
  <2> DEFINE f == Parse(file)
  <2>1. WellFormed(file) /\ BuiltOfFile
    BY DEF Inv, Typed, Staged
  <2>2. /\ f.parallelization = file.parallelization /\ f.walltime = file.walltime
        /\ f.account = file.account /\ f.queue = file.queue
    BY <2>1, ReadFile DEF BuiltOfFile
  <2>3. BuildRefusals(f, site) = {} /\ graph = BuildWorkgraph(f, site)
    BY <2>1 DEF BuiltOfFile
  <2> HIDE DEF f
  <2>4. /\ graph.mapping = AsMapping(f)
        /\ graph.seeded \in {<<>>, <<CodeParallelization(f, "pw")>>}
    BY <2>3, RoutesPassTheOptions
  <2>5. \A i \in DOMAIN graph.seeded :
            graph.seeded[i] = DirectivesOfMapping(graph.mapping, "pw")
    <3>1. CodeParallelization(f, "pw") = DirectivesOfMapping(AsMapping(f), "pw")
      BY MappingTells DEF CodeParallelization, AllCodes
    <3> QED BY <2>4, <3>1
  <2>6. ASSUME NEW code \in AllCodes
        PROVE  LET stated == file.parallelization[code]
                   told == DirectivesOfMapping(graph.mapping, code)
               IN  /\ stated.ntasks = told.resources
                   /\ stated.npool = told.cmdline.npool
                   /\ stated.pd = "on" <=> told.cmdline.pd
                   /\ stated.walltime # 0 => told.max_wallclock_seconds = stated.walltime
                   /\ stated.walltime = 0 => told.max_wallclock_seconds = file.walltime
                   /\ told.account = file.account /\ told.queue_name = file.queue
                   /\ stated.omp # 0 \/ stated.roles # 0 =>
                         /\ code \in DOMAIN graph.mapping
                         /\ graph.mapping[code].omp = stated.omp
                         /\ graph.mapping[code].roles = stated.roles
    <3>1. Directive(f, code) = file.parallelization[code]
      BY <2>2 DEF Directive
    <3>2. EffectiveWalltime(f, code) = IF file.parallelization[code].walltime # 0
                                       THEN file.parallelization[code].walltime
                                       ELSE file.walltime
      BY <2>2, <3>1 DEF EffectiveWalltime
    <3>3. \A told : told = DirectivesOfMapping(AsMapping(f), code) =>
              /\ told.resources = Directive(f, code).ntasks
              /\ told.cmdline.npool = Directive(f, code).npool
              /\ told.cmdline.pd = (Directive(f, code).pd = "on")
              /\ told.max_wallclock_seconds = EffectiveWalltime(f, code)
              /\ told.account = f.account /\ told.queue_name = f.queue
      BY MappingTells
    <3>4. DirectivesOfMapping(graph.mapping, code) = DirectivesOfMapping(AsMapping(f), code)
      BY <2>4
    <3> DEFINE stated == file.parallelization[code]
               told == DirectivesOfMapping(graph.mapping, code)
    <3>5. /\ stated.ntasks = told.resources
          /\ stated.npool = told.cmdline.npool
          /\ stated.pd = "on" <=> told.cmdline.pd
          /\ told.max_wallclock_seconds = IF stated.walltime # 0 THEN stated.walltime
                                          ELSE file.walltime
          /\ told.account = file.account /\ told.queue_name = file.queue
      BY <2>2, <3>1, <3>2, <3>3, <3>4
    <3>6. stated.omp # 0 \/ stated.roles # 0 =>
              /\ code \in DOMAIN graph.mapping
              /\ graph.mapping[code].omp = stated.omp
              /\ graph.mapping[code].roles = stated.roles
      BY <2>4, <3>1, MappingTells
    <3> HIDE DEF stated, told
    <3>7. /\ stated.walltime # 0 => told.max_wallclock_seconds = stated.walltime
          /\ stated.walltime = 0 => told.max_wallclock_seconds = file.walltime
      BY <3>5
    <3> QED BY <3>5, <3>6, <3>7 DEF stated, told
  <2> QED BY <2>5, <2>6 DEF DirectivesAreHonoured
<1> QED BY <1>1, StagesAreConsistent, PTL

\* A notice names the mesh the dielectric step samples when no entry states
\* it (_default_dielectric_mesh_description against the routes), of every file
\* but a kcp.x singlepoint with calculate_alpha off.
THEOREM DielectricMeshesAreNamed == Spec => []DielectricMeshIsNamed
<1>1. Inv => DielectricMeshIsNamed
  <2> SUFFICES ASSUME Inv, stage = "advised", RunsDielectricStep(graph),
                      graph.eps_kpoints = NoSampling, ~ScreensRegardless(file)
               PROVE  \E n \in notices :
                         \/ n.about = "dielectric" /\ n.why = "gamma only"
                         \/ /\ n.about = "eps mesh"
                            /\ n.mesh.grid = graph.scf.grid
                            /\ n.mesh.spacing = graph.scf.spacing
    BY DEF DielectricMeshIsNamed
  <2> DEFINE f == Parse(file)
  <2>1. WellFormed(file) /\ BuiltOfFile /\ notices = AdvisoriesFor(f)
    BY DEF Inv, Typed, Staged
  <2>2. /\ WellFormed(f) /\ ~StepEntryRefused(f.scf) /\ ~ScreensRegardless(f)
        /\ ~(f.task = "singlepoint" /\ f.formalism = "unset")
        /\ ~(f.task = "bse" /\ f.formalism = "dscf")
    BY <2>1, ParseKeeps, ReadFile DEF BuiltOfFile
  <2>3. BuildRefusals(f, site) = {} /\ graph = BuildWorkgraph(f, site)
    BY <2>1 DEF BuiltOfFile
  <2> HIDE DEF f
  <2> QED BY <2>1, <2>2, <2>3, DielectricMeshIsAnnounced
<1> QED BY <1>1, StagesAreConsistent, PTL

\* The blocks of a channel follow one another under names of their own and
\* know of the same bands; where the graph is told how many bands its nscf
\* runs, and no DFPT route states two counts, each of those is one a block
\* reads or leaves out (create_explicit_blocks and _assign_band_ranges
\* against each route's band count).
THEOREM BlocksTile == Spec => []BlocksTileTheBands
<1>1. Inv => BlocksTileTheBands
  <2> SUFFICES ASSUME Inv, NEW c \in DOMAIN graph.channels
               PROVE  /\ InOrder(graph.channels[c])
                      /\ LaidOverOneCount(graph.channels[c])
                      /\ \/ graph.nscf_nbnd = 0
                         \/ /\ graph.entry \in {"SinglepointDFPT", "BetheSalpeter"}
                            /\ file.nbnd # 0 /\ file.pw_nbnd # 0
                         \/ Accounted(graph.channels[c], graph.nscf_nbnd)
    BY DEF BlocksTileTheBands
  <2> DEFINE f == Parse(file)
  <2>1. WellFormed(file) /\ site.projectors \in Nat
    BY DEF Inv, Typed
  <2>2. NoGraph.channels = <<>>
    BY DEF NoGraph
  <2>3. graph # NoGraph
    BY <2>2
  <2>4. BuiltOfFile
    BY <2>3 DEF Inv, Staged
  <2>5. WellFormed(f) /\ f.nbnd = file.nbnd /\ f.pw_nbnd = file.pw_nbnd
    BY <2>1, <2>4, ParseKeeps, ReadFile DEF BuiltOfFile
  <2>6. BuildRefusals(f, site) = {} /\ graph = BuildWorkgraph(f, site)
    BY <2>4 DEF BuiltOfFile
  <2> HIDE DEF f
  <2> QED BY <2>1, <2>5, <2>6, RoutesTileTheBands
<1> QED BY <1>1, StagesAreConsistent, PTL

\* A keyword that a notice calls without effect has none, for every site and
\* every file the schema accepts, but for eps_inf and a dielectric entry of a
\* kcp.x singlepoint with calculate_alpha off (advisories_for against the
\* routes).
THEOREM NoticesAreAlwaysTrue == Spec => []NoticesAreTrue
<1>1. Inv => NoticesAreTrue
  <2> SUFFICES ASSUME Inv, stage = "advised", NEW n \in notices, SaysNoEffect(n),
                      ~(n.about \in {"eps_inf", "dielectric"} /\ ScreensRegardless(file))
               PROVE  CalculationOf(Without(file, n)) = {Calculation(graph)}
    BY DEF NoticesAreTrue
  <2> PICK f, f2 : f = Parse(file) /\ f2 = Parse(Without(file, n))
    OBVIOUS
  <2>1. /\ WellFormed(file) /\ ParseRefusals(file) = {} /\ BuildRefusals(f, site) = {}
        /\ graph = BuildWorkgraph(f, site) /\ n \in AdvisoriesFor(f)
    BY DEF Inv, Typed, Staged, BuiltOfFile
  <2>2. ParseRefusals(Without(file, n)) = {} /\ LacksIdle(f2, f)
    BY <2>1, WithoutIt
  <2>3. /\ ~(f.task = "singlepoint" /\ f.formalism = "unset")
        /\ f.formalism \in {"unset", "dscf", "dfpt"}
    <3>1. WellFormed(f) /\ ~(f.task = "singlepoint" /\ f.formalism = "unset")
      BY <2>1, ParseKeeps, ReadFile
    <3>2. "formalism" \in DOMAIN Schema /\ Schema.formalism = {"unset", "dscf", "dfpt"}
      BY DEF Schema
    <3> QED BY <3>1, <3>2 DEF WellFormed
  <2>4. BuildRefusals(f2, site) = {}
    BY <2>1, <2>2, NothingNewIsRefused
  <2>5. Calculation(BuildWorkgraph(f2, site)) = Calculation(graph)
    BY <2>1, <2>2, <2>3, RunsTheSame
  <2> QED BY <2>2, <2>4, <2>5 DEF CalculationOf
<1> QED BY <1>1, StagesAreConsistent, PTL
=============================================================================
