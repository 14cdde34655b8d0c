--------------------------- MODULE DumpTreeProofs ---------------------------
(***************************************************************************)
(* Proofs about the passes that tidy a dumped tree, for runs of any number *)
(* of steps and any labels: renumbering moves every folder to a free name, *)
(* and leaves the folders in each folder in the reading order of the run;  *)
(* no pass loses a file that a calculation wrote, and the links that the   *)
(* last one makes lead to real files.                                      *)
(***************************************************************************)
EXTENDS DumpTree, FiniteOrders, SequenceTheorems

-----------------------------------------------------------------------------
(* The inductive invariant.                                                *)

Siblings(f, g) == f # g /\ run.parent[f] = run.parent[g]
Num == [f \in DOMAIN folder |-> folder[f].name.num]

Names(f) == [park : Nat, num : Nat, label : {run.label[f]},
             tail : {"", "WorkGraph", "PwCalculation"}, pk : Nat]

\* What the argument needs of a run: a process is called by an earlier one.
CallsGoForward ==
    /\ \E n \in 1 .. MaxSteps : Steps = 1 .. n
    /\ run.parent[Root] = NoStep /\ run.kind[Root] = "workflow"
    /\ \A p \in Steps \ {Root} : run.parent[p] \in 1 .. p - 1
    /\ \A p \in Steps : run.label[p] \in Labels

FoldersOfSteps ==
    /\ Root \in DOMAIN folder
    /\ DOMAIN folder \subseteq Steps
    /\ \A f \in DOMAIN folder : folder[f] \in [up : {run.parent[f]}, name : Names(f)]

Apart == \A f, g \in DOMAIN folder : Siblings(f, g) => folder[f].name # folder[g].name

\* Folders as AiiDA numbers them, in the order of the calls, and named for the
\* process until the names are simplified, for the label and the class then.
AsCalled(f) ==
    /\ folder[f].name.park = 0
    /\ IF pc = "simplify" THEN folder[f].name = RawName(run, f)
                          ELSE folder[f].name.tail = SimpleTail(TailOf(run.kind[f]))
    /\ \A g \in DOMAIN folder : Siblings(f, g) /\ f < g => Num[f] < Num[g]

\* What is left to be done for the folders: an entry for a folder, and its number.
Awaited(f) == \E i \in DOMAIN todo : todo[i].folder = f
Parking(f) == \E i \in DOMAIN todo : todo[i].op = "park" /\ todo[i].folder = f

\* The number a folder has, or is about to have.
Due == [f \in DOMAIN folder |->
          IF Awaited(f) THEN todo[CHOOSE i \in DOMAIN todo : todo[i].folder = f].num
          ELSE Num[f]]

Entries ==
    /\ todo \in Seq([op : {"park", "renumber"}, folder : DOMAIN folder, num : Nat])
    /\ \A i \in DOMAIN todo :
          /\ todo[i].folder # Root => todo[i].num > 0
          /\ todo[i].op = "park" =>
                /\ todo[i].folder # Root
                /\ \E j \in DOMAIN todo : todo[j].op = "renumber" /\ todo[j].folder = todo[i].folder
                /\ folder[todo[i].folder].name.park = 0
    /\ \A i, j \in DOMAIN todo :
          /\ todo[i].folder = todo[j].folder => todo[i].num = todo[j].num
          /\ todo[i].folder = todo[j].folder /\ todo[i].op = todo[j].op => i = j
          /\ i < j /\ todo[j].op = "park" => todo[i].op = "park"

\* No two folders of a folder are to have one number, and a folder that has been
\* parked, or needs no parking, is told by its number.
NumbersDue ==
    \A f \in DOMAIN folder :
       /\ folder[f].name.park # 0 => Awaited(f) /\ folder[f].name.park = Due[f]
       /\ Awaited(f) /\ ~Parking(f) =>
             folder[f].name = Final(f, Due[f]) \/ folder[f].name.park = Due[f]
       /\ \A g \in DOMAIN folder : Siblings(f, g) => Due[f] # Due[g]

\* The folders in p read as the run went by the numbers they are to have.
ReadAsRun(p, number) ==
    LET kids == InFolder(folder, p)
    IN /\ {number[f] : f \in kids} = 1 .. Cardinality(kids)
       /\ \A f, g \in kids : f < g =>
             (number[f] > number[g] <=> /\ FamilyOf(f) = FamilyOf(g)
                                        /\ SideBySide(kids, FamilyOf(f))
                                        /\ run.label[f].index > run.label[g].index)

\* The folders beneath what is awaited are as they were called; the folders in
\* any other are numbered, or on their way.
Beneath(untouched) ==
    \A f \in DOMAIN folder :
       f \in untouched <=> f # Root /\ (run.parent[f] \in untouched \/ Awaited(run.parent[f]))

Reached ==
    \E untouched \in SUBSET DOMAIN folder :
       /\ Beneath(untouched)
       /\ \A f \in untouched : ~Awaited(f) /\ AsCalled(f)
       /\ \A p \in DOMAIN folder \ untouched : ~Awaited(p) => ReadAsRun(p, Due)

NumbersDiffer == \A f, g \in DOMAIN folder : Siblings(f, g) => Num[f] # Num[g]

\* The passes after it visit folders of steps.
Visits == todo \in Seq([op : {"strip", "hoist"}, folder : Steps, num : Nat])

TreeInv ==
    /\ CallsGoForward
    /\ FoldersOfSteps
    /\ Apart
    /\ pc \in {"simplify", "list", "prune", "renumber"} \cup Renumbered
    /\ pc \in {"simplify", "list", "prune"} =>
          DOMAIN folder = Steps /\ \A f \in DOMAIN folder : AsCalled(f)
    /\ pc = "renumber" => Entries /\ NumbersDue /\ Reached
    /\ pc \in {"strip", "hoist"} => Visits
    /\ pc \in Renumbered => NumbersDiffer /\ \A p \in DOMAIN folder : ReadAsRun(p, Num)

-----------------------------------------------------------------------------
(* The order in which the folders in a folder are numbered.                *)

LEMMA StepsAreNumbers ==
    ASSUME CallsGoForward, FoldersOfSteps
    PROVE  /\ IsFiniteSet(Steps) /\ Steps \subseteq Nat /\ Root \in Steps
           /\ \A f \in DOMAIN folder :
                 /\ f \in Nat /\ folder[f].up = run.parent[f] /\ run.parent[f] \in Nat
                 /\ run.parent[f] < f
                 /\ folder[f].name \in Names(f) /\ Num[f] \in Nat
                 /\ folder[f].name.label = run.label[f] /\ run.label[f].index \in Nat
<1>1. PICK n \in 1 .. MaxSteps : Steps = 1 .. n
    BY DEF CallsGoForward
<1>2. IsFiniteSet(Steps) /\ Steps \subseteq Nat /\ Root \in Steps
    BY <1>1, TreeAssumption, FS_Interval DEF FoldersOfSteps
<1>3. ASSUME NEW f \in DOMAIN folder
      PROVE  /\ f \in Nat /\ folder[f].up = run.parent[f] /\ run.parent[f] \in Nat
             /\ run.parent[f] < f
             /\ folder[f].name \in Names(f) /\ Num[f] \in Nat
             /\ folder[f].name.label = run.label[f] /\ run.label[f].index \in Nat
  <2>1. f \in Steps /\ f \in Nat /\ f >= 1
    BY <1>1, TreeAssumption DEF FoldersOfSteps
  <2>2. run.parent[f] \in Nat /\ run.parent[f] < f
    BY <2>1 DEF CallsGoForward, NoStep
  <2>3. folder[f].up = run.parent[f] /\ folder[f].name \in Names(f)
    BY DEF FoldersOfSteps
  <2>4. run.label[f].index \in Nat
    BY <2>1, TreeAssumption DEF CallsGoForward
  <2> QED BY <2>1, <2>2, <2>3, <2>4 DEF Names, Num
<1> QED BY <1>2, <1>3

LEMMA KidsAreFinite ==
    ASSUME CallsGoForward, FoldersOfSteps, NEW p
    PROVE  /\ IsFiniteSet(InFolder(folder, p))
           /\ Cardinality(InFolder(folder, p)) \in Nat
           /\ \A f \in InFolder(folder, p) :
                 f \in DOMAIN folder /\ f \in Nat /\ run.parent[f] = p
<1>1. InFolder(folder, p) \subseteq Steps
    BY DEF InFolder, FoldersOfSteps
<1>2. IsFiniteSet(InFolder(folder, p))
    BY <1>1, StepsAreNumbers, FS_Subset
<1> QED BY <1>2, StepsAreNumbers, FS_CardinalityType DEF InFolder

\* Folders with different numbers are listed by them.
LEMMA ListedByNumbers ==
    ASSUME CallsGoForward, FoldersOfSteps, NEW p,
           \A f, g \in InFolder(folder, p) : f # g => Num[f] # Num[g]
    PROVE  LET kids == InFolder(folder, p)
               n == Cardinality(kids)
           IN /\ StepFolders(p) \in [1 .. n -> kids]
              /\ \A i, j \in 1 .. n : i < j => Num[StepFolders(p)[i]] < Num[StepFolders(p)[j]]
<1> DEFINE kids == InFolder(folder, p)
           n == Cardinality(kids)
           num == [f \in kids |-> Num[f]]
           Ascends(s) == \A i, j \in 1 .. n :
                            i < j => folder[s[i]].name.num < folder[s[j]].name.num
<1>1. /\ IsFiniteSet(kids) /\ n \in Nat
      /\ \A f \in kids : Num[f] \in Int /\ Num[f] = folder[f].name.num
    BY KidsAreFinite, StepsAreNumbers DEF Num
<1>2. num \in [kids -> Int] /\ \A f, g \in kids : f # g => num[f] # num[g]
    BY <1>1
<1>3. \E r \in [1 .. n -> kids] : Ascends(r)
  <2> HIDE DEF num
  <2>1. \E r \in [1 .. n -> kids] : \A i, j \in 1 .. n : i < j => num[r[i]] < num[r[j]]
    BY <1>1, <1>2, ListedByNumber
  <2>2. \A f \in kids : num[f] = folder[f].name.num
    BY <1>1 DEF num
  <2> HIDE DEF kids
  <2> QED BY <2>1, <2>2
<1>4. StepFolders(p) \in [1 .. n -> kids] /\ Ascends(StepFolders(p))
    BY <1>3 DEF StepFolders
<1> HIDE DEF kids
<1> QED BY <1>1, <1>4 DEF kids

\* As AiiDA numbers them, folders are listed in the order of the calls.
LEMMA ListedAsCalled ==
    ASSUME CallsGoForward, FoldersOfSteps, NEW p,
           \A f \in InFolder(folder, p) : AsCalled(f)
    PROVE  LET kids == InFolder(folder, p)
               n == Cardinality(kids)
           IN /\ StepFolders(p) \in [1 .. n -> kids]
              /\ \A i, j \in 1 .. n : i < j => StepFolders(p)[i] < StepFolders(p)[j]
              /\ \A f \in kids : \E i \in 1 .. n : StepFolders(p)[i] = f
<1> DEFINE kids == InFolder(folder, p)
           n == Cardinality(kids)
           s == StepFolders(p)
<1>1. /\ IsFiniteSet(kids) /\ n \in Nat
      /\ \A f \in kids : f \in DOMAIN folder /\ f \in Nat /\ run.parent[f] = p
    BY KidsAreFinite
<1>2. \A f \in kids : Num[f] \in Int
    BY <1>1, StepsAreNumbers
<1>3. ASSUME NEW f \in kids, NEW g \in kids, f < g
      PROVE  Num[f] < Num[g]
  <2>1. f \in DOMAIN folder /\ g \in DOMAIN folder /\ f # g
        /\ run.parent[f] = p /\ run.parent[g] = p
    BY <1>1, <1>3
  <2>2. AsCalled(f)
    OBVIOUS
  <2> QED BY <1>3, <2>1, <2>2 DEF AsCalled, Siblings
<1>4. \A f, g \in kids : f # g => Num[f] # Num[g]
  <2> SUFFICES ASSUME NEW f \in kids, NEW g \in kids, f # g PROVE Num[f] # Num[g]
    OBVIOUS
  <2>1. f < g \/ g < f
    BY <1>1
  <2> HIDE DEF kids
  <2> QED BY <1>2, <1>3, <2>1
<1>5. /\ s \in [1 .. n -> kids]
      /\ \A i, j \in 1 .. n : i < j => Num[s[i]] < Num[s[j]]
    BY <1>4, ListedByNumbers
<1> HIDE DEF s, kids
<1>6. ASSUME NEW i \in 1 .. n, NEW j \in 1 .. n, i < j
      PROVE  s[i] < s[j]
  <2>1. s[i] \in kids /\ s[j] \in kids
    BY <1>5
  <2>2. Num[s[i]] < Num[s[j]] /\ Num[s[i]] \in Int /\ Num[s[j]] \in Int
    BY <1>2, <1>5, <1>6, <2>1
  <2>3. ~(s[j] < s[i]) /\ s[i] # s[j]
    BY <1>3, <2>1, <2>2
  <2> QED BY <1>1, <2>1, <2>3
<1>7. \A i, j \in 1 .. n : i < j => s[i] # s[j]
  <2> SUFFICES ASSUME NEW i \in 1 .. n, NEW j \in 1 .. n, i < j PROVE s[i] # s[j]
    OBVIOUS
  <2>1. s[i] < s[j] /\ s[i] \in Nat /\ s[j] \in Nat
    BY <1>1, <1>5, <1>6
  <2> QED BY <2>1
<1>8. \A f \in kids : \E i \in 1 .. n : s[i] = f
    BY <1>1, <1>5, <1>7, ListsAreComplete
<1> QED BY <1>5, <1>6, <1>8 DEF s, kids

\* Ordered lists the folders in a folder as the run is read.
LEMMA OrderedAsRead ==
    ASSUME CallsGoForward, FoldersOfSteps, NEW p, pc # "simplify",
           \A f \in InFolder(folder, p) : AsCalled(f)
    PROVE  LET kids == InFolder(folder, p)
               n == Cardinality(kids)
               list == Ordered(p)
           IN /\ list \in [1 .. n -> kids]
              /\ \A i, j \in 1 .. n : i < j =>
                    /\ list[i] # list[j]
                    /\ list[j] < list[i] =>
                          /\ FamilyOf(list[i]) = FamilyOf(list[j])
                          /\ SideBySide(kids, FamilyOf(list[i]))
                          /\ run.label[list[i]].index < run.label[list[j]].index
                    /\ FamilyOf(list[i]) = FamilyOf(list[j])
                       /\ SideBySide(kids, FamilyOf(list[i]))
                       => run.label[list[i]].index <= run.label[list[j]].index
              /\ \A f \in kids : \E i \in 1 .. n : list[i] = f
<1> DEFINE kids == InFolder(folder, p)
           n == Cardinality(kids)
           s == StepFolders(p)
           labels == [i \in DOMAIN s |-> LabelRead(folder[s[i]].name)]
           order == DisplayOrder(labels)
           list == Ordered(p)
<1>1. /\ IsFiniteSet(kids) /\ n \in Nat
      /\ \A f \in kids : f \in DOMAIN folder /\ f \in Nat /\ run.parent[f] = p
    BY KidsAreFinite
<1>2. /\ s \in [1 .. n -> kids]
      /\ \A i, j \in 1 .. n : i < j => s[i] < s[j]
      /\ \A f \in kids : \E i \in 1 .. n : s[i] = f
    BY ListedAsCalled
<1>3. /\ DOMAIN labels = 1 .. n
      /\ \A i \in 1 .. n : /\ labels[i].family = FamilyOf(s[i])
                           /\ labels[i].index = run.label[s[i]].index
                           /\ labels[i].index \in Int
  <2>1. ASSUME NEW i \in 1 .. n
        PROVE  /\ labels[i].family = FamilyOf(s[i])
               /\ labels[i].index = run.label[s[i]].index
               /\ labels[i].index \in Int
    <3>1. s[i] \in kids /\ DOMAIN s = 1 .. n
      BY <1>2
    <3>2. s[i] \in DOMAIN folder /\ AsCalled(s[i])
      BY <1>1, <3>1
    <3>3. folder[s[i]].name.label = run.label[s[i]] /\ run.label[s[i]].index \in Nat
      BY <3>2, StepsAreNumbers
    <3>4. folder[s[i]].name.tail = SimpleTail(TailOf(run.kind[s[i]]))
      BY <3>2 DEF AsCalled
    <3> HIDE DEF s
    <3>5. labels[i] = LabelRead(folder[s[i]].name)
      BY <3>1
    <3>6. /\ LabelRead(folder[s[i]].name).family = <<run.label[s[i]].family, SimpleTail(TailOf(run.kind[s[i]]))>>
          /\ LabelRead(folder[s[i]].name).index = run.label[s[i]].index
      BY <3>3, <3>4 DEF LabelRead
    <3> HIDE DEF labels
    <3> QED BY <3>3, <3>5, <3>6 DEF FamilyOf
  <2> QED BY <1>2, <2>1
<1> HIDE DEF labels
<1>4. /\ order \in [1 .. n -> 1 .. n]
      /\ \A i, j \in 1 .. n : i < j =>
            /\ order[i] # order[j]
            /\ order[j] < order[i] =>
                  /\ labels[order[i]].index < labels[order[j]].index
                  /\ \A k \in order[j] .. order[i] :
                        labels[k].family = labels[order[i]].family
            /\ order[j] < order[i] => Together(labels, labels[order[i]].family)
            /\ labels[order[i]].family = labels[order[j]].family
               /\ Together(labels, labels[order[i]].family)
               => labels[order[i]].index <= labels[order[j]].index
    BY <1>1, <1>3, ReadingOrder
<1>5. list = [i \in 1 .. n |-> s[order[i]]]
  <2>1. list = [i \in DOMAIN s |-> s[order[i]]]
    BY DEF Ordered, labels
  <2> QED BY <1>2, <2>1
<1> HIDE DEF s, order, list, kids
<1>6. list \in [1 .. n -> kids]
    BY <1>2, <1>4, <1>5
<1>7. ASSUME NEW a \in 1 .. n, NEW b \in 1 .. n
      PROVE  s[a] < s[b] <=> a < b
  <2>1. s[a] \in Nat /\ s[b] \in Nat
    BY <1>1, <1>2
  <2>2. a < b \/ a = b \/ b < a
    BY <1>1
  <2> QED BY <1>1, <1>2, <2>1, <2>2
\* Side by side among the folders is side by side among the labels.
<1>11. ASSUME NEW family
       PROVE  SideBySide(kids, family) <=> Together(labels, family)
  <2>1. \A a \in 1 .. n : a \in Positions(labels, family) <=> FamilyOf(s[a]) = family
    BY <1>3 DEF Positions
  <2>2. Positions(labels, family) \subseteq 1 .. n
    BY <1>3 DEF Positions
  <2>3. ASSUME SideBySide(kids, family),
               NEW a \in Positions(labels, family), NEW b \in Positions(labels, family),
               NEW c \in a .. b
        PROVE  c \in Positions(labels, family)
    <3>1. a \in 1 .. n /\ b \in 1 .. n /\ c \in 1 .. n
      BY <1>1, <2>2
    <3>2. /\ s[a] \in kids /\ s[b] \in kids /\ s[c] \in kids
          /\ s[a] \in Nat /\ s[b] \in Nat /\ s[c] \in Nat
      BY <1>1, <1>2, <3>1
    <3>3. ~(s[c] < s[a]) /\ ~(s[b] < s[c])
      BY <1>7, <3>1
    <3>4. s[c] \in kids \cap (s[a] .. s[b])
      BY <3>2, <3>3
    <3> QED BY <2>1, <2>3, <3>1, <3>2, <3>4 DEF SideBySide
  <2>4. ASSUME Together(labels, family), NEW f \in kids, NEW g \in kids,
               FamilyOf(f) = family, FamilyOf(g) = family, NEW k \in kids \cap (f .. g)
        PROVE  FamilyOf(k) = family
    <3>1. PICK a \in 1 .. n : s[a] = f
      BY <1>2
    <3>2. PICK b \in 1 .. n : s[b] = g
      BY <1>2
    <3>3. PICK c \in 1 .. n : s[c] = k
      BY <1>2
    <3>4. f \in Nat /\ g \in Nat /\ k \in Nat
      BY <1>1
    <3>5. ~(s[c] < s[a]) /\ ~(s[b] < s[c])
      BY <3>1, <3>2, <3>3, <3>4
    <3>6. c \in a .. b
      BY <1>1, <1>7, <3>5
    <3> QED BY <2>1, <2>4, <3>1, <3>2, <3>3, <3>6 DEF Together
  <2> QED BY <2>3, <2>4 DEF SideBySide, Together
<1>8. ASSUME NEW i \in 1 .. n, NEW j \in 1 .. n, i < j
      PROVE  /\ list[i] # list[j]
             /\ list[j] < list[i] =>
                   /\ FamilyOf(list[i]) = FamilyOf(list[j])
                   /\ SideBySide(kids, FamilyOf(list[i]))
                   /\ run.label[list[i]].index < run.label[list[j]].index
             /\ FamilyOf(list[i]) = FamilyOf(list[j])
                /\ SideBySide(kids, FamilyOf(list[i]))
                => run.label[list[i]].index <= run.label[list[j]].index
  <2>1. /\ order[i] \in 1 .. n /\ order[j] \in 1 .. n
        /\ list[i] = s[order[i]] /\ list[j] = s[order[j]]
    BY <1>4, <1>5
  <2>2. /\ s[order[i]] \in Nat /\ s[order[j]] \in Nat
        /\ labels[order[i]].family = FamilyOf(list[i])
        /\ labels[order[j]].family = FamilyOf(list[j])
        /\ labels[order[i]].index = run.label[list[i]].index
        /\ labels[order[j]].index = run.label[list[j]].index
    BY <1>1, <1>2, <1>3, <2>1
  <2>3. list[i] # list[j]
    <3>1. order[i] < order[j] \/ order[j] < order[i]
      BY <1>1, <1>4, <1>8, <2>1
    <3> QED BY <1>7, <2>1, <2>2, <3>1
  <2>4. ASSUME list[j] < list[i]
        PROVE  /\ FamilyOf(list[i]) = FamilyOf(list[j])
               /\ SideBySide(kids, FamilyOf(list[i]))
               /\ run.label[list[i]].index < run.label[list[j]].index
    <3>1. order[j] < order[i]
      BY <1>7, <2>1, <2>4
    <3>2. order[j] \in order[j] .. order[i]
      BY <2>1, <3>1
    <3>3. labels[order[j]].family = labels[order[i]].family
      BY <1>4, <1>8, <3>1, <3>2
    <3>4. Together(labels, FamilyOf(list[i]))
      BY <1>4, <1>8, <2>2, <3>1
    <3> QED BY <1>4, <1>8, <1>11, <2>2, <3>1, <3>3, <3>4
  <2>5. ASSUME FamilyOf(list[i]) = FamilyOf(list[j]), SideBySide(kids, FamilyOf(list[i]))
        PROVE  run.label[list[i]].index <= run.label[list[j]].index
    <3>1. Together(labels, labels[order[i]].family)
      BY <1>11, <2>2, <2>5
    <3> QED BY <1>4, <1>8, <2>2, <2>5, <3>1
  <2> QED BY <2>3, <2>4, <2>5
<1>9. \A f \in kids : \E i \in 1 .. n : list[i] = f
  <2>1. \A i, j \in 1 .. n : i < j => list[i] # list[j]
    BY <1>8
  <2> QED BY <1>1, <1>6, <2>1, ListsAreComplete DEF kids
<1> QED BY <1>6, <1>8, <1>9 DEF list, kids

-----------------------------------------------------------------------------
(* Up to the pruning.                                                      *)

LEMMA InitEstablishesTreeInv == TreeInit => TreeInv
<1> SUFFICES ASSUME TreeInit PROVE TreeInv
    OBVIOUS
<1>1. PICK n \in 2 .. MaxSteps :
         /\ Steps = 1 .. n /\ run.parent \in Parents(n) /\ run.kind[Root] = "workflow"
         /\ \A p \in 1 .. n : run.label[p] \in Labels
         /\ run.label[Root] = CHOOSE l \in Labels : TRUE
  <2>1. PICK n \in 2 .. MaxSteps : \E parent, kind, creator :
           /\ parent \in Parents(n) /\ kind \in [1 .. n -> Kinds] /\ kind[Root] = "workflow"
           /\ IsRunOf(run, n, parent, kind, creator)
    BY Zenon DEF TreeInit, IsRun
  <2>2. PICK parent, kind, creator :
           /\ parent \in Parents(n) /\ kind \in [1 .. n -> Kinds] /\ kind[Root] = "workflow"
           /\ IsRunOf(run, n, parent, kind, creator)
    BY <2>1
  <2>3. run.parent = parent /\ run.kind = kind
    BY <2>2 DEF IsRunOf
  <2>4. (CHOOSE l \in Labels : TRUE) \in Labels
    BY TreeAssumption
  <2>5. \A p \in 1 .. n : run.label[p] \in Labels
    BY <2>2, <2>4 DEF IsRunOf
  <2>6. run.label[Root] = CHOOSE l \in Labels : TRUE
    BY <2>2 DEF IsRunOf, Root
  <2>7. Steps = 1 .. n
    BY <2>2, <2>3 DEF Steps
  <2> QED BY <2>2, <2>3, <2>5, <2>6, <2>7
<1>2. n \in 1 .. MaxSteps /\ n \in Nat
    BY TreeAssumption
<1>3. CallsGoForward
    BY <1>1, <1>2 DEF CallsGoForward, Parents, Root, NoStep
<1>4. DOMAIN folder = Steps /\ \A f \in Steps : folder[f] = [up |-> run.parent[f], name |-> RawName(run, f)]
    BY DEF TreeInit
<1> DEFINE Calls(p) == {q \in 1 .. p : run.parent[q] = run.parent[p]}
<1>5. ASSUME NEW p \in Steps
      PROVE  IsFiniteSet(Calls(p)) /\ Cardinality(Calls(p)) \in Nat
  <2>1. p \in Nat
    BY <1>1
  <2>2. IsFiniteSet(Calls(p))
    <3>1. Calls(p) \in SUBSET (1 .. p) /\ IsFiniteSet(1 .. p)
      BY <2>1, FS_Interval
    <3> QED BY <3>1, FS_Subset
  <2> QED BY <2>2, FS_CardinalityType
<1> HIDE DEF Calls
<1>6. ASSUME NEW p \in Steps
      PROVE  /\ RawName(run, p) \in Names(p) /\ RawName(run, p).park = 0
             /\ p # Root => RawName(run, p).num = Cardinality(Calls(p))
  <2> DEFINE Raw(num, tail, pk) == [park |-> 0, num |-> num, label |-> run.label[p],
                                    tail |-> tail, pk |-> pk]
  <2>1. \A num, pk \in Nat : \A tail \in {"", "WorkGraph", "PwCalculation"} :
           /\ Raw(num, tail, pk) \in Names(p)
           /\ Raw(num, tail, pk).park = 0 /\ Raw(num, tail, pk).num = num
    BY DEF Names
  <2>2. CASE p = Root
    <3>1. RawName(run, p) = Raw(0, "", 0)
      BY <1>1, <2>2, Zenon DEF RawName, Nothing
    <3>2. 0 \in Nat /\ "" \in {"", "WorkGraph", "PwCalculation"}
      OBVIOUS
    <3>3. Raw(0, "", 0) \in Names(p) /\ Raw(0, "", 0).park = 0
      BY <2>1, <3>2
    <3> HIDE DEF Raw
    <3> QED BY <2>2, <3>1, <3>3, Zenon
  <2>3. CASE p # Root
    <3>1. \E tail \in {"", "WorkGraph", "PwCalculation"} :
             RawName(run, p) = Raw(Cardinality(Calls(p)), tail, p)
      BY <2>3, Zenon DEF RawName, Calls, TailOf
    <3>2. p \in Nat /\ Cardinality(Calls(p)) \in Nat
      BY <1>1, <1>5
    <3> HIDE DEF Raw
    <3>3. PICK tail \in {"", "WorkGraph", "PwCalculation"} :
             RawName(run, p) = Raw(Cardinality(Calls(p)), tail, p)
      BY <3>1
    <3>4. /\ Raw(Cardinality(Calls(p)), tail, p) \in Names(p)
          /\ Raw(Cardinality(Calls(p)), tail, p).park = 0
          /\ Raw(Cardinality(Calls(p)), tail, p).num = Cardinality(Calls(p))
      BY <2>1, <3>2
    <3> QED BY <3>3, <3>4, Zenon
  <2> QED BY <2>2, <2>3
<1>7. FoldersOfSteps
  <2>1. \A f \in Steps : RawName(run, f) \in Names(f)
    BY <1>6
  <2>2. Root \in Steps
    BY <1>1, <1>2 DEF Root
  <2>3. \A f \in Steps : folder[f] \in [up : {run.parent[f]}, name : Names(f)]
    BY <1>4, <2>1
  <2> QED BY <1>4, <2>2, <2>3 DEF FoldersOfSteps
<1>8. ASSUME NEW f \in Steps, NEW g \in Steps, Siblings(f, g), f < g
      PROVE  Num[f] < Num[g]
  <2>1. f # Root /\ g # Root /\ f \in Nat /\ g \in Nat
    BY <1>1, <1>3, <1>8 DEF CallsGoForward, Siblings, Root, NoStep
  <2>2. Calls(f) \subseteq Calls(g) /\ g \in Calls(g) /\ g \notin Calls(f)
    BY <1>8, <2>1, <1>1 DEF Siblings, Calls
  <2>3. Cardinality(Calls(f)) < Cardinality(Calls(g))
    BY <1>5, <2>2, FS_Subset
  <2>4. Num[f] = Cardinality(Calls(f)) /\ Num[g] = Cardinality(Calls(g))
    BY <1>4, <1>6, <2>1 DEF Num
  <2> QED BY <2>3, <2>4
<1>9. \A f \in DOMAIN folder : AsCalled(f)
  <2>1. \A f \in Steps : folder[f].name.park = 0
    BY <1>4, <1>6
  <2>2. pc = "simplify" /\ \A f \in Steps : folder[f].name = RawName(run, f)
    BY <1>4 DEF TreeInit
  <2> QED BY <1>4, <1>8, <2>1, <2>2 DEF AsCalled
<1>10. Apart
  <2> SUFFICES ASSUME NEW f \in DOMAIN folder, NEW g \in DOMAIN folder, Siblings(f, g),
                      folder[f].name = folder[g].name
               PROVE  FALSE
    BY DEF Apart
  <2>1. f < g \/ g < f
    BY <1>1, <1>4 DEF Siblings
  <2>2. Num[f] # Num[g]
    <3>1. Siblings(g, f) /\ Num[f] \in Nat /\ Num[g] \in Nat
      BY <1>3, <1>7, StepsAreNumbers DEF Siblings
    <3> QED BY <1>4, <1>8, <2>1, <3>1
  <2> QED BY <2>2 DEF Num
<1>11. pc = "simplify"
    BY DEF TreeInit
<1> QED BY <1>3, <1>4, <1>7, <1>9, <1>10, <1>11 DEF TreeInv, Renumbered

\* Folders with the numbers AiiDA gave them differ in them.
LEMMA CalledApart ==
    ASSUME CallsGoForward, FoldersOfSteps, \A f \in DOMAIN folder : AsCalled(f)
    PROVE  \A f, g \in DOMAIN folder : Siblings(f, g) => Num[f] # Num[g]
<1> SUFFICES ASSUME NEW f \in DOMAIN folder, NEW g \in DOMAIN folder, Siblings(f, g)
             PROVE  Num[f] # Num[g]
    OBVIOUS
<1>1. /\ Siblings(g, f) /\ Num[f] \in Nat /\ Num[g] \in Nat
      /\ f \in Nat /\ g \in Nat /\ f # g
    BY StepsAreNumbers DEF Siblings
<1>2. f < g \/ g < f
    BY <1>1
<1> QED BY <1>1, <1>2 DEF AsCalled

LEMMA SimplifyKeepsTreeInv == TreeInv /\ Simplify => TreeInv'
<1> SUFFICES ASSUME TreeInv, Simplify PROVE TreeInv'
    OBVIOUS
<1>1. /\ CallsGoForward /\ FoldersOfSteps /\ DOMAIN folder = Steps
      /\ \A f \in DOMAIN folder : AsCalled(f)
    BY DEF TreeInv, Simplify
<1>2. /\ run' = run /\ Steps' = Steps /\ DOMAIN folder' = DOMAIN folder /\ pc' = "list"
      /\ \A f \in DOMAIN folder :
            \/ folder'[f] = folder[f]
            \/ folder'[f] = [folder[f] EXCEPT !.name = Simple(@)]
    BY DEF Simplify, Steps
<1>3. \A f \in DOMAIN folder :
         /\ folder'[f] \in [up : {run.parent[f]}, name : Names(f)]
         /\ folder'[f].name.num = folder[f].name.num
         /\ folder'[f].name.park = folder[f].name.park
  <2> SUFFICES ASSUME NEW f \in DOMAIN folder
               PROVE  /\ folder'[f] \in [up : {run.parent[f]}, name : Names(f)]
                      /\ folder'[f].name.num = folder[f].name.num
                      /\ folder'[f].name.park = folder[f].name.park
    OBVIOUS
  <2>1. folder[f] \in [up : {run.parent[f]}, name : Names(f)]
    BY <1>1 DEF FoldersOfSteps
  <2>2. /\ Simple(folder[f].name) \in Names(f)
        /\ Simple(folder[f].name).num = folder[f].name.num
        /\ Simple(folder[f].name).park = folder[f].name.park
    BY <2>1 DEF Simple, SimpleTail, Names
  <2> QED BY <1>2, <2>1, <2>2
<1>4. CallsGoForward'
    BY <1>1, <1>2 DEF CallsGoForward
<1>5. FoldersOfSteps'
    BY <1>1, <1>2, <1>3 DEF FoldersOfSteps, Names
<1>6. Num' = Num
    BY <1>2, <1>3 DEF Num
\* No name is taken, for its number tells a folder from those beside it.
<1>9. ASSUME NEW f \in DOMAIN folder
      PROVE  folder'[f].name.tail = SimpleTail(TailOf(run.kind[f]))
  <2>1. folder[f].name = RawName(run, f)
    BY <1>1 DEF AsCalled, Simplify
  <2>2. CASE f = Root
    <3>1. folder[f].name.tail = "" /\ Simple(folder[f].name).tail = ""
      <4>1. RawName(run, f) = Nothing
        BY <2>2, Zenon DEF RawName
      <4>2. Nothing.tail = "" /\ Simple(Nothing).tail = ""
        BY DEF Nothing, Simple, SimpleTail
      <4> QED BY <2>1, <4>1, <4>2
    <3>2. SimpleTail(TailOf(run.kind[f])) = ""
      BY <1>1, <2>2 DEF CallsGoForward, SimpleTail, TailOf
    <3>3. folder[f] \in [up : {run.parent[f]}, name : Names(f)]
      BY <1>1 DEF FoldersOfSteps
    <3>4. folder'[f].name.tail = ""
      <4>1. CASE folder'[f] = folder[f]
        BY <3>1, <4>1
      <4>2. CASE folder'[f] = [folder[f] EXCEPT !.name = Simple(@)]
        BY <3>1, <3>3, <4>2
      <4> QED BY <1>2, <4>1, <4>2
    <3> QED BY <3>2, <3>4
  <2>3. CASE f # Root
    <3>1. /\ folder[f].name.tail = TailOf(run.kind[f])
          /\ folder[f].name.pk = f
      <4> DEFINE num == Cardinality({q \in 1 .. f : run.parent[q] = run.parent[f]})
      <4>1. RawName(run, f) = [park |-> 0, pk |-> f, label |-> run.label[f], num |-> num,
                               tail |-> TailOf(run.kind[f])]
        BY <2>3, Zenon DEF RawName
      <4> HIDE DEF num
      <4> QED BY <2>1, <4>1
    <3>2. folder[f] \in [up : {run.parent[f]}, name : Names(f)]
      BY <1>1 DEF FoldersOfSteps
    <3>3. /\ Simple(folder[f].name).num = folder[f].name.num
          /\ Simple(folder[f].name).pk = 0
          /\ Simple(folder[f].name).tail = SimpleTail(folder[f].name.tail)
      BY <3>2 DEF Simple, Names
    <3>4. ~Exists(folder, folder[f].up, Simple(folder[f].name))
      <4> SUFFICES ASSUME NEW g \in InFolder(folder, folder[f].up),
                          folder[g].name = Simple(folder[f].name)
                   PROVE  FALSE
        BY DEF Exists
      <4>1. g \in DOMAIN folder /\ run.parent[g] = run.parent[f] /\ Num[g] = Num[f]
        BY <1>1, <3>3, StepsAreNumbers DEF InFolder, Num
      <4>2. g = f
        BY <1>1, <4>1, CalledApart DEF Siblings
      <4>3. f # 0
        BY <1>1, StepsAreNumbers, TreeAssumption DEF CallsGoForward
      <4> QED BY <3>1, <3>3, <4>2, <4>3
    <3>5. folder'[f] = [folder[f] EXCEPT !.name = Simple(@)]
      BY <3>4 DEF Simplify
    <3>6. folder'[f].name = Simple(folder[f].name)
      BY <3>2, <3>5
    <3> QED BY <3>1, <3>3, <3>6
  <2> QED BY <2>2, <2>3
<1>7. \A f \in DOMAIN folder' : AsCalled(f)'
  <2> SUFFICES ASSUME NEW f \in DOMAIN folder PROVE AsCalled(f)'
    BY <1>2
  <2>1. AsCalled(f)
    BY <1>1
  <2>2. folder'[f].name.park = 0
    BY <1>3, <2>1 DEF AsCalled
  <2>3. folder'[f].name.tail = SimpleTail(TailOf(run'.kind[f]))
    BY <1>2, <1>9
  <2>4. \A g \in DOMAIN folder : Siblings(f, g) /\ f < g => Num'[f] < Num'[g]
    BY <1>6, <2>1 DEF AsCalled
  <2> QED BY <1>2, <2>2, <2>3, <2>4 DEF AsCalled, Siblings
<1>8. Apart'
  <2>1. \A f, g \in DOMAIN folder : Siblings(f, g) => Num[f] # Num[g]
    BY <1>1, CalledApart
  <2> QED BY <1>2, <1>3, <2>1 DEF Apart, Siblings, Num
<1> QED BY <1>1, <1>2, <1>4, <1>5, <1>7, <1>8 DEF TreeInv, Renumbered

LEMMA ListKeepsTreeInv == TreeInv /\ List => TreeInv'
<1> SUFFICES ASSUME TreeInv, List PROVE TreeInv'
    OBVIOUS
<1>1. run' = run /\ folder' = folder /\ todo' = todo /\ pc = "list" /\ pc' = "prune"
    BY DEF List
<1> QED BY <1>1 DEF TreeInv, CallsGoForward, FoldersOfSteps, Names, Apart, AsCalled, Siblings,
                    Num, Steps, Renumbered

\* Holds says of a folder what it says of the folders in it.
LEMMA HoldsUnfolds ==
    ASSUME CallsGoForward, FoldersOfSteps, NEW f \in Steps
    PROVE  Holds(folder, f) <=> \/ \E h \in files : h.at = f /\ ~NonContent(h)
                                \/ \E h \in InFolder(folder, f) : Holds(folder, h)
<1> DEFINE body(holds, g) == \/ \E h \in files : h.at = g /\ ~NonContent(h)
                             \/ \E h \in InFolder(folder, g) : holds[h]
           HoldsFrom(holds, k) == \A g \in Steps : g >= k => (holds[g] <=> body(holds, g))
<1>1. PICK n \in Nat : Steps = 1 .. n
    BY TreeAssumption DEF CallsGoForward
<1> DEFINE S == {k \in 0 .. n : \E holds \in [Steps -> BOOLEAN] : HoldsFrom(holds, n + 1 - k)}
<1>2. 0 \in S
  <2>1. HoldsFrom([g \in Steps |-> FALSE], n + 1)
    BY <1>1
  <2>2. [g \in Steps |-> FALSE] \in [Steps -> BOOLEAN]
    OBVIOUS
  <2>3. 0 \in 0 .. n /\ n + 1 - 0 = n + 1
    BY <1>1
  <2> HIDE DEF HoldsFrom
  <2> QED BY <2>1, <2>2, <2>3
<1>3. \A g \in Steps : \A h \in InFolder(folder, g) : h \in Steps /\ g < h
    BY <1>1, StepsAreNumbers DEF InFolder, FoldersOfSteps
<1>4. ASSUME NEW k \in 0 .. n - 1, k \in S
      PROVE  k + 1 \in S
  <2> DEFINE m == n - k
  <2>1. PICK holds \in [Steps -> BOOLEAN] : HoldsFrom(holds, m + 1)
    BY <1>4
  <2>2. m \in Steps /\ m \in Nat /\ k + 1 \in 0 .. n /\ m = n + 1 - (k + 1)
    BY <1>1
  <2> DEFINE more == [holds EXCEPT ![m] = body(holds, m)]
  <2>3. more \in [Steps -> BOOLEAN]
    OBVIOUS
  <2>4. ASSUME NEW g \in Steps, g >= m
        PROVE  more[g] <=> body(more, g)
    <3>1. ASSUME NEW h \in InFolder(folder, g)
          PROVE  more[h] = holds[h]
      <4>1. h \in Steps /\ g < h
        BY <1>3
      <4>2. h # m
        BY <1>1, <2>2, <2>4, <4>1
      <4> HIDE DEF m, body
      <4> QED BY <4>1, <4>2
    <3>2. body(more, g) <=> body(holds, g)
      BY <3>1
    <3>3. CASE g = m
      BY <2>2, <3>2, <3>3
    <3>4. CASE g # m
      <4>1. g >= m + 1
        BY <1>1, <2>2, <2>4, <3>4
      <4>2. holds[g] <=> body(holds, g)
        BY <2>1, <4>1
      <4> HIDE DEF body
      <4> QED BY <3>2, <3>4, <4>2
    <3> QED BY <3>3, <3>4
  <2>5. HoldsFrom(more, m)
    BY <2>4
  <2> HIDE DEF m, more, HoldsFrom
  <2> QED BY <2>2, <2>3, <2>5
<1>5. n \in S
  <2> HIDE DEF S
  <2>1. \A k \in 0 .. n : k \in S
    BY <1>1, <1>2, <1>4, Counting
  <2> QED BY <2>1
<1>6. PICK holds \in [Steps -> BOOLEAN] : HoldsFrom(holds, 1)
    BY <1>5
<1>7. \A g \in Steps : holds[g] = body(holds, g)
  <2> SUFFICES ASSUME NEW g \in Steps PROVE holds[g] = body(holds, g)
    OBVIOUS
  <2>1. g >= 1
    BY <1>1
  <2>2. holds[g] <=> body(holds, g)
    BY <1>6, <2>1
  <2> QED BY <2>2
<1>8. \E all : all = [g \in Steps |-> body(all, g)]
  <2>1. holds = [g \in Steps |-> body(holds, g)]
    BY <1>7
  <2> QED BY <2>1
<1> DEFINE found == CHOOSE all : all = [g \in Steps |-> body(all, g)]
<1>9. found = [g \in Steps |-> body(found, g)]
    BY <1>8
<1>10. \A g : Holds(folder, g) = found[g]
    BY DEF Holds
<1> HIDE DEF found
<1> QED BY <1>9, <1>10

\* The root has no siblings.
LEMMA RootIsAlone ==
    ASSUME CallsGoForward, NEW f \in Steps
    PROVE  ~Siblings(f, Root) /\ ~Siblings(Root, f)
<1>1. Root \in Steps
    BY TreeAssumption DEF CallsGoForward, Root
<1> QED BY <1>1 DEF CallsGoForward, Siblings, NoStep

LEMMA PruneKeepsTreeInv == TreeInv /\ Prune => TreeInv'
<1> SUFFICES ASSUME TreeInv, Prune PROVE TreeInv'
    OBVIOUS
<1> DEFINE kept == {f \in DOMAIN folder : f = Root \/ Holds(folder, f)}
<1>1. /\ CallsGoForward /\ FoldersOfSteps /\ Apart /\ DOMAIN folder = Steps
      /\ \A f \in DOMAIN folder : AsCalled(f)
    BY DEF TreeInv, Prune
<1>2. /\ run' = run /\ Steps' = Steps /\ pc' = "renumber"
      /\ folder' = [f \in kept |-> folder[f]]
      /\ todo' = <<Do("renumber", Root, 0)>>
    BY DEF Prune, Steps, Start
<1>3. Root \in kept /\ kept \subseteq DOMAIN folder
    BY <1>1 DEF FoldersOfSteps
<1>4. ASSUME NEW f \in kept, f # Root
      PROVE  run.parent[f] \in kept
  <2>1. f \in Steps /\ Holds(folder, f) /\ run.parent[f] \in Steps
    <3>1. f \in Steps /\ Holds(folder, f)
      BY <1>1, <1>4
    <3>2. PICK n \in 1 .. MaxSteps : Steps = 1 .. n
      BY <1>1 DEF CallsGoForward
    <3>3. run.parent[f] \in 1 .. f - 1
      BY <1>1, <1>4, <3>1 DEF CallsGoForward
    <3> QED BY <3>1, <3>2, <3>3, TreeAssumption
  <2>2. f \in InFolder(folder, run.parent[f])
    BY <1>1, <2>1 DEF InFolder, FoldersOfSteps
  <2>3. Holds(folder, run.parent[f])
    BY <1>1, <2>1, <2>2, HoldsUnfolds
  <2> QED BY <1>1, <2>1, <2>3
<1> HIDE DEF kept
<1>5. CallsGoForward'
    BY <1>1, <1>2 DEF CallsGoForward
<1>6. FoldersOfSteps'
    BY <1>1, <1>2, <1>3 DEF FoldersOfSteps, Names
<1>7. Apart'
    BY <1>1, <1>2, <1>3 DEF Apart, Siblings
<1>8. DOMAIN folder' = kept /\ \A f \in kept : folder'[f] = folder[f] /\ Num'[f] = Num[f]
    BY <1>2, <1>3 DEF Num
<1>9. \A f \in kept : AsCalled(f)'
  <2> SUFFICES ASSUME NEW f \in kept PROVE AsCalled(f)'
    OBVIOUS
  <2>1. AsCalled(f)
    BY <1>1, <1>3
  <2>2. folder'[f] = folder[f] /\ pc = "prune"
    BY <1>8 DEF Prune
  <2>3. \A g \in kept : Siblings(f, g) /\ f < g => Num'[f] < Num'[g]
    BY <1>3, <1>8, <2>1 DEF AsCalled
  <2> QED BY <1>2, <1>8, <2>1, <2>2, <2>3 DEF AsCalled, Siblings
<1>10. /\ DOMAIN todo' = {1}
       /\ todo'[1].op = "renumber" /\ todo'[1].folder = Root /\ todo'[1].num = 0
    BY <1>2 DEF Do
<1>11. \A f : Awaited(f)' <=> f = Root
    BY <1>10 DEF Awaited
<1>12. Entries'
  <2>1. todo' \in Seq([op : {"park", "renumber"}, folder : DOMAIN folder', num : Nat])
    BY <1>2, <1>3, <1>8 DEF Do
  <2> QED BY <1>10, <2>1 DEF Entries
<1>13. \A f \in kept : Due'[f] = IF f = Root THEN 0 ELSE Num[f]
  <2>1. Due'[Root] = 0
    <3>1. \A i \in DOMAIN todo' : todo'[i].num = 0
      BY <1>10
    <3>2. (CHOOSE i \in DOMAIN todo' : todo'[i].folder = Root) \in DOMAIN todo'
      BY <1>10
    <3>3. Awaited(Root)'
      BY <1>11
    <3> QED BY <1>3, <1>8, <3>1, <3>2, <3>3 DEF Due
  <2>2. ASSUME NEW f \in kept, f # Root
        PROVE  Due'[f] = Num[f]
    <3>1. ~Awaited(f)'
      BY <1>11, <2>2
    <3> QED BY <1>8, <2>2, <3>1 DEF Due
  <2> QED BY <2>1, <2>2
<1>14. NumbersDue'
  <2>1. \A f \in kept : folder'[f].name.park = 0
    BY <1>9 DEF AsCalled
  <2>2. ASSUME NEW f \in kept, NEW g \in kept, Siblings(f, g)
        PROVE  Due'[f] # Due'[g]
    <3>1. f # Root /\ g # Root
      BY <1>1, <1>3, <2>2, RootIsAlone
    <3>2. Num[f] # Num[g]
      BY <1>1, <1>3, <2>2, CalledApart
    <3> QED BY <1>13, <3>1, <3>2
  <2>3. \A f, g : Siblings(f, g)' <=> Siblings(f, g)
    BY <1>2 DEF Siblings
  <2> QED BY <1>8, <1>11, <1>13, <2>1, <2>2, <2>3 DEF NumbersDue
<1>15. Reached'
  <2> PICK untouched : untouched = kept \ {Root}
    OBVIOUS
  <2>1. Beneath(untouched)'
    BY <1>2, <1>4, <1>8, <1>11 DEF Beneath
  <2>2. \A f \in untouched : ~Awaited(f)' /\ AsCalled(f)'
    BY <1>9, <1>11
  <2>3. \A p \in DOMAIN folder' \ untouched : Awaited(p)'
    BY <1>8, <1>11
  <2>4. untouched \in SUBSET DOMAIN folder'
    BY <1>8
  <2> QED BY <2>1, <2>2, <2>3, <2>4 DEF Reached
<1> QED BY <1>2, <1>5, <1>6, <1>7, <1>12, <1>14, <1>15 DEF TreeInv, Renumbered

-----------------------------------------------------------------------------
(* After the renumbering.                                                  *)

\* A folder that is moved to a free name stays in its folder.
LEMMA MovedToFreeName ==
    ASSUME CallsGoForward, FoldersOfSteps, Apart, run' = run,
           NEW f \in DOMAIN folder, NEW name \in Names(f),
           ~Exists(folder, folder[f].up, name), Move(f, name)
    PROVE  /\ FoldersOfSteps' /\ Apart' /\ DOMAIN folder' = DOMAIN folder
           /\ folder'[f].name = name
           /\ \A g \in DOMAIN folder : /\ folder'[g].up = folder[g].up
                                       /\ g # f => folder'[g] = folder[g]
<1>1. folder' = [folder EXCEPT ![f].name = name]
    BY DEF Move, Moved
<1>2. /\ DOMAIN folder' = DOMAIN folder /\ folder'[f].name = name
      /\ \A g \in DOMAIN folder : /\ folder'[g].up = folder[g].up
                                  /\ g # f => folder'[g] = folder[g]
    BY <1>1 DEF FoldersOfSteps
<1>3. FoldersOfSteps'
  <2>1. ASSUME NEW g \in DOMAIN folder
        PROVE  folder'[g] \in [up : {run.parent[g]}, name : Names(g)]
    <3>1. folder[g] \in [up : {run.parent[g]}, name : Names(g)]
      BY DEF FoldersOfSteps
    <3>2. CASE g = f
      <4>1. folder'[f] = [folder[f] EXCEPT !.name = name]
        BY <1>1
      <4> QED BY <3>1, <3>2, <4>1
    <3>3. CASE g # f
      BY <1>2, <3>1, <3>3
    <3> QED BY <3>2, <3>3
  <2>2. \A g \in DOMAIN folder : Names(g)' = Names(g)
    BY DEF Names
  <2> QED BY <1>2, <2>1, <2>2 DEF FoldersOfSteps, Steps
<1>4. ASSUME NEW g \in DOMAIN folder, Siblings(f, g)
      PROVE  folder[g].name # name
    BY <1>4, StepsAreNumbers DEF Exists, InFolder, Siblings
<1>5. Apart'
    BY <1>2, <1>4 DEF Apart, Siblings
<1> QED BY <1>2, <1>3, <1>5

\* Nothing but the names of the folders, and not their numbers, is new.
LEMMA NumbersKept ==
    ASSUME CallsGoForward, FoldersOfSteps, run' = run, DOMAIN folder' = DOMAIN folder,
           \A f \in DOMAIN folder : /\ folder'[f].up = folder[f].up
                                    /\ folder'[f].name.num = folder[f].name.num
    PROVE  /\ CallsGoForward' /\ Num' = Num
           /\ NumbersDiffer => NumbersDiffer'
           /\ \A p : InFolder(folder, p)' = InFolder(folder, p)
           /\ \A p \in DOMAIN folder : ReadAsRun(p, Num) => ReadAsRun(p, Num)'
<1>1. CallsGoForward'
    BY DEF CallsGoForward, Steps
<1>2. Num' = Num
    BY DEF Num
<1>3. \A p : InFolder(folder, p)' = InFolder(folder, p)
    BY DEF InFolder
<1>4. NumbersDiffer => NumbersDiffer'
    BY <1>2 DEF NumbersDiffer, Siblings
<1>5. \A p \in DOMAIN folder : ReadAsRun(p, Num) => ReadAsRun(p, Num)'
    BY <1>2, <1>3 DEF ReadAsRun, SideBySide, FamilyOf
<1> QED BY <1>1, <1>2, <1>3, <1>4, <1>5

LEMMA NextPassKeepsTreeInv == TreeInv /\ NextPass => TreeInv'
<1> SUFFICES ASSUME TreeInv, NextPass PROVE TreeInv'
    OBVIOUS
<1>1. /\ run' = run /\ folder' = folder /\ Steps' = Steps
      /\ CallsGoForward /\ FoldersOfSteps /\ Apart
    BY DEF TreeInv, NextPass, Steps
<1>2. CallsGoForward' /\ FoldersOfSteps' /\ Apart' /\ Num' = Num
    BY <1>1 DEF CallsGoForward, FoldersOfSteps, Apart, Siblings, Num, Names
<1>3. NumbersDiffer /\ \A p \in DOMAIN folder : ReadAsRun(p, Num)
  <2>1. CASE pc = "renumber"
    <3>1. NumbersDue /\ Reached /\ todo = <<>>
      BY <2>1 DEF TreeInv, NextPass
    <3>2. \A f : ~Awaited(f)
      BY <3>1 DEF Awaited
    <3>3. Due = Num
      BY <3>2 DEF Due, Num
    <3>4. PICK untouched \in SUBSET DOMAIN folder :
             /\ Beneath(untouched)
             /\ \A p \in DOMAIN folder \ untouched : ~Awaited(p) => ReadAsRun(p, Due)
      BY <3>1 DEF Reached
    <3>5. untouched = {}
      <4> SUFFICES ASSUME untouched # {} PROVE FALSE
        OBVIOUS
      <4>1. untouched \subseteq Nat
        BY <1>1, StepsAreNumbers
      <4>2. PICK f \in untouched : \A g \in untouched : f <= g
        BY <4>1, LeastNumber
      <4>3. run.parent[f] \in untouched
        BY <3>2, <3>4 DEF Beneath
      <4>4. run.parent[f] < f /\ run.parent[f] \in Nat /\ f \in Nat
        BY <1>1, StepsAreNumbers
      <4> QED BY <4>2, <4>3, <4>4
    <3> QED BY <3>1, <3>2, <3>3, <3>4, <3>5 DEF NumbersDue, NumbersDiffer
  <2>2. CASE pc # "renumber"
    <3>1. pc \in Renumbered
      BY <2>2 DEF NextPass, Renumbered
    <3> QED BY <3>1 DEF TreeInv
  <2> QED BY <2>1, <2>2
<1>4. NumbersDiffer' /\ \A p \in DOMAIN folder' : ReadAsRun(p, Num)'
    BY <1>1, <1>3, NumbersKept
<1>5. pc' \in {"strip", "hoist"} => Visits'
  <2>1. Root \in Steps
    BY <1>1, StepsAreNumbers
  <2>2. CASE pc' = "strip"
    <3>1. todo' = <<Do("strip", Root, 0)>>
      BY <2>2 DEF NextPass, Start
    <3> QED BY <1>1, <2>1, <3>1 DEF Visits, Do
  <2>3. CASE pc' = "hoist"
    <3>1. todo' = <<Do("hoist", Root, 0)>>
      BY <2>3 DEF NextPass, Start
    <3> QED BY <1>1, <2>1, <3>1 DEF Visits, Do
  <2> QED BY <2>2, <2>3
<1>6. pc' \in Renumbered /\ pc' \notin {"simplify", "list", "prune", "renumber"}
    BY DEF NextPass, Renumbered
<1> QED BY <1>2, <1>4, <1>5, <1>6 DEF TreeInv

LEMMA LinkKeepsTreeInv == TreeInv /\ Link => TreeInv'
<1> SUFFICES ASSUME TreeInv, Link PROVE TreeInv'
    OBVIOUS
<1>1. run' = run /\ folder' = folder /\ pc = "link" /\ pc' = "done"
    BY DEF Link
<1>2. /\ CallsGoForward /\ FoldersOfSteps /\ Apart
      /\ NumbersDiffer /\ \A p \in DOMAIN folder : ReadAsRun(p, Num)
    BY <1>1 DEF TreeInv, Renumbered
<1>3. FoldersOfSteps' /\ Apart'
    BY <1>1, <1>2 DEF FoldersOfSteps, Names, Steps, Apart, Siblings
<1>4. CallsGoForward' /\ NumbersDiffer' /\ \A p \in DOMAIN folder' : ReadAsRun(p, Num)'
    BY <1>1, <1>2, NumbersKept
<1> QED BY <1>1, <1>3, <1>4 DEF TreeInv, Renumbered

LEMMA ListedApart ==
    ASSUME CallsGoForward, FoldersOfSteps, NumbersDiffer, NEW p
    PROVE  StepFolders(p) \in [1 .. Cardinality(InFolder(folder, p)) -> InFolder(folder, p)]
<1>1. \A f, g \in InFolder(folder, p) : f # g => Num[f] # Num[g]
    BY KidsAreFinite DEF NumbersDiffer, Siblings
<1> QED BY <1>1, ListedByNumbers

LEMMA StripKeepsTreeInv == TreeInv /\ Strip => TreeInv'
<1> SUFFICES ASSUME TreeInv, Strip PROVE TreeInv'
    OBVIOUS
<1> PICK f : f = Head(todo).folder
    OBVIOUS
<1> DEFINE kids == StepFolders(f)
           next == [i \in DOMAIN kids |-> Do("strip", kids[i], 0)]
<1>1. /\ CallsGoForward /\ FoldersOfSteps /\ Apart /\ Visits
      /\ NumbersDiffer /\ \A p \in DOMAIN folder : ReadAsRun(p, Num)
      /\ run' = run /\ Steps' = Steps /\ pc' = "strip"
    BY DEF TreeInv, Strip, Renumbered, Steps
<1>2. /\ todo # <<>> /\ todo' = next \o Tail(todo)
      /\ IF f = Root \/ Exists(folder, folder[f].up, Stripped(f))
         THEN UNCHANGED <<folder, placed>>
         ELSE Move(f, Stripped(f))
    BY DEF Strip
<1>3. FoldersOfSteps' /\ Apart' /\ DOMAIN folder' = DOMAIN folder
      /\ \A g \in DOMAIN folder : /\ folder'[g].up = folder[g].up
                                  /\ folder'[g].name.num = folder[g].name.num
  <2>1. CASE folder' = folder
    BY <1>1, <2>1 DEF FoldersOfSteps, Names, Apart, Siblings
  <2>2. CASE f \in DOMAIN folder /\ folder' # folder
    <3>1. Move(f, Stripped(f)) /\ ~Exists(folder, folder[f].up, Stripped(f))
      BY <1>2, <2>2
    <3>2. Stripped(f) \in Names(f) /\ Stripped(f).num = folder[f].name.num
      <4>1. folder[f].name \in Names(f)
        BY <1>1, <2>2, StepsAreNumbers
      <4> QED BY <4>1 DEF Stripped, Names
    <3>3. /\ FoldersOfSteps' /\ Apart' /\ DOMAIN folder' = DOMAIN folder
          /\ folder'[f].name = Stripped(f)
          /\ \A g \in DOMAIN folder : /\ folder'[g].up = folder[g].up
                                      /\ g # f => folder'[g] = folder[g]
      BY <1>1, <2>2, <3>1, <3>2, MovedToFreeName
    <3> QED BY <3>2, <3>3
  <2>3. CASE f \notin DOMAIN folder
    <3>1. DOMAIN folder' = DOMAIN folder /\ \A g \in DOMAIN folder : folder'[g] = folder[g]
      BY <1>2, <2>3 DEF Move, Moved
    <3>2. \A g \in DOMAIN folder : Names(g)' = Names(g)
      BY <1>1 DEF Names
    <3> QED BY <1>1, <3>1, <3>2 DEF FoldersOfSteps, Apart, Siblings
  <2> QED BY <2>1, <2>2, <2>3
<1>4. CallsGoForward' /\ NumbersDiffer' /\ \A p \in DOMAIN folder' : ReadAsRun(p, Num)'
    BY <1>1, <1>3, NumbersKept
<1>5. Visits'
  <2>1. next \in Seq([op : {"strip", "hoist"}, folder : Steps, num : Nat])
    <3>1. kids \in [1 .. Cardinality(InFolder(folder, f)) -> InFolder(folder, f)]
      BY <1>1, ListedApart
    <3>2. InFolder(folder, f) \subseteq Steps /\ Cardinality(InFolder(folder, f)) \in Nat
      BY <1>1, KidsAreFinite DEF FoldersOfSteps
    <3>3. \A g \in Steps : \A op \in {"strip", "hoist"} :
             Do(op, g, 0) \in [op : {"strip", "hoist"}, folder : Steps, num : Nat]
      BY DEF Do
    <3> HIDE DEF kids
    <3>4. /\ DOMAIN next = 1 .. Cardinality(InFolder(folder, f))
          /\ \A i \in DOMAIN next : next[i] \in [op : {"strip", "hoist"}, folder : Steps, num : Nat]
      BY <3>1, <3>2, <3>3
    <3>5. next \in [1 .. Cardinality(InFolder(folder, f))
                     -> [op : {"strip", "hoist"}, folder : Steps, num : Nat]]
      BY <3>4
    <3> HIDE DEF next
    <3> QED BY <3>2, <3>5, ListsAreSequences
  <2>2. Tail(todo) \in Seq([op : {"strip", "hoist"}, folder : Steps, num : Nat])
    BY <1>1, <1>2 DEF Visits
  <2> HIDE DEF next
  <2> QED BY <1>1, <1>2, <2>1, <2>2 DEF Visits
<1> QED BY <1>1, <1>3, <1>4, <1>5 DEF TreeInv, Renumbered

LEMMA HoistKeepsTreeInv == TreeInv /\ Hoist => TreeInv'
<1> SUFFICES ASSUME TreeInv, Hoist PROVE TreeInv'
    OBVIOUS
<1> PICK f : f = Head(todo).folder
    OBVIOUS
<1> DEFINE kids == StepFolders(f)
           next == [i \in DOMAIN kids |-> Do("hoist", kids[i], 0)]
<1>1. /\ CallsGoForward /\ FoldersOfSteps /\ Apart /\ Visits
      /\ NumbersDiffer /\ \A p \in DOMAIN folder : ReadAsRun(p, Num)
      /\ run' = run /\ Steps' = Steps /\ pc' = "hoist" /\ todo # <<>>
    BY DEF TreeInv, Hoist, Renumbered, Steps
<1>2. /\ f \in Steps
      /\ Tail(todo) \in Seq([op : {"strip", "hoist"}, folder : Steps, num : Nat])
  <2>1. Head(todo) \in [op : {"strip", "hoist"}, folder : Steps, num : Nat]
    BY <1>1, HeadTailProperties DEF Visits
  <2> QED BY <1>1, <2>1, HeadTailProperties DEF Visits
<1>3. CASE Lone(f) = {}
  <2>1. folder' = folder /\ todo' = next \o Tail(todo)
    BY <1>3 DEF Hoist
  <2>2. FoldersOfSteps' /\ Apart'
    BY <1>1, <2>1 DEF FoldersOfSteps, Names, Apart, Siblings
  <2>3. CallsGoForward' /\ NumbersDiffer' /\ \A p \in DOMAIN folder' : ReadAsRun(p, Num)'
    BY <1>1, <2>1, NumbersKept
  <2>4. next \in Seq([op : {"strip", "hoist"}, folder : Steps, num : Nat])
    <3>1. kids \in [1 .. Cardinality(InFolder(folder, f)) -> InFolder(folder, f)]
      BY <1>1, ListedApart
    <3>2. InFolder(folder, f) \subseteq Steps /\ Cardinality(InFolder(folder, f)) \in Nat
      BY <1>1, KidsAreFinite DEF FoldersOfSteps
    <3>3. \A g \in Steps : \A op \in {"strip", "hoist"} :
             Do(op, g, 0) \in [op : {"strip", "hoist"}, folder : Steps, num : Nat]
      BY DEF Do
    <3> HIDE DEF kids
    <3>4. /\ DOMAIN next = 1 .. Cardinality(InFolder(folder, f))
          /\ \A i \in DOMAIN next : next[i] \in [op : {"strip", "hoist"}, folder : Steps, num : Nat]
      BY <3>1, <3>2, <3>3
    <3>5. next \in [1 .. Cardinality(InFolder(folder, f))
                     -> [op : {"strip", "hoist"}, folder : Steps, num : Nat]]
      BY <3>4
    <3> HIDE DEF next
    <3> QED BY <3>2, <3>5, ListsAreSequences
  <2>5. Visits'
    <3> HIDE DEF next
    <3> QED BY <1>1, <1>2, <2>1, <2>4 DEF Visits
  <2> QED BY <1>1, <2>2, <2>3, <2>5 DEF TreeInv, Renumbered
<1>4. CASE Lone(f) # {}
  <2>1. PICK g \in Lone(f) :
           /\ todo' = Tail(todo)
           /\ folder' = [h \in DOMAIN folder \ {g} |-> folder[h]]
    BY <1>4 DEF Hoist
  <2>2. g \in DOMAIN folder /\ run.parent[g] = f /\ InFolder(folder, f) = {g}
    BY <1>1, KidsAreFinite DEF Lone
  <2>3. g # Root
    BY <1>1, <1>2, <2>2, StepsAreNumbers DEF CallsGoForward, NoStep
  <2>4. /\ DOMAIN folder' = DOMAIN folder \ {g}
        /\ \A h \in DOMAIN folder' : folder'[h] = folder[h] /\ Num'[h] = Num[h]
    BY <2>1 DEF Num
  <2>5. FoldersOfSteps' /\ CallsGoForward'
    BY <1>1, <2>3, <2>4 DEF FoldersOfSteps, Names, CallsGoForward
  <2>6. Apart' /\ NumbersDiffer'
    BY <1>1, <2>4 DEF Apart, NumbersDiffer, Siblings
  <2>7. ASSUME NEW p \in DOMAIN folder'
        PROVE  ReadAsRun(p, Num)'
    <3>1. CASE p = f
      <4> PICK none : none = InFolder(folder, p)'
        OBVIOUS
      <4>1. none = {}
        BY <2>2, <2>4, <3>1 DEF InFolder
      <4>2. Cardinality(none) = 0
        BY <4>1, FS_EmptySet
      <4>3. {Num'[h] : h \in none} = {} /\ 1 .. 0 = {}
        BY <4>1
      <4> QED BY <4>1, <4>2, <4>3 DEF ReadAsRun
    <3>2. CASE p # f
      <4>1. InFolder(folder, p)' = InFolder(folder, p)
        BY <1>1, <2>2, <2>4, <3>2 DEF InFolder, FoldersOfSteps
      <4>2. \A h \in InFolder(folder, p) : Num'[h] = Num[h]
        <5>1. InFolder(folder, p)' \subseteq DOMAIN folder'
          BY DEF InFolder
        <5> QED BY <2>4, <4>1, <5>1
      <4>3. {Num'[h] : h \in InFolder(folder, p)} = {Num[h] : h \in InFolder(folder, p)}
        BY <4>2
      <4>4. ReadAsRun(p, Num)
        BY <1>1, <2>4
      <4> QED BY <1>1, <4>1, <4>2, <4>3, <4>4 DEF ReadAsRun, SideBySide, FamilyOf
    <3> QED BY <3>1, <3>2
  <2>8. Visits'
    BY <1>1, <1>2, <2>1 DEF Visits
  <2> QED BY <1>1, <2>5, <2>6, <2>7, <2>8 DEF TreeInv, Renumbered
<1> QED BY <1>3, <1>4

-----------------------------------------------------------------------------
(* The renumbering.                                                        *)

DueAsEntered ==
    /\ \A i \in DOMAIN todo : Due[todo[i].folder] = todo[i].num
    /\ \A f \in DOMAIN folder : ~Awaited(f) => Due[f] = Num[f]

\* Entries are for folders.
LEMMA EntriesOfFolders ==
    ASSUME Entries
    PROVE  /\ Len(todo) \in Nat /\ DOMAIN todo = 1 .. Len(todo)
           /\ \A i \in DOMAIN todo : /\ todo[i].op \in {"park", "renumber"}
                                     /\ todo[i].folder \in DOMAIN folder /\ todo[i].num \in Nat
<1> PICK E : E = [op : {"park", "renumber"}, folder : DOMAIN folder, num : Nat]
    OBVIOUS
<1>1. todo \in Seq(E)
    BY DEF Entries
<1>2. Len(todo) \in Nat /\ DOMAIN todo = 1 .. Len(todo)
    BY <1>1, LenProperties
<1>3. \A i \in DOMAIN todo : todo[i] \in E
    BY <1>1, <1>2, ElementOfSeq
<1>4. \A e \in E : e.op \in {"park", "renumber"} /\ e.folder \in DOMAIN folder /\ e.num \in Nat
    OBVIOUS
<1> QED BY <1>2, <1>3, <1>4

\* An awaited folder is to have the number of its entries.
LEMMA DueIsEntered == Entries => DueAsEntered
<1> SUFFICES ASSUME Entries PROVE DueAsEntered
    OBVIOUS
<1>1. ASSUME NEW i \in DOMAIN todo
      PROVE  Due[todo[i].folder] = todo[i].num
  <2> DEFINE j == CHOOSE j \in DOMAIN todo : todo[j].folder = todo[i].folder
  <2>1. j \in DOMAIN todo /\ todo[j].folder = todo[i].folder
    OBVIOUS
  <2>2. todo[i].folder \in DOMAIN folder
    BY EntriesOfFolders
  <2>3. Awaited(todo[i].folder)
    BY DEF Awaited
  <2>4. Due[todo[i].folder] = todo[j].num
    BY <2>2, <2>3 DEF Due
  <2> HIDE DEF j
  <2> QED BY <2>1, <2>4 DEF Entries
<1> QED BY <1>1 DEF DueAsEntered, Due

LEMMA DueIsEnteredNext == Entries' => DueAsEntered'
    BY DueIsEntered, PTL

\* What the entries say, of the first and of the others.
LEMMA FirstAndOthers ==
    ASSUME Entries, todo # <<>>
    PROVE  /\ 1 \in DOMAIN todo /\ Head(todo) = todo[1]
           /\ Tail(todo) \in Seq([op : {"park", "renumber"}, folder : DOMAIN folder, num : Nat])
           /\ Len(Tail(todo)) = Len(todo) - 1 /\ DOMAIN Tail(todo) = 1 .. Len(todo) - 1
           /\ \A i \in 1 .. Len(todo) - 1 : Tail(todo)[i] = todo[i + 1]
<1> PICK E : E = [op : {"park", "renumber"}, folder : DOMAIN folder, num : Nat]
    OBVIOUS
<1>1. todo \in Seq(E)
    BY DEF Entries
<1>2. /\ Tail(todo) \in Seq(E) /\ Len(Tail(todo)) = Len(todo) - 1
      /\ \A i \in 1 .. Len(Tail(todo)) : Tail(todo)[i] = todo[i + 1]
    BY <1>1, HeadTailProperties
<1>3. /\ Len(todo) \in Nat /\ DOMAIN todo = 1 .. Len(todo)
      /\ DOMAIN Tail(todo) = 1 .. Len(Tail(todo))
    BY <1>1, <1>2, LenProperties
<1>4. 1 \in DOMAIN todo /\ Head(todo) = todo[1]
    BY <1>1, <1>3, EmptySeq
<1> QED BY <1>2, <1>3, <1>4

LEMMA ParkKeepsTreeInv == TreeInv /\ Park => TreeInv'
<1> SUFFICES ASSUME TreeInv, Park PROVE TreeInv'
    OBVIOUS
<1> PICK f : f = Head(todo).folder
    OBVIOUS
<1> PICK num : num = Head(todo).num
    OBVIOUS
<1> DEFINE parked == [folder[f].name EXCEPT !.park = num]
<1>1. /\ CallsGoForward /\ FoldersOfSteps /\ Apart /\ Entries /\ NumbersDue /\ Reached
      /\ pc = "renumber" /\ pc' = "renumber" /\ run' = run /\ Steps' = Steps
    BY DEF TreeInv, Park, Steps
<1>2. /\ todo # <<>> /\ todo' = Tail(todo)
      /\ IF folder[f].name = Final(f, num) THEN UNCHANGED <<folder, placed>> ELSE Move(f, parked)
    BY DEF Park
<1>3. /\ Len(todo) \in Nat /\ DOMAIN todo = 1 .. Len(todo) /\ 1 \in DOMAIN todo
      /\ todo[1].op = "park" /\ todo[1].folder = f /\ todo[1].num = num
      /\ DOMAIN todo' = 1 .. Len(todo) - 1
      /\ \A i \in DOMAIN todo' : todo'[i] = todo[i + 1] /\ i + 1 \in DOMAIN todo
      /\ todo' \in Seq([op : {"park", "renumber"}, folder : DOMAIN folder, num : Nat])
    BY <1>1, <1>2, EntriesOfFolders, FirstAndOthers DEF Park
<1>4. \A i \in DOMAIN todo : i # 1 => i - 1 \in DOMAIN todo' /\ todo'[i - 1] = todo[i]
  <2> SUFFICES ASSUME NEW i \in DOMAIN todo, i # 1
               PROVE  i - 1 \in DOMAIN todo' /\ todo'[i - 1] = todo[i]
    OBVIOUS
  <2>1. i - 1 \in DOMAIN todo' /\ (i - 1) + 1 = i
    BY <1>3
  <2> QED BY <1>3, <2>1
<1>5. /\ f \in DOMAIN folder /\ f # Root /\ num \in Nat /\ num > 0
      /\ folder[f].name.park = 0 /\ folder[f].name \in Names(f)
      /\ \E j \in DOMAIN todo : j # 1 /\ todo[j].op = "renumber" /\ todo[j].folder = f
  <2>1. f \in DOMAIN folder /\ num \in Nat
    BY <1>1, <1>3, EntriesOfFolders
  <2>2. /\ f # Root /\ num > 0 /\ folder[f].name.park = 0
        /\ \E j \in DOMAIN todo : todo[j].op = "renumber" /\ todo[j].folder = f
    BY <1>1, <1>3 DEF Entries
  <2>3. folder[f].name \in Names(f)
    BY <1>1, <2>1, StepsAreNumbers
  <2>4. "park" # "renumber"
    OBVIOUS
  <2> QED BY <1>3, <2>1, <2>2, <2>3, <2>4
<1>6. Due[f] = num /\ DueAsEntered /\ Awaited(f)
    BY <1>1, <1>3, DueIsEntered DEF DueAsEntered, Awaited
<1>7. /\ FoldersOfSteps' /\ Apart' /\ DOMAIN folder' = DOMAIN folder
      /\ \/ folder'[f].name = folder[f].name /\ folder[f].name = Final(f, num)
         \/ folder'[f].name = parked
      /\ \A g \in DOMAIN folder : /\ folder'[g].up = folder[g].up
                                  /\ g # f => folder'[g] = folder[g]
  <2>1. CASE folder[f].name = Final(f, num)
    <3>1. folder' = folder
      BY <1>2, <2>1
    <3>2. \A g : Names(g)' = Names(g)
      BY <1>1 DEF Names
    <3> QED BY <1>1, <2>1, <3>1, <3>2 DEF FoldersOfSteps, Apart, Siblings
  <2>2. CASE folder[f].name # Final(f, num)
    <3>1. parked \in Names(f) /\ parked.park = num
      BY <1>5 DEF Names
    <3>2. ASSUME Exists(folder, folder[f].up, parked) PROVE FALSE
      <4>1. PICK g \in DOMAIN folder : folder[g].up = folder[f].up /\ folder[g].name = parked
        BY <3>2 DEF Exists, InFolder
      <4>2. Siblings(f, g) /\ folder[g].name.park = num
        <5> HIDE DEF parked
        <5>1. folder[g].name.park = num /\ num # 0 /\ g # f
          BY <1>5, <3>1, <4>1
        <5>2. folder[g].up = run.parent[g] /\ folder[f].up = run.parent[f]
          BY <1>1, <1>5, StepsAreNumbers
        <5> QED BY <4>1, <5>1, <5>2 DEF Siblings
      <4>3. Due[g] = num
        BY <1>1, <1>5, <4>2 DEF NumbersDue
      <4> QED BY <1>1, <1>5, <1>6, <4>2, <4>3 DEF NumbersDue
    <3>3. Move(f, parked)
      BY <1>2, <2>2
    <3> HIDE DEF parked
    <3> QED BY <1>1, <1>5, <3>1, <3>2, <3>3, MovedToFreeName
  <2> QED BY <2>1, <2>2
<1>8. /\ \A g : Names(g)' = Names(g)
      /\ \A g, h : Siblings(g, h)' <=> Siblings(g, h)
    BY <1>1 DEF Names, Siblings
<1>9. \A g \in DOMAIN folder : folder'[g].name.num = folder[g].name.num
    BY <1>5, <1>7 DEF Final, Names
<1>10. /\ CallsGoForward' /\ Num' = Num
       /\ \A p : InFolder(folder, p)' = InFolder(folder, p)
    BY <1>1, <1>7, <1>9, NumbersKept
<1>11. \A g : Awaited(g)' <=> Awaited(g)
  <2>1. ASSUME NEW g, Awaited(g) PROVE Awaited(g)'
    <3>1. PICK i \in DOMAIN todo : todo[i].folder = g
      BY <2>1 DEF Awaited
    <3>2. \E j \in DOMAIN todo : j # 1 /\ todo[j].folder = g
      BY <1>3, <1>5, <3>1
    <3> QED BY <1>4, <3>2 DEF Awaited
  <2> QED BY <1>3, <2>1 DEF Awaited
<1>12. \A i \in DOMAIN todo' : todo'[i].op = "park" => todo'[i].folder # f
  <2>1. \A i \in DOMAIN todo' : i + 1 # 1
    BY <1>3
  <2>2. \A i, j \in DOMAIN todo : todo[i].folder = todo[j].folder /\ todo[i].op = todo[j].op => i = j
    BY <1>1 DEF Entries
  <2> QED BY <1>3, <2>1, <2>2
<1>13. Entries'
  <2>1. ASSUME NEW i \in DOMAIN todo'
        PROVE  /\ todo'[i].folder # Root => todo'[i].num > 0
               /\ todo'[i].op = "park" =>
                     /\ todo'[i].folder # Root
                     /\ \E j \in DOMAIN todo' : todo'[j].op = "renumber" /\ todo'[j].folder = todo'[i].folder
                     /\ folder'[todo'[i].folder].name.park = 0
    <3>1. i + 1 \in DOMAIN todo /\ todo'[i] = todo[i + 1] /\ todo[i + 1].folder \in DOMAIN folder
      BY <1>1, <1>3, EntriesOfFolders
    <3>2. /\ todo[i + 1].folder # Root => todo[i + 1].num > 0
          /\ todo[i + 1].op = "park" =>
                /\ todo[i + 1].folder # Root
                /\ \E j \in DOMAIN todo : todo[j].op = "renumber" /\ todo[j].folder = todo[i + 1].folder
                /\ folder[todo[i + 1].folder].name.park = 0
      BY <1>1, <3>1 DEF Entries
    <3>3. todo[i + 1].op = "park" =>
             \E j \in DOMAIN todo' : todo'[j].op = "renumber" /\ todo'[j].folder = todo[i + 1].folder
      <4>1. \A j \in DOMAIN todo : todo[j].op = "renumber" => j # 1
        BY <1>3
      <4> QED BY <1>4, <3>2, <4>1
    <3> QED BY <1>7, <1>12, <3>1, <3>2, <3>3
  <2>2. ASSUME NEW i \in DOMAIN todo', NEW j \in DOMAIN todo'
        PROVE  /\ todo'[i].folder = todo'[j].folder => todo'[i].num = todo'[j].num
               /\ todo'[i].folder = todo'[j].folder /\ todo'[i].op = todo'[j].op => i = j
               /\ i < j /\ todo'[j].op = "park" => todo'[i].op = "park"
    <3>1. /\ i + 1 \in DOMAIN todo /\ todo'[i] = todo[i + 1]
          /\ j + 1 \in DOMAIN todo /\ todo'[j] = todo[j + 1]
          /\ i \in Nat /\ j \in Nat
      BY <1>3
    <3>2. i + 1 = j + 1 => i = j
      BY <3>1
    <3>3. i < j => i + 1 < j + 1
      BY <3>1
    <3> QED BY <1>1, <3>1, <3>2, <3>3 DEF Entries
  <2> QED BY <1>3, <1>7, <2>1, <2>2 DEF Entries
<1>14. \A g \in DOMAIN folder : Due'[g] = Due[g]
  <2> SUFFICES ASSUME NEW g \in DOMAIN folder PROVE Due'[g] = Due[g]
    OBVIOUS
  <2>1. DueAsEntered'
    BY <1>13, DueIsEnteredNext
  <2>2. CASE Awaited(g)
    <3>1. PICK i \in DOMAIN todo' : todo'[i].folder = g
      BY <1>11, <2>2 DEF Awaited
    <3>2. Due'[g] = todo'[i].num
      BY <2>1, <3>1 DEF DueAsEntered
    <3>3. Due[g] = todo[i + 1].num
      BY <1>3, <1>6, <3>1 DEF DueAsEntered
    <3> QED BY <1>3, <3>1, <3>2, <3>3
  <2>3. CASE ~Awaited(g)
    <3>1. Due'[g] = Num'[g]
      BY <1>7, <1>11, <2>1, <2>3 DEF DueAsEntered
    <3> QED BY <1>6, <1>10, <2>3, <3>1 DEF DueAsEntered
  <2> QED BY <2>2, <2>3
<1>15. \A g : Parking(g) /\ g # f => Parking(g)'
    BY <1>3, <1>4 DEF Parking
<1>16. NumbersDue'
  <2> SUFFICES ASSUME NEW g \in DOMAIN folder
               PROVE  /\ folder'[g].name.park # 0 => Awaited(g)' /\ folder'[g].name.park = Due'[g]
                      /\ Awaited(g)' /\ ~Parking(g)' =>
                            folder'[g].name = Final(g, Due[g])' \/ folder'[g].name.park = Due'[g]
                      /\ \A h \in DOMAIN folder : Siblings(g, h)' => Due'[g] # Due'[h]
    BY <1>7 DEF NumbersDue
  <2>1. \A h \in DOMAIN folder : Siblings(g, h)' => Due'[g] # Due'[h]
    BY <1>1, <1>8, <1>14 DEF NumbersDue
  <2>2. CASE g # f
    <3>1. folder'[g] = folder[g] /\ Due'[g] = Due[g] /\ (Awaited(g)' <=> Awaited(g))
      BY <1>7, <1>11, <1>14, <2>2
    <3>2. Final(g, Due[g])' = Final(g, Due[g])
      BY <3>1 DEF Final
    <3> QED BY <1>1, <1>15, <2>1, <2>2, <3>1, <3>2 DEF NumbersDue
  <2>3. CASE g = f
    <3>1. Due'[f] = num /\ Awaited(f)'
      BY <1>5, <1>6, <1>11, <1>14
    <3>2. CASE folder'[f].name = folder[f].name /\ folder[f].name = Final(f, num)
      <4>1. Final(f, Due[f])' = Final(f, num)
        BY <3>1, <3>2 DEF Final
      <4> QED BY <1>5, <2>1, <2>3, <3>1, <3>2, <4>1
    <3>3. CASE folder'[f].name = parked
      <4>1. folder'[f].name.park = num
        BY <1>5, <3>3 DEF Names
      <4> QED BY <2>1, <2>3, <3>1, <4>1
    <3> QED BY <1>7, <3>2, <3>3
  <2> QED BY <2>2, <2>3
<1>17. Reached'
  <2>1. PICK untouched \in SUBSET DOMAIN folder :
           /\ Beneath(untouched)
           /\ \A g \in untouched : ~Awaited(g) /\ AsCalled(g)
           /\ \A p \in DOMAIN folder \ untouched : ~Awaited(p) => ReadAsRun(p, Due)
    BY <1>1 DEF Reached
  <2>2. Beneath(untouched)'
    BY <1>1, <1>7, <1>11, <2>1 DEF Beneath
  <2>3. \A g \in untouched : ~Awaited(g)' /\ AsCalled(g)'
    <3> SUFFICES ASSUME NEW g \in untouched PROVE ~Awaited(g)' /\ AsCalled(g)'
      OBVIOUS
    <3>1. ~Awaited(g) /\ g # f /\ AsCalled(g)
      BY <1>6, <2>1
    <3>2. folder'[g] = folder[g]
      BY <1>7, <2>1, <3>1
    <3> QED BY <1>1, <1>7, <1>8, <1>10, <1>11, <3>1, <3>2 DEF AsCalled
  <2>4. ASSUME NEW p \in DOMAIN folder \ untouched, ~Awaited(p)'
        PROVE  ReadAsRun(p, Due)'
    <3>1. ReadAsRun(p, Due)
      BY <1>11, <2>1, <2>4
    <3>2. \A g \in InFolder(folder, p) : Due'[g] = Due[g]
      BY <1>14 DEF InFolder
    <3>3. {Due'[g] : g \in InFolder(folder, p)} = {Due[g] : g \in InFolder(folder, p)}
      BY <3>2
    <3> QED BY <1>1, <1>10, <3>1, <3>2, <3>3 DEF ReadAsRun, SideBySide, FamilyOf
  <2> QED BY <1>7, <2>1, <2>2, <2>3, <2>4 DEF Reached
<1> QED BY <1>1, <1>7, <1>10, <1>13, <1>16, <1>17 DEF TreeInv, Renumbered

\* What is done for the folders in a folder, before what was left to be done.
LEMMA LevelFirst ==
    ASSUME CallsGoForward, FoldersOfSteps, Entries, todo # <<>>, NEW f, pc # "simplify",
           \A g \in InFolder(folder, f) : AsCalled(g)
    PROVE  LET n == Cardinality(InFolder(folder, f))
               list == Ordered(f)
               next == Level(f) \o Tail(todo)
           IN /\ next \in Seq([op : {"park", "renumber"}, folder : DOMAIN folder, num : Nat])
              /\ DOMAIN next = 1 .. 2 * n + Len(todo) - 1
              /\ \A i \in 1 .. n : /\ next[i] = Do("park", list[i], i)
                                   /\ next[n + i] = Do("renumber", list[i], i)
              /\ \A i \in 2 .. Len(todo) : next[2 * n + i - 1] = todo[i]
<1> PICK E : E = [op : {"park", "renumber"}, folder : DOMAIN folder, num : Nat]
    OBVIOUS
<1> PICK kids : kids = InFolder(folder, f)
    OBVIOUS
<1> PICK n : n = Cardinality(kids)
    OBVIOUS
<1> PICK list : list = Ordered(f)
    OBVIOUS
<1> DEFINE parks == [i \in 1 .. n |-> Do("park", list[i], i)]
           renumbers == [i \in 1 .. n |-> Do("renumber", list[i], i)]
           rest == Tail(todo)
<1>1. /\ n \in Nat /\ kids \subseteq DOMAIN folder
      /\ list \in [1 .. n -> kids]
    BY KidsAreFinite, OrderedAsRead
<1>2. \A i \in 1 .. n : Do("park", list[i], i) \in E /\ Do("renumber", list[i], i) \in E
    BY <1>1 DEF Do
<1>3. parks \in [1 .. n -> E] /\ renumbers \in [1 .. n -> E]
    BY <1>2
<1>4. /\ \A i \in 1 .. n : /\ parks[i] = Do("park", list[i], i)
                           /\ renumbers[i] = Do("renumber", list[i], i)
      /\ Level(f) = parks \o renumbers
    BY <1>1 DEF Level
<1> HIDE DEF parks, renumbers
<1>5. /\ parks \in Seq(E) /\ Len(parks) = n
      /\ renumbers \in Seq(E) /\ Len(renumbers) = n
  <2>1. \A k \in Nat : \A s \in [1 .. k -> E] : s \in Seq(E) /\ Len(s) = k
    BY ListsAreSequences
  <2>2. \A s \in [1 .. n -> E] : s \in Seq(E) /\ Len(s) = n
    BY <1>1, <2>1
  <2> QED BY <1>3, <2>2
<1>6. /\ Level(f) \in Seq(E) /\ Len(Level(f)) = 2 * n
      /\ \A i \in 1 .. n + n : Level(f)[i] = IF i <= n THEN parks[i] ELSE renumbers[i - n]
  <2>1. /\ parks \o renumbers \in Seq(E)
        /\ Len(parks \o renumbers) = Len(parks) + Len(renumbers)
        /\ \A i \in 1 .. Len(parks) + Len(renumbers) :
              (parks \o renumbers)[i] = IF i <= Len(parks) THEN parks[i] ELSE renumbers[i - Len(parks)]
    BY <1>5, ConcatProperties, Zenon
  <2>2. n + n = 2 * n
    BY <1>1
  <2> QED BY <1>4, <1>5, <2>1, <2>2
<1>7. /\ rest \in Seq(E) /\ Len(rest) = Len(todo) - 1 /\ Len(todo) \in Nat \ {0}
      /\ \A i \in 1 .. Len(todo) - 1 : rest[i] = todo[i + 1]
    BY EntriesOfFolders, FirstAndOthers
<1> PICK next : next = Level(f) \o rest
    OBVIOUS
<1> HIDE DEF rest
<1>8. /\ next \in Seq(E) /\ Len(next) = 2 * n + Len(todo) - 1
      /\ \A i \in 1 .. 2 * n + (Len(todo) - 1) :
            next[i] = IF i <= 2 * n THEN Level(f)[i] ELSE rest[i - 2 * n]
  <2>1. /\ Level(f) \o rest \in Seq(E)
        /\ Len(Level(f) \o rest) = Len(Level(f)) + Len(rest)
        /\ \A i \in 1 .. Len(Level(f)) + Len(rest) :
              (Level(f) \o rest)[i] = IF i <= Len(Level(f)) THEN Level(f)[i] ELSE rest[i - Len(Level(f))]
    BY <1>6, <1>7, ConcatProperties
  <2> QED BY <1>1, <1>6, <1>7, <2>1
<1>9. DOMAIN next = 1 .. 2 * n + Len(todo) - 1
    BY <1>8, LenProperties
<1>10. ASSUME NEW i \in 1 .. n
       PROVE  next[i] = Do("park", list[i], i) /\ next[n + i] = Do("renumber", list[i], i)
  <2>1. /\ i \in 1 .. 2 * n + (Len(todo) - 1) /\ i <= 2 * n /\ i <= n /\ i \in 1 .. n + n
        /\ n + i \in 1 .. 2 * n + (Len(todo) - 1) /\ n + i <= 2 * n /\ ~(n + i <= n)
        /\ n + i \in 1 .. n + n /\ (n + i) - n = i
    BY <1>1, <1>7
  <2> QED BY <1>4, <1>6, <1>8, <2>1
<1>11. ASSUME NEW i \in 2 .. Len(todo)
       PROVE  next[2 * n + i - 1] = todo[i]
  <2>1. /\ 2 * n + i - 1 \in 1 .. 2 * n + (Len(todo) - 1) /\ ~(2 * n + i - 1 <= 2 * n)
        /\ (2 * n + i - 1) - 2 * n = i - 1
        /\ i - 1 \in 1 .. Len(todo) - 1 /\ (i - 1) + 1 = i
    BY <1>1, <1>7
  <2> QED BY <1>7, <1>8, <2>1
<1>12. \A i \in 1 .. n : /\ next[i] = Do("park", list[i], i)
                         /\ next[n + i] = Do("renumber", list[i], i)
    BY <1>10
<1>13. \A i \in 2 .. Len(todo) : next[2 * n + i - 1] = todo[i]
    BY <1>11
<1> QED BY <1>8, <1>9, <1>12, <1>13 DEF rest

LEMMA DoSays ==
    \A op, g, k : Do(op, g, k).op = op /\ Do(op, g, k).folder = g /\ Do(op, g, k).num = k
    BY DEF Do

LEMMA RenumberKeepsTreeInv == TreeInv /\ Renumber => TreeInv'
<1> SUFFICES ASSUME TreeInv, Renumber PROVE TreeInv'
    OBVIOUS
<1> PICK f : f = Head(todo).folder
    OBVIOUS
<1> PICK num : num = Head(todo).num
    OBVIOUS
<1> PICK kids : kids = InFolder(folder, f)
    OBVIOUS
<1> PICK n : n = Cardinality(kids)
    OBVIOUS
<1> PICK list : list = Ordered(f)
    OBVIOUS
<1> PICK rest : rest = Len(todo) - 1
    OBVIOUS
<1>1. /\ CallsGoForward /\ FoldersOfSteps /\ Apart /\ Entries /\ NumbersDue /\ Reached
      /\ pc = "renumber" /\ pc' = "renumber" /\ run' = run /\ Steps' = Steps
    BY DEF TreeInv, Renumber, Steps
<1>2. /\ todo # <<>> /\ todo' = Level(f) \o Tail(todo)
      /\ IF folder[f].name = Final(f, num) THEN UNCHANGED <<folder, placed>> ELSE Move(f, Final(f, num))
    BY DEF Renumber
<1>3. /\ Len(todo) \in Nat /\ rest \in Nat /\ DOMAIN todo = 1 .. rest + 1 /\ 1 \in DOMAIN todo
      /\ todo[1].op = "renumber" /\ todo[1].folder = f /\ todo[1].num = num
      /\ f \in DOMAIN folder /\ num \in Nat
    BY <1>1, <1>2, EntriesOfFolders, FirstAndOthers DEF Renumber
<1>4. \A i \in DOMAIN todo : todo[i].op = "renumber" /\ (todo[i].folder = f => i = 1)
  <2> SUFFICES ASSUME NEW i \in DOMAIN todo
               PROVE  todo[i].op = "renumber" /\ (todo[i].folder = f => i = 1)
    OBVIOUS
  <2>1. i = 1 \/ 1 < i
    BY <1>3
  <2>2. todo[i].op \in {"park", "renumber"} /\ "park" # "renumber"
    BY <1>1, EntriesOfFolders
  <2>3. todo[i].op = "renumber"
    BY <1>1, <1>3, <2>1, <2>2 DEF Entries
  <2> QED BY <1>1, <1>3, <2>3 DEF Entries
<1>5. PICK untouched \in SUBSET DOMAIN folder :
         /\ Beneath(untouched)
         /\ \A g \in untouched : ~Awaited(g) /\ AsCalled(g)
         /\ \A p \in DOMAIN folder \ untouched : ~Awaited(p) => ReadAsRun(p, Due)
    BY <1>1 DEF Reached
<1>6. Due[f] = num /\ DueAsEntered /\ Awaited(f) /\ f \notin untouched /\ \A g : ~Parking(g)
    BY <1>1, <1>3, <1>4, <1>5, DueIsEntered DEF DueAsEntered, Awaited, Parking
<1>7. /\ IsFiniteSet(kids) /\ n \in Nat
      /\ \A g \in DOMAIN folder : g \in kids <=> run.parent[g] = f
      /\ \A g \in kids : g \in DOMAIN folder /\ g # Root /\ g # f /\ run.parent[g] = f
      /\ f >= 1 /\ f \in Nat /\ Root \in DOMAIN folder
  <2>1. /\ IsFiniteSet(kids) /\ n \in Nat /\ f \in Nat /\ Root \in DOMAIN folder
        /\ \A g \in kids : g \in DOMAIN folder /\ run.parent[g] = f
    BY <1>1, <1>3, KidsAreFinite, StepsAreNumbers DEF FoldersOfSteps
  <2>2. f >= 1
    BY <1>1, <1>3, TreeAssumption DEF CallsGoForward, FoldersOfSteps
  <2>3. \A g \in DOMAIN folder : g \in kids <=> run.parent[g] = f
    BY <1>1, StepsAreNumbers DEF InFolder
  <2>4. \A g \in kids : g # Root /\ g # f
    BY <1>1, <2>1, <2>2, StepsAreNumbers DEF CallsGoForward, NoStep
  <2> QED BY <2>1, <2>2, <2>3, <2>4
<1>8. kids \subseteq untouched /\ \A g \in kids : AsCalled(g) /\ ~Awaited(g)
  <2>1. kids \subseteq untouched
    BY <1>5, <1>6, <1>7 DEF Beneath
  <2> QED BY <1>5, <2>1
<1>9. /\ list \in [1 .. n -> kids]
      /\ \A i, j \in 1 .. n : i < j =>
            /\ list[i] # list[j]
            /\ list[j] < list[i] =>
                  /\ FamilyOf(list[i]) = FamilyOf(list[j])
                  /\ SideBySide(kids, FamilyOf(list[i]))
                  /\ run.label[list[i]].index < run.label[list[j]].index
            /\ FamilyOf(list[i]) = FamilyOf(list[j])
               /\ SideBySide(kids, FamilyOf(list[i]))
               => run.label[list[i]].index <= run.label[list[j]].index
      /\ \A g \in kids : \E i \in 1 .. n : list[i] = g
    BY <1>1, <1>8, OrderedAsRead
<1>10. /\ \A i, j \in 1 .. n : list[i] = list[j] => i = j
       /\ \A i \in 1 .. n : list[i] \in kids
  <2>1. \A i \in 1 .. n : list[i] \in kids
    <3>1. list \in [1 .. n -> kids]
      BY <1>9
    <3> QED BY <3>1
  <2> SUFFICES ASSUME NEW i \in 1 .. n, NEW j \in 1 .. n, list[i] = list[j] PROVE i = j
    BY <2>1
  <2>2. ~(i < j) /\ ~(j < i)
    BY <1>9
  <2> QED BY <1>7, <2>2
<1>11. /\ todo' \in Seq([op : {"park", "renumber"}, folder : DOMAIN folder, num : Nat])
       /\ DOMAIN todo' = 1 .. 2 * n + rest
       /\ \A i \in 1 .. n : /\ todo'[i] = Do("park", list[i], i)
                            /\ todo'[n + i] = Do("renumber", list[i], i)
       /\ \A i \in 2 .. rest + 1 : todo'[2 * n + i - 1] = todo[i]
  <2>1. /\ todo' \in Seq([op : {"park", "renumber"}, folder : DOMAIN folder, num : Nat])
        /\ DOMAIN todo' = 1 .. 2 * n + Len(todo) - 1
        /\ \A i \in 1 .. n : /\ todo'[i] = Do("park", list[i], i)
                             /\ todo'[n + i] = Do("renumber", list[i], i)
        /\ \A i \in 2 .. Len(todo) : todo'[2 * n + i - 1] = todo[i]
    BY <1>1, <1>2, <1>8, LevelFirst
  <2>2. 2 * n + Len(todo) - 1 = 2 * n + rest /\ Len(todo) = rest + 1
    BY <1>3, <1>7
  <2> QED BY <2>1, <2>2
<1>12. ASSUME NEW i \in DOMAIN todo'
       PROVE  \/ /\ i \in 1 .. n
                 /\ todo'[i].op = "park" /\ todo'[i].folder = list[i] /\ todo'[i].num = i
              \/ /\ i - n \in 1 .. n /\ todo'[i].op = "renumber"
                 /\ todo'[i].folder = list[i - n] /\ todo'[i].num = i - n
              \/ /\ i > 2 * n /\ i - 2 * n + 1 \in DOMAIN todo /\ todo'[i] = todo[i - 2 * n + 1]
                 /\ todo'[i].op = "renumber" /\ todo'[i].folder \notin kids
                 /\ todo'[i].folder # f /\ todo'[i].folder \in DOMAIN folder
  <2>1. i \in 1 .. n \/ i - n \in 1 .. n \/ i - 2 * n + 1 \in 2 .. rest + 1
    <3>1. i \in 1 .. 2 * n + rest /\ n \in Nat /\ rest \in Nat
      BY <1>3, <1>7, <1>11
    <3> QED BY <3>1
  <2>2. CASE i \in 1 .. n
    <3>1. todo'[i] = Do("park", list[i], i)
      BY <1>11, <2>2
    <3> QED BY <2>2, <3>1, DoSays
  <2>3. CASE i - n \in 1 .. n
    <3>1. n + (i - n) = i
      BY <1>7, <1>11
    <3>2. todo'[i] = Do("renumber", list[i - n], i - n)
      BY <1>11, <2>3, <3>1
    <3> QED BY <2>3, <3>2, DoSays
  <2>4. CASE i - 2 * n + 1 \in 2 .. rest + 1
    <3> PICK k \in 2 .. rest + 1 : k = i - 2 * n + 1
      BY <2>4
    <3>1. /\ i = 2 * n + k - 1 /\ k \in DOMAIN todo /\ k # 1 /\ i > 2 * n
      <4>1. n \in Nat /\ rest \in Nat /\ i \in Int /\ DOMAIN todo = 1 .. rest + 1
        BY <1>3, <1>7, <1>11
      <4>2. k \in Int /\ 2 <= k /\ k <= rest + 1 /\ k = i - 2 * n + 1
        BY <4>1
      <4>3. i = 2 * n + k - 1
        BY <4>1, <4>2
      <4>4. i > 2 * n
        BY <4>1, <4>2
      <4>5. k \in 1 .. rest + 1 /\ k # 1
        BY <4>1, <4>2
      <4>6. k \in DOMAIN todo
        BY <4>1, <4>5, Zenon
      <4> QED BY <4>3, <4>4, <4>5, <4>6, Zenon
    <3>2. todo'[i] = todo[k]
      BY <1>11, <3>1
    <3>3. /\ todo[k].op = "renumber" /\ todo[k].folder # f
          /\ todo[k].folder \in DOMAIN folder /\ Awaited(todo[k].folder)
      BY <1>1, <1>4, <3>1, EntriesOfFolders DEF Awaited
    <3> QED BY <1>8, <3>1, <3>2, <3>3
  <2> QED BY <2>1, <2>2, <2>3, <2>4
<1>13. \A i \in DOMAIN todo : i # 1 =>
          i + 2 * n - 1 \in DOMAIN todo' /\ todo'[i + 2 * n - 1] = todo[i]
  <2> SUFFICES ASSUME NEW i \in DOMAIN todo, i # 1
               PROVE  i + 2 * n - 1 \in DOMAIN todo' /\ todo'[i + 2 * n - 1] = todo[i]
    OBVIOUS
  <2>1. i \in 2 .. rest + 1 /\ i + 2 * n - 1 = 2 * n + i - 1 /\ i + 2 * n - 1 \in 1 .. 2 * n + rest
    BY <1>3, <1>7
  <2> QED BY <1>11, <2>1
<1>14. \A i \in 1 .. n : /\ i \in DOMAIN todo' /\ n + i \in DOMAIN todo'
                         /\ todo'[i].op = "park" /\ todo'[i].folder = list[i] /\ todo'[i].num = i
                         /\ todo'[n + i].op = "renumber" /\ todo'[n + i].folder = list[i]
  <2> SUFFICES ASSUME NEW i \in 1 .. n
               PROVE  /\ i \in DOMAIN todo' /\ n + i \in DOMAIN todo'
                      /\ todo'[i].op = "park" /\ todo'[i].folder = list[i] /\ todo'[i].num = i
                      /\ todo'[n + i].op = "renumber" /\ todo'[n + i].folder = list[i]
    OBVIOUS
  <2>1. i \in DOMAIN todo' /\ n + i \in DOMAIN todo'
    <3>1. n \in Nat /\ rest \in Nat /\ DOMAIN todo' = 1 .. 2 * n + rest
      BY <1>3, <1>7, <1>11
    <3> QED BY <3>1
  <2>2. todo'[i] = Do("park", list[i], i) /\ todo'[n + i] = Do("renumber", list[i], i)
    BY <1>11
  <2> QED BY <2>1, <2>2, DoSays
<1>15. /\ FoldersOfSteps' /\ Apart' /\ DOMAIN folder' = DOMAIN folder
       /\ folder'[f].name = Final(f, num)
       /\ \A g \in DOMAIN folder : /\ folder'[g].up = folder[g].up
                                   /\ g # f => folder'[g] = folder[g]
  <2>1. CASE folder[f].name = Final(f, num)
    <3>1. folder' = folder
      BY <1>2, <2>1
    <3>2. \A g : Names(g)' = Names(g)
      BY <1>1 DEF Names
    <3> QED BY <1>1, <2>1, <3>1, <3>2 DEF FoldersOfSteps, Apart, Siblings
  <2>2. CASE folder[f].name # Final(f, num)
    <3> PICK final : final = Final(f, num)
      OBVIOUS
    <3>1. final \in Names(f) /\ final.park = 0 /\ final.num = num
      <4>1. folder[f].name \in Names(f)
        BY <1>1, <1>3, StepsAreNumbers
      <4> QED BY <1>3, <4>1 DEF Final, Names
    <3>2. ASSUME Exists(folder, folder[f].up, final) PROVE FALSE
      <4>1. PICK g \in DOMAIN folder : folder[g].up = folder[f].up /\ folder[g].name = final
        BY <3>2 DEF Exists, InFolder
      <4>2. Siblings(f, g) /\ Siblings(g, f)
        <5>1. folder[g].up = run.parent[g] /\ folder[f].up = run.parent[f]
          BY <1>1, <1>3, StepsAreNumbers
        <5> QED BY <2>2, <4>1, <5>1 DEF Siblings
      <4>3. Due[g] # num /\ g # Root
        BY <1>1, <1>3, <1>6, <4>2, RootIsAlone DEF NumbersDue, FoldersOfSteps
      <4>4. CASE ~Awaited(g)
        BY <1>6, <3>1, <4>1, <4>3, <4>4 DEF DueAsEntered, Num
      <4>5. CASE Awaited(g)
        <5>1. PICK i \in DOMAIN todo : todo[i].folder = g
          BY <4>5 DEF Awaited
        <5>2. Due[g] = todo[i].num /\ Due[g] > 0 /\ Due[g] \in Nat
          BY <1>1, <1>6, <4>3, <5>1, EntriesOfFolders DEF DueAsEntered, Entries
        <5>3. folder[g].name = Final(g, Due[g]) \/ folder[g].name.park = Due[g]
          BY <1>1, <1>6, <4>1, <4>5 DEF NumbersDue
        <5>4. Final(g, Due[g]).num = Due[g]
          <6>1. folder[g].name \in Names(g)
            BY <1>1, <4>1, StepsAreNumbers
          <6> QED BY <6>1 DEF Final, Names
        <5> QED BY <3>1, <4>1, <4>3, <5>2, <5>3, <5>4
      <4> QED BY <4>4, <4>5
    <3>3. Move(f, final)
      BY <1>2, <2>2
    <3> QED BY <1>1, <1>3, <3>1, <3>2, <3>3, MovedToFreeName
  <2> QED BY <2>1, <2>2
<1>16. /\ folder'[f].name.park = 0 /\ Num'[f] = num
       /\ \A g \in DOMAIN folder : g # f => Num'[g] = Num[g]
  <2>1. Final(f, num).park = 0 /\ Final(f, num).num = num
    <3>1. folder[f].name \in Names(f)
      BY <1>1, <1>3, StepsAreNumbers
    <3> QED BY <3>1 DEF Final, Names
  <2> QED BY <1>3, <1>15, <2>1 DEF Num
<1>17. /\ CallsGoForward'
       /\ \A p : InFolder(folder, p)' = InFolder(folder, p)
       /\ \A g, h : Siblings(g, h)' <=> Siblings(g, h)
  <2>1. CallsGoForward'
    BY <1>1 DEF CallsGoForward
  <2>2. \A p : InFolder(folder, p)' = InFolder(folder, p)
    BY <1>15 DEF InFolder
  <2>3. \A g, h : Siblings(g, h)' <=> Siblings(g, h)
    BY <1>1 DEF Siblings
  <2> QED BY <2>1, <2>2, <2>3
<1>18. \A g : Awaited(g)' <=> g \in kids \/ (g # f /\ Awaited(g))
  <2>1. ASSUME NEW g, Awaited(g)' PROVE g \in kids \/ (g # f /\ Awaited(g))
    <3>1. PICK i \in DOMAIN todo' : todo'[i].folder = g
      BY <2>1 DEF Awaited
    <3>2. CASE i \in 1 .. n
      <4>1. todo'[i].folder = list[i] /\ list[i] \in kids
        BY <1>9, <1>14, <3>2
      <4> QED BY <3>1, <4>1
    <3>3. CASE i - n \in 1 .. n
      <4>1. n + (i - n) = i
        BY <1>7, <1>11
      <4>2. todo'[i].folder = list[i - n] /\ list[i - n] \in kids
        <5> PICK k \in 1 .. n : k = i - n
          BY <3>3
        <5>1. todo'[n + k].folder = list[k] /\ list[k] \in kids
          <6>1. list[k] \in kids
            BY <1>9
          <6>2. todo'[n + k].folder = list[k]
            BY <1>14, Zenon
          <6> QED BY <6>1, <6>2, Zenon
        <5> QED BY <4>1, <5>1
      <4> QED BY <3>1, <4>2
    <3>4. CASE i > 2 * n
      <4>1. i \notin 1 .. n /\ i - n \notin 1 .. n
        BY <1>7, <1>11, <3>4
      <4> QED BY <1>12, <3>1, <4>1 DEF Awaited
    <3> QED BY <1>12, <3>2, <3>3, <3>4
  <2>2. ASSUME NEW g, g \in kids PROVE Awaited(g)'
    BY <1>9, <1>14, <2>2 DEF Awaited
  <2>3. ASSUME NEW g, g # f, Awaited(g) PROVE Awaited(g)'
    <3>1. PICK i \in DOMAIN todo : todo[i].folder = g
      BY <2>3 DEF Awaited
    <3> QED BY <1>3, <1>13, <2>3, <3>1 DEF Awaited
  <2> QED BY <2>1, <2>2, <2>3
<1>19. \A i \in DOMAIN todo' : todo'[i].op = "park" <=> i \in 1 .. n
  <2> SUFFICES ASSUME NEW i \in DOMAIN todo' PROVE todo'[i].op = "park" <=> i \in 1 .. n
    OBVIOUS
  <2>1. i \in 1 .. n => todo'[i].op = "park"
    BY <1>14
  <2>2. i \notin 1 .. n => todo'[i].op = "renumber"
    BY <1>12
  <2>3. "park" # "renumber"
    OBVIOUS
  <2> QED BY <2>1, <2>2, <2>3
<1>20. Entries'
  <2>1. ASSUME NEW i \in DOMAIN todo'
        PROVE  /\ todo'[i].folder # Root => todo'[i].num > 0
               /\ todo'[i].op = "park" =>
                     /\ todo'[i].folder # Root
                     /\ \E j \in DOMAIN todo' : todo'[j].op = "renumber" /\ todo'[j].folder = todo'[i].folder
                     /\ folder'[todo'[i].folder].name.park = 0
    <3>1. CASE i \in 1 .. n
      <4>1. todo'[i].folder = list[i] /\ list[i] \in kids /\ todo'[i].num = i /\ i > 0
        <5>1. list[i] \in kids
          BY <1>10, <3>1
        <5>2. todo'[i].folder = list[i] /\ todo'[i].num = i
          BY <1>14, <3>1, Zenon
        <5>3. i > 0
          BY <1>7, <3>1
        <5> QED BY <5>1, <5>2, <5>3
      <4>2. folder'[list[i]].name.park = 0 /\ list[i] # Root
        BY <1>7, <1>8, <1>15, <4>1 DEF AsCalled
      <4>3. \E j \in DOMAIN todo' : todo'[j].op = "renumber" /\ todo'[j].folder = list[i]
        BY <1>14, <3>1
      <4> QED BY <4>1, <4>2, <4>3
    <3>2. CASE i \notin 1 .. n
      <4>1. todo'[i].op # "park"
        BY <1>19, <3>2
      <4>2. CASE i - n \in 1 .. n /\ todo'[i].num = i - n
        BY <4>1, <4>2
      <4>3. CASE i - 2 * n + 1 \in DOMAIN todo /\ todo'[i] = todo[i - 2 * n + 1]
        BY <1>1, <4>1, <4>3 DEF Entries
      <4> QED BY <1>12, <3>2, <4>2, <4>3
    <3> QED BY <3>1, <3>2
  <2>2. ASSUME NEW i \in DOMAIN todo', NEW j \in DOMAIN todo'
        PROVE  /\ todo'[i].folder = todo'[j].folder => todo'[i].num = todo'[j].num
               /\ todo'[i].folder = todo'[j].folder /\ todo'[i].op = todo'[j].op => i = j
               /\ i < j /\ todo'[j].op = "park" => todo'[i].op = "park"
    <3> DEFINE Turn(k) == IF k \in 1 .. n THEN k ELSE k - n
               OfKid(k) == /\ Turn(k) \in 1 .. n /\ todo'[k].folder = list[Turn(k)]
                           /\ todo'[k].num = Turn(k) /\ list[Turn(k)] \in kids
               OfOther(k) == /\ k \notin 1 .. n /\ k - 2 * n + 1 \in DOMAIN todo
                             /\ todo'[k] = todo[k - 2 * n + 1] /\ todo'[k].folder \notin kids
    <3>1. ASSUME NEW k \in DOMAIN todo' PROVE OfKid(k) \/ OfOther(k)
      <4>1. CASE k \in 1 .. n
        BY <1>9, <1>14, <4>1
      <4>2. CASE k \notin 1 .. n
        <5>1. CASE k - n \in 1 .. n /\ todo'[k].folder = list[k - n] /\ todo'[k].num = k - n
          <6>1. list[k - n] \in kids
            BY <1>10, <5>1
          <6>2. Turn(k) = k - n
            BY <4>2
          <6> QED BY <5>1, <6>1, <6>2
        <5>2. CASE /\ k - 2 * n + 1 \in DOMAIN todo /\ todo'[k] = todo[k - 2 * n + 1]
                   /\ todo'[k].folder \notin kids
          BY <4>2, <5>2
        <5> QED BY <1>12, <4>2, <5>1, <5>2
      <4> QED BY <4>1, <4>2
    <3>2. /\ n \in Nat /\ i \in Nat /\ j \in Nat
          /\ Turn(i) = Turn(j) /\ (i \in 1 .. n <=> j \in 1 .. n) => i = j
          /\ i - 2 * n + 1 = j - 2 * n + 1 => i = j
          /\ i < j /\ j \in 1 .. n => i \in 1 .. n
      <4>1. n \in Nat /\ rest \in Nat /\ i \in 1 .. 2 * n + rest /\ j \in 1 .. 2 * n + rest
        BY <1>3, <1>7, <1>11
      <4> QED BY <4>1
    <3>3. todo'[i].op = todo'[j].op => (i \in 1 .. n <=> j \in 1 .. n)
      BY <1>19
    <3> HIDE DEF Turn
    <3>4. CASE OfKid(i) /\ OfKid(j)
      BY <1>10, <1>19, <3>2, <3>3, <3>4
    <3>5. CASE OfOther(i) /\ OfOther(j)
      <4> PICK a \in DOMAIN todo : a = i - 2 * n + 1
        BY <3>5
      <4> PICK b \in DOMAIN todo : b = j - 2 * n + 1
        BY <3>5
      <4>1. todo'[i] = todo[a] /\ todo'[j] = todo[b] /\ (a = b => i = j)
        BY <3>2, <3>5
      <4>2. /\ todo[a].folder = todo[b].folder => todo[a].num = todo[b].num
            /\ todo[a].folder = todo[b].folder /\ todo[a].op = todo[b].op => a = b
        BY <1>1 DEF Entries
      <4>3. todo'[j].op # "park"
        BY <1>19, <3>5
      <4> QED BY <4>1, <4>2, <4>3
    <3>6. CASE OfKid(i) /\ OfOther(j)
      BY <1>19, <3>2, <3>6
    <3>7. CASE OfOther(i) /\ OfKid(j)
      BY <1>19, <3>2, <3>7
    <3> QED BY <3>1, <3>4, <3>5, <3>6, <3>7
  <2> QED BY <1>11, <1>15, <2>1, <2>2 DEF Entries
<1>21. /\ \A i \in 1 .. n : Due'[list[i]] = i
       /\ \A g \in DOMAIN folder : g \notin kids => Due'[g] = Due[g]
  <2>1. DueAsEntered'
    BY <1>20, DueIsEnteredNext
  <2>2. \A i \in 1 .. n : Due'[list[i]] = i
    BY <1>14, <2>1 DEF DueAsEntered
  <2>3. ASSUME NEW g \in DOMAIN folder, g \notin kids PROVE Due'[g] = Due[g]
    <3>1. CASE g # f /\ Awaited(g)
      <4>1. PICK i \in DOMAIN todo : todo[i].folder = g
        BY <3>1 DEF Awaited
      <4>2. Due[g] = todo[i].num
        BY <1>6, <4>1 DEF DueAsEntered
      <4>3. i + 2 * n - 1 \in DOMAIN todo' /\ todo'[i + 2 * n - 1] = todo[i]
        BY <1>3, <1>13, <3>1, <4>1
      <4> QED BY <2>1, <4>1, <4>2, <4>3 DEF DueAsEntered
    <3>2. CASE g = f \/ ~Awaited(g)
      <4>1. Due'[g] = Num'[g]
        BY <1>15, <1>18, <2>1, <2>3, <3>2 DEF DueAsEntered
      <4>2. CASE g = f
        BY <1>6, <1>16, <4>1, <4>2
      <4>3. CASE g # f
        BY <1>6, <1>16, <3>2, <4>1, <4>3 DEF DueAsEntered
      <4> QED BY <4>2, <4>3
    <3> QED BY <3>1, <3>2
  <2> QED BY <2>2, <2>3
<1>22. NumbersDue'
  <2> SUFFICES ASSUME NEW g \in DOMAIN folder
               PROVE  /\ folder'[g].name.park # 0 => Awaited(g)' /\ folder'[g].name.park = Due'[g]
                      /\ Awaited(g)' /\ ~Parking(g)' =>
                            folder'[g].name = Final(g, Due[g])' \/ folder'[g].name.park = Due'[g]
                      /\ \A h \in DOMAIN folder : Siblings(g, h)' => Due'[g] # Due'[h]
    BY <1>15 DEF NumbersDue
  <2>1. ASSUME NEW h \in DOMAIN folder, Siblings(g, h) PROVE Due'[g] # Due'[h]
    <3>1. CASE g \in kids
      <4>1. h \in kids /\ g # h
        BY <1>7, <2>1, <3>1 DEF Siblings
      <4>2. PICK i \in 1 .. n : list[i] = g
        BY <1>9, <3>1
      <4>3. PICK j \in 1 .. n : list[j] = h
        BY <1>9, <4>1
      <4>4. i # j /\ Due'[g] = i /\ Due'[h] = j
        BY <1>21, <4>1, <4>2, <4>3
      <4> QED BY <4>4
    <3>2. CASE g \notin kids
      <4>1. h \notin kids
        BY <1>7, <2>1, <3>2 DEF Siblings
      <4> QED BY <1>1, <1>21, <2>1, <3>2, <4>1 DEF NumbersDue
    <3> QED BY <3>1, <3>2
  <2>2. \A h \in DOMAIN folder : Siblings(g, h)' => Due'[g] # Due'[h]
    BY <1>17, <2>1
  <2>3. CASE g = f
    <3>1. f \notin kids
      BY <1>7
    <3> QED BY <1>16, <1>18, <2>2, <2>3, <3>1
  <2>4. CASE g \in kids
    <3>1. folder'[g].name.park = 0
      BY <1>7, <1>8, <1>15, <2>4 DEF AsCalled
    <3>2. Parking(g)'
      BY <1>9, <1>14, <2>4 DEF Parking
    <3> QED BY <2>2, <3>1, <3>2
  <2>5. CASE g # f /\ g \notin kids
    <3>1. folder'[g] = folder[g] /\ Due'[g] = Due[g] /\ (Awaited(g)' <=> Awaited(g))
      BY <1>15, <1>18, <1>21, <2>5
    <3>2. Final(g, Due[g])' = Final(g, Due[g])
      BY <3>1 DEF Final
    <3> QED BY <1>1, <1>6, <2>2, <3>1, <3>2 DEF NumbersDue
  <2> QED BY <2>3, <2>4, <2>5
<1>23. Reached'
  <2> PICK U : U = untouched \ kids
    OBVIOUS
  <2>1. Beneath(U)'
    <3> SUFFICES ASSUME NEW g \in DOMAIN folder
                 PROVE  g \in U <=> g # Root /\ (run.parent[g] \in U \/ Awaited(run.parent[g])')
      BY <1>1, <1>15 DEF Beneath
    <3> PICK p : p = run.parent[g]
      OBVIOUS
    <3>1. /\ g \in untouched <=> g # Root /\ (p \in untouched \/ Awaited(p))
          /\ Awaited(run.parent[g])' <=> p \in kids \/ (p # f /\ Awaited(p))
      <4>1. Awaited(run.parent[g])' <=> Awaited(p)'
        BY <1>1 DEF Awaited
      <4> QED BY <1>5, <1>18, <4>1 DEF Beneath
    <3>2. CASE g \in kids
      <4>1. run.parent[g] = f /\ f \notin kids /\ f \notin untouched
        BY <1>6, <1>7, <3>2
      <4> QED BY <3>1, <3>2, <4>1
    <3>3. CASE g \notin kids
      <4>1. run.parent[g] # f
        BY <1>7, <3>3
      <4> QED BY <1>8, <3>1, <3>3, <4>1
    <3> QED BY <3>2, <3>3
  <2>2. ASSUME NEW g \in U PROVE ~Awaited(g)' /\ AsCalled(g)'
    <3>1. g \in DOMAIN folder /\ g \in untouched /\ g \notin kids /\ g # f /\ ~Awaited(g) /\ AsCalled(g)
      BY <1>5, <1>6
    <3>2. ~Siblings(g, f)
      <4> SUFFICES ASSUME Siblings(g, f) PROVE FALSE
        OBVIOUS
      <4>1. f # Root
        BY <1>1, <3>1, RootIsAlone DEF FoldersOfSteps
      <4>2. f \in untouched
        BY <1>3, <1>5, <3>1, <4>1 DEF Beneath, Siblings
      <4> QED BY <1>6, <4>2
    <3>3. folder'[g] = folder[g] /\ Num'[g] = Num[g]
      BY <1>15, <1>16, <3>1
    <3>4. ASSUME NEW h \in DOMAIN folder, Siblings(g, h), g < h PROVE Num'[g] < Num'[h]
      <4>1. h # f
        BY <3>2, <3>4
      <4>2. Num[g] < Num[h]
        BY <3>1, <3>4 DEF AsCalled
      <4> QED BY <1>16, <3>3, <4>1, <4>2
    <3> QED BY <1>1, <1>15, <1>17, <1>18, <3>1, <3>3, <3>4 DEF AsCalled
  <2>3. ASSUME NEW p \in DOMAIN folder \ U, ~Awaited(p)'
        PROVE  ReadAsRun(p, Due)'
    <3>1. p \notin kids /\ p \notin untouched
      BY <1>18, <2>3
    <3>2. CASE p # f
      <4>1. ReadAsRun(p, Due)
        BY <1>5, <1>18, <2>3, <3>1, <3>2
      <4>2. \A g \in InFolder(folder, p) : Due'[g] = Due[g]
        <5>1. \A g \in InFolder(folder, p) : g \in DOMAIN folder /\ run.parent[g] = p
          BY <1>1, KidsAreFinite
        <5> QED BY <1>7, <1>21, <3>2, <5>1
      <4>3. {Due'[g] : g \in InFolder(folder, p)} = {Due[g] : g \in InFolder(folder, p)}
        BY <4>2
      <4> QED BY <1>1, <1>17, <4>1, <4>2, <4>3 DEF ReadAsRun, SideBySide, FamilyOf
    <3>3. CASE p = f
      <4>1. {Due'[g] : g \in kids} = 1 .. n
        <5>1. ASSUME NEW g \in kids PROVE Due'[g] \in 1 .. n
          <6>1. PICK i \in 1 .. n : list[i] = g
            BY <1>9
          <6> QED BY <1>21, <6>1
        <5>2. ASSUME NEW i \in 1 .. n PROVE \E g \in kids : Due'[g] = i
          <6>1. list[i] \in kids
            BY <1>10
          <6> QED BY <1>21, <6>1
        <5> QED BY <5>1, <5>2
      <4>2. ASSUME NEW g \in kids, NEW h \in kids, g < h
            PROVE  Due'[g] > Due'[h] <=> /\ FamilyOf(g) = FamilyOf(h)
                                         /\ SideBySide(kids, FamilyOf(g))
                                         /\ run.label[g].index > run.label[h].index
        <5>1. PICK i \in 1 .. n : list[i] = g
          BY <1>9
        <5>2. PICK j \in 1 .. n : list[j] = h
          BY <1>9
        <5>3. g \in DOMAIN folder /\ h \in DOMAIN folder
          BY <1>7
        <5>4. /\ run.label[g].index \in Nat /\ run.label[h].index \in Nat
              /\ g \in Nat /\ h \in Nat
          BY <1>1, <5>3, StepsAreNumbers
        <5>5. Due'[g] = i /\ Due'[h] = j /\ i # j
          BY <1>21, <4>2, <5>1, <5>2, <5>4
        <5>6. ASSUME j < i
              PROVE  /\ FamilyOf(g) = FamilyOf(h)
                     /\ SideBySide(kids, FamilyOf(g))
                     /\ run.label[g].index > run.label[h].index
          BY <1>9, <4>2, <5>1, <5>2, <5>4, <5>6
        <5>7. ASSUME i < j, FamilyOf(g) = FamilyOf(h), SideBySide(kids, FamilyOf(g))
              PROVE  ~(run.label[g].index > run.label[h].index)
          <6>1. FamilyOf(list[i]) = FamilyOf(list[j]) /\ SideBySide(kids, FamilyOf(list[i]))
            BY <5>1, <5>2, <5>7
          <6>2. run.label[list[i]].index <= run.label[list[j]].index
            BY <1>9, <5>7, <6>1
          <6> QED BY <5>1, <5>2, <5>4, <6>2
        <5>8. j < i \/ i < j
          BY <5>5
        <5> QED BY <5>5, <5>6, <5>7, <5>8
      <4>3. InFolder(folder, f)' = kids
        BY <1>17
      <4>4. \A g : FamilyOf(g)' = FamilyOf(g)
        BY <1>1 DEF FamilyOf
      <4>5. \A family : SideBySide(kids, family)' <=> SideBySide(kids, family)
        BY <4>4 DEF SideBySide
      <4> QED BY <1>1, <3>3, <4>1, <4>2, <4>3, <4>4, <4>5 DEF ReadAsRun, SideBySide
    <3> QED BY <3>2, <3>3
  <2> QED BY <1>15, <2>1, <2>2, <2>3 DEF Reached
<1> QED BY <1>1, <1>15, <1>17, <1>20, <1>22, <1>23 DEF TreeInv, Renumbered

-----------------------------------------------------------------------------
(* The theorems.                                                           *)

LEMMA StutterKeepsTreeInv == TreeInv /\ UNCHANGED treeVars => TreeInv'
<1> SUFFICES ASSUME TreeInv, UNCHANGED treeVars PROVE TreeInv'
    OBVIOUS
<1>1. run' = run /\ pc' = pc /\ todo' = todo /\ folder' = folder
    BY DEF treeVars
<1>2. /\ Steps' = Steps /\ Num' = Num /\ \A f : Awaited(f)' = Awaited(f)
      /\ \A f : Parking(f)' = Parking(f)
    BY <1>1 DEF Steps, Num, Awaited, Parking
<1>3. Due' = Due
    BY <1>1, <1>2 DEF Due
<1>4. CallsGoForward' = CallsGoForward /\ FoldersOfSteps' = FoldersOfSteps
    BY <1>1, <1>2 DEF CallsGoForward, FoldersOfSteps, Names
<1>5. Apart' = Apart /\ NumbersDiffer' = NumbersDiffer /\ \A f : AsCalled(f)' = AsCalled(f)
    BY <1>1, <1>2 DEF Apart, NumbersDiffer, AsCalled, Siblings
<1>6. Entries' = Entries /\ Visits' = Visits
    BY <1>1, <1>2 DEF Entries, Visits
<1>7. NumbersDue' = NumbersDue
    BY <1>1, <1>2, <1>3 DEF NumbersDue, Siblings, Final
<1>8. \A p : ReadAsRun(p, Num)' = ReadAsRun(p, Num) /\ ReadAsRun(p, Due)' = ReadAsRun(p, Due)
    BY <1>1, <1>2, <1>3 DEF ReadAsRun, InFolder, SideBySide, FamilyOf
<1>9. Reached' = Reached
    BY <1>1, <1>2, <1>5, <1>8 DEF Reached, Beneath
<1> QED BY <1>1, <1>2, <1>4, <1>5, <1>6, <1>7, <1>8, <1>9 DEF TreeInv

\* The invariant of the passes: while folders are renumbered, those still to be
\* renamed are to have numbers that no other folder in their folder has or is to
\* have, what lies beneath them is as AiiDA numbered it, and every other folder
\* reads as the run went (_simplify_folder_names to _link_duplicate_files).
THEOREM TreeInvHolds == TreeSpec => []TreeInv
<1>1. TreeInv /\ [TreeNext]_treeVars => TreeInv'
    BY SimplifyKeepsTreeInv, ListKeepsTreeInv, PruneKeepsTreeInv, ParkKeepsTreeInv,
       RenumberKeepsTreeInv, StripKeepsTreeInv, HoistKeepsTreeInv, NextPassKeepsTreeInv,
       LinkKeepsTreeInv, StutterKeepsTreeInv DEF TreeNext
<1> QED BY <1>1, InitEstablishesTreeInv, PTL DEF TreeSpec

\* Whatever is renamed, parked, stripped of its suffix or hoisted, a folder stays
\* in the folder it was in, and shares its name with no other one in it
\* (_renumber_step_folders, _move and the passes after it).
THEOREM FoldersStay == TreeSpec => []FoldersKeepTheirPlace
<1>1. TreeInv => FoldersKeepTheirPlace
  <2> SUFFICES ASSUME TreeInv, NEW f \in DOMAIN folder, NEW g \in DOMAIN folder
               PROVE  /\ folder[f].up = run.parent[f]
                      /\ f # g /\ folder[f].up = folder[g].up => folder[f].name # folder[g].name
    BY DEF FoldersKeepTheirPlace
  <2>1. folder[f].up = run.parent[f] /\ folder[g].up = run.parent[g]
    BY StepsAreNumbers DEF TreeInv
  <2> QED BY <2>1 DEF TreeInv, Apart, Siblings
<1> QED BY <1>1, TreeInvHolds, PTL

\* Once the folders are renumbered, those in each folder have the numbers from 1
\* on, in the order of the calls but for the members of a fan-out, steps of one
\* label and one class called one after the other, which are in the order of the
\* numbers in their labels (_renumber_step_folders, _display_order), and no later
\* pass changes it.
THEOREM FoldersRead == TreeSpec => []FoldersReadAsRun
<1>1. TreeInv => FoldersReadAsRun
  <2> SUFFICES ASSUME TreeInv, pc \in Renumbered, NEW p \in DOMAIN folder
               PROVE  LET kids == InFolder(folder, p)
                          N(f) == folder[f].name.num
                      IN /\ {N(f) : f \in kids} = 1 .. Cardinality(kids)
                         /\ \A f, g \in kids : f < g =>
                               (N(f) > N(g) <=> /\ FamilyOf(f) = FamilyOf(g)
                                                /\ SideBySide(kids, FamilyOf(f))
                                                /\ run.label[f].index > run.label[g].index)
    BY DEF FoldersReadAsRun
  <2>1. \A f \in InFolder(folder, p) : Num[f] = folder[f].name.num
    BY DEF InFolder, Num
  <2>2. {Num[f] : f \in InFolder(folder, p)} = {folder[f].name.num : f \in InFolder(folder, p)}
    BY <2>1
  <2>3. ReadAsRun(p, Num)
    BY DEF TreeInv
  <2> QED BY <2>1, <2>2, <2>3 DEF ReadAsRun
<1> QED BY <1>1, TreeInvHolds, PTL

-----------------------------------------------------------------------------
(* What happens to files: the run, the folders and the records.            *)

\* What the argument needs of the processes of a run and of its data node.
RunOfCalls ==
    /\ \A p \in Steps : run.kind[p] \in Kinds
    /\ \A p \in Steps \ {Root} : run.kind[run.parent[p]] = "workflow"
    /\ run.kind[Root] = "workflow"
    /\ \A p \in run.readers : p \in Steps /\ run.kind[p] # "workflow" /\ run.creator < p
    /\ run.creator # 0 => run.creator \in Steps /\ run.kind[run.creator] \in {"finished", "helper"}
    /\ \A p \in Steps : run.returns[p] # "no" => run.kind[p] = "workflow"
    /\ run.value \in {"json", "empty", "file"}

\* The passes from the pruning to the links, that run with a record of what was placed.
Listed == {"prune", "renumber", "strip", "hoist", "link"}

\* Every folder is in another, up to the root, which keeps its name.
Closed ==
    /\ \A f \in DOMAIN folder \ {Root} : run.parent[f] \in DOMAIN folder
    /\ folder[Root].name.park = 0 /\ folder[Root].name.num = 0
    /\ pc = "renumber" => \A i \in DOMAIN todo : todo[i].folder = Root => todo[i].num = 0
    /\ pc \in {"strip", "hoist"} => \A i \in DOMAIN todo : todo[i].folder \in DOMAIN folder

\* As AiiDA left it.
AsDumped ==
    /\ files = {f \in UNION {RawFiles(run, p) : p \in Steps} : pc = "list" => Kept(f)}
    /\ dirs = {p \in Steps : run.kind[p] \in {"finished", "failed"}} \X {"inputs", "outputs"}
    /\ placed = {}

\* The files of a calculation that have to survive.
Own(p) == {f \in RawFiles(run, p) :
             f.node = "own" /\ (f.content = "log" => run.kind[p] = "failed")}

\* A workflow has inputs only if a calculation was lifted into its folder.
Raised(f) == <<f, "inputs">> \in dirs /\ f \in Steps /\ run.kind[f] = "workflow"

\* A calculation with files that has no folder left was lifted into the one it was in.
HoistedOnly == \A p \in Steps \ DOMAIN folder : Own(p) # {} => Raised(run.parent[p])

\* A folder that a calculation was lifted into is not visited again.
Lifting ==
    /\ \A i, j \in DOMAIN todo : todo[i].folder = todo[j].folder => i = j
    /\ \E untouched \in SUBSET DOMAIN folder :
          /\ Beneath(untouched)
          /\ \A f \in untouched : ~Awaited(f)
          /\ \A f \in Steps : Raised(f) => ~Awaited(f) /\ f \notin untouched

\* No two files have one name, and files and directories are in folders there are.
Tidy ==
    /\ \A f, g \in files : SameName(f, g) => f = g
    /\ \A f \in files : /\ DOMAIN f = {"at", "dir", "entry", "node", "content", "to"}
                        /\ f.at \in DOMAIN folder /\ f.to = <<>>
    /\ \A d \in dirs : d = <<d[1], d[2]>> /\ d[1] \in DOMAIN folder

\* A record and the file that it is of.
Of(p, f) ==
    /\ p.path = PathOf(folder, f.at) /\ p.dir = f.dir /\ p.entry = f.entry
    /\ p.node = f.node /\ p.content = f.content

\* The program that made the value still has a folder, or is a calculation and was lifted.
HasFolder == run.creator # 0 /\ (run.creator \in DOMAIN folder \/ IsCalcJob(run.creator))

\* What the record of placed files (_PlacedFiles) names is there.
RecordsHaveFiles ==
    \A p \in placed : /\ DOMAIN p = {"path", "dir", "entry", "node", "content", "created"}
                      /\ \E f \in files : Of(p, f)

\* What was listed is in the record, under the place where it is now.
FilesHaveRecords == \A f \in files : f.node \in {"data", "source"} => \E p \in placed : Of(p, f)

\* What is recorded as made there is under the outputs of who made it.
MadeAtHome ==
    \A p \in placed : p.created /\ p.node = "data" =>
       /\ run.creator # 0 /\ p.dir = "outputs"
       /\ p.path = PathOf(folder, Home(run.creator)) /\ Home(run.creator) \in DOMAIN folder
       /\ run.creator \notin DOMAIN folder => Raised(run.parent[run.creator])

\* Who made the value has a record of it, as far as it has a folder: a helper
\* that lists nothing loses its own to the pruning.
MakerRecorded ==
    HasFolder /\ run.value # "empty" =>
       IF Lists(run.creator)
       THEN \E p \in placed : p.created /\ p.node = "data" /\ p.content = Content(FALSE)
       ELSE pc = "prune" /\ \A f \in files : f.at = run.creator => NonContent(f)

\* All the files of one value have one content, in one of the two ways to write it.
ValuesAlike ==
    \A f \in files : f.node = "data" =>
       run.value # "empty" /\ (f.content = "nested" \/ f.content = Content(FALSE))

\* A value that a calculation made or a workflow returns is listed as an output.
ValueWritten ==
    run.value # "empty"
    /\ ((run.creator # 0 /\ IsCalcJob(run.creator)) \/ \E p \in Steps : run.returns[p] # "no")
    => \E f \in files : f.node = "data" /\ f.dir = "outputs"

\* The record of placed files tells where every listed file is.
Recorded ==
    /\ RecordsHaveFiles /\ FilesHaveRecords
    /\ MadeAtHome /\ MakerRecorded
    /\ ValuesAlike /\ ValueWritten

\* The inductive invariant of the files, to go with TreeInv.
FilesInv ==
    /\ RunOfCalls
    /\ Closed
    /\ pc \in {"simplify", "list"} => AsDumped
    /\ OwnFilesStay /\ HoistedOnly
    /\ pc \in {"prune", "renumber", "strip"} => \A f \in Steps : ~Raised(f)
    /\ pc = "hoist" => Lifting
    /\ pc \in Listed => Tidy /\ Recorded
    /\ LinksResolve
    /\ ValuesSurvive

-----------------------------------------------------------------------------
(* Paths.                                                                  *)

\* A prefix, place by place.
LEMMA PrefixByPlaces ==
    ASSUME NEW S, NEW s \in Seq(S), NEW t \in Seq(S)
    PROVE  IsPrefix(s, t) <=> Len(s) <= Len(t) /\ \A i \in 1 .. Len(s) : s[i] = t[i]
<1>1. Len(s) \in Nat /\ Len(t) \in Nat
    BY LenProperties
<1>2. CASE ~(Len(s) <= Len(t))
    BY <1>2 DEF IsPrefix
<1>3. CASE Len(s) <= Len(t)
  <2> DEFINE u == SubSeq(s, 1, Len(s))
             v == SubSeq(t, 1, Len(s))
  <2>1. \A i \in 1 .. Len(s) : s[i] \in S
    BY ElementOfSeq
  <2>2. \A i \in 1 .. Len(s) : t[i] \in S
    BY <1>1, <1>3, ElementOfSeq
  <2>3. /\ u \in Seq(S) /\ Len(u) = Len(s) /\ \A i \in 1 .. Len(s) : u[i] = s[i]
    BY <2>1, <1>1, SubSeqFull
  <2>4. /\ v \in Seq(S) /\ Len(v) = Len(s) /\ \A i \in 1 .. Len(s) : v[i] = t[i]
    <3>1. /\ v \in Seq(S) /\ Len(v) = IF 1 <= Len(s) THEN Len(s) - 1 + 1 ELSE 0
          /\ \A i \in 1 .. Len(s) - 1 + 1 : v[i] = t[1 + i - 1]
      BY <2>2, <1>1, SubSeqProperties
    <3> HIDE DEF v
    <3> QED BY <3>1, <1>1
  <2> HIDE DEF u, v
  <2>5. u = v <=> \A i \in 1 .. Len(s) : s[i] = t[i]
    <3>1. u = v => \A i \in 1 .. Len(s) : s[i] = t[i]
      BY <2>3, <2>4
    <3>2. (\A i \in 1 .. Len(s) : s[i] = t[i]) => u = v
      BY <2>3, <2>4, SeqEqual
    <3> QED BY <3>1, <3>2
  <2> QED BY <1>3, <2>5 DEF IsPrefix, u, v
<1> QED BY <1>2, <1>3

\* What a moved path is, place by place.
IsRebased(new, path, source, target) ==
    /\ Len(new) = Len(target) + (Len(path) - Len(source))
    /\ \A i \in 1 .. Len(new) :
          new[i] = IF i <= Len(target) THEN target[i] ELSE path[i - Len(target) + Len(source)]

\* What Rebase makes of a path, place by place.
LEMMA RebasedByPlaces ==
    ASSUME NEW S, NEW path \in Seq(S), NEW source \in Seq(S), NEW target \in Seq(S),
           IsPrefix(source, path)
    PROVE  /\ Rebased(path, source, target) \in Seq(S)
           /\ IsRebased(Rebased(path, source, target), path, source, target)
<1> DEFINE rest == SubSeq(path, Len(source) + 1, Len(path))
<1>1. PICK new : new = Rebased(path, source, target)
    OBVIOUS
<1>2. /\ Len(path) \in Nat /\ Len(source) \in Nat /\ Len(target) \in Nat
      /\ Len(source) <= Len(path)
    BY LenProperties DEF IsPrefix
<1>3. new = target \o rest
    BY <1>1 DEF Rebased
<1>4. /\ rest \in Seq(S) /\ Len(rest) = Len(path) - Len(source)
      /\ \A i \in 1 .. Len(path) - Len(source) : rest[i] = path[i + Len(source)]
  <2>1. \A i \in Len(source) + 1 .. Len(path) : path[i] \in S
    BY <1>2, ElementOfSeq
  <2>2. Len(source) + 1 \in Int /\ Len(path) \in Int
    BY <1>2
  <2>3. /\ rest \in Seq(S)
        /\ Len(rest) = IF Len(source) + 1 <= Len(path) THEN Len(path) - (Len(source) + 1) + 1 ELSE 0
        /\ \A i \in 1 .. Len(path) - (Len(source) + 1) + 1 : rest[i] = path[Len(source) + 1 + i - 1]
    BY <2>1, <2>2, SubSeqProperties
  <2> HIDE DEF rest
  <2> QED BY <1>2, <2>3
<1> HIDE DEF rest
<1>5. /\ new \in Seq(S) /\ Len(new) = Len(target) + Len(rest)
      /\ \A i \in 1 .. Len(target) + Len(rest) :
            new[i] = IF i <= Len(target) THEN target[i] ELSE rest[i - Len(target)]
  <2>1. /\ target \o rest \in Seq(S) /\ Len(target \o rest) = Len(target) + Len(rest)
        /\ \A i \in 1 .. Len(target) + Len(rest) :
              (target \o rest)[i] = IF i <= Len(target) THEN target[i] ELSE rest[i - Len(target)]
    <3>1. rest \in Seq(S)
      BY <1>4
    <3> QED BY <3>1, ConcatProperties
  <2> QED BY <1>3, <2>1, Zenon
<1>6. ASSUME NEW i \in 1 .. Len(new)
      PROVE  new[i] = IF i <= Len(target) THEN target[i] ELSE path[i - Len(target) + Len(source)]
  <2>1. new[i] = IF i <= Len(target) THEN target[i] ELSE rest[i - Len(target)]
    BY <1>5
  <2>2. CASE i <= Len(target)
    BY <2>1, <2>2
  <2>3. CASE ~(i <= Len(target))
    <3>1. i - Len(target) \in 1 .. Len(path) - Len(source)
      BY <1>2, <1>4, <1>5, <2>3
    <3>2. rest[i - Len(target)] = path[i - Len(target) + Len(source)]
      BY <1>4, <3>1
    <3> QED BY <2>1, <2>3, <3>2
  <2> QED BY <2>2, <2>3
<1>7. new \in Seq(S) /\ IsRebased(new, path, source, target)
    BY <1>4, <1>5, <1>6 DEF IsRebased
<1> QED BY <1>1, <1>7

\* A path beneath a folder that is moved is moved as the path above it.
LEMMA MovedBeneath ==
    ASSUME NEW S, NEW path \in Seq(S), NEW source \in Seq(S), NEW target \in Seq(S),
           NEW name \in S, IsPrefix(source, path)
    PROVE  Rebased(Append(path, name), source, target) = Append(Rebased(path, source, target), name)
<1>1. PICK long : long = Append(path, name)
    OBVIOUS
<1>2. PICK new : new = Rebased(path, source, target)
    OBVIOUS
<1>3. PICK all : all = Rebased(long, source, target)
    OBVIOUS
<1>4. PICK added : added = Append(new, name)
    OBVIOUS
<1>5. /\ long \in Seq(S) /\ Len(long) = Len(path) + 1 /\ Len(path) \in Nat
      /\ \A i \in 1 .. Len(path) : long[i] = path[i]
      /\ long[Len(path) + 1] = name
    BY <1>1, AppendProperties, LenProperties
<1>6. /\ Len(source) \in Nat /\ Len(target) \in Nat /\ Len(source) <= Len(path)
      /\ \A i \in 1 .. Len(source) : source[i] = path[i]
    BY LenProperties, PrefixByPlaces
<1>7. IsPrefix(source, long)
  <2>1. \A i \in 1 .. Len(source) : source[i] = long[i]
    BY <1>5, <1>6
  <2>2. Len(source) <= Len(long)
    BY <1>5, <1>6
  <2> QED BY <1>5, <2>1, <2>2, PrefixByPlaces
<1>8. all \in Seq(S) /\ IsRebased(all, long, source, target)
  <2>1. long \in Seq(S)
    BY <1>5
  <2> QED BY <1>3, <1>7, <2>1, RebasedByPlaces
<1>9. new \in Seq(S) /\ IsRebased(new, path, source, target)
    BY <1>2, RebasedByPlaces
<1>10. /\ added \in Seq(S) /\ Len(added) = Len(new) + 1
       /\ \A i \in 1 .. Len(new) : added[i] = new[i]
       /\ added[Len(new) + 1] = name
  <2>1. new \in Seq(S)
    BY <1>9
  <2> QED BY <1>4, <2>1, AppendProperties
<1>11. /\ Len(all) = Len(added) /\ Len(new) \in Nat
       /\ Len(all) = Len(target) + (Len(long) - Len(source))
       /\ Len(new) = Len(target) + (Len(path) - Len(source))
  <2>1. /\ Len(all) = Len(target) + (Len(long) - Len(source))
        /\ Len(new) = Len(target) + (Len(path) - Len(source))
    BY <1>8, <1>9 DEF IsRebased
  <2> QED BY <1>5, <1>6, <1>10, <2>1
<1>12. ASSUME NEW i \in 1 .. Len(all)
       PROVE  all[i] = added[i]
  <2>1. all[i] = IF i <= Len(target) THEN target[i] ELSE long[i - Len(target) + Len(source)]
    BY <1>8 DEF IsRebased
  <2>2. i \in Nat /\ 1 <= i /\ i <= Len(target) + (Len(path) + 1 - Len(source))
    BY <1>5, <1>6, <1>11
  <2>3. Len(path) \in Nat /\ Len(source) \in Nat /\ Len(target) \in Nat /\ Len(source) <= Len(path)
    BY <1>5, <1>6
  <2>4. CASE i <= Len(new)
    <3>1. i \in 1 .. Len(new)
      BY <1>11, <2>2, <2>4
    <3>2. added[i] = IF i <= Len(target) THEN target[i] ELSE path[i - Len(target) + Len(source)]
      BY <1>9, <1>10, <3>1 DEF IsRebased
    <3>3. CASE i <= Len(target)
      BY <2>1, <3>2, <3>3
    <3>4. CASE ~(i <= Len(target))
      <4>1. i - Len(target) + Len(source) \in 1 .. Len(path)
        BY <1>11, <2>2, <2>3, <2>4, <3>4
      <4>2. long[i - Len(target) + Len(source)] = path[i - Len(target) + Len(source)]
        BY <1>5, <4>1
      <4> QED BY <2>1, <3>2, <3>4, <4>2
    <3> QED BY <3>3, <3>4
  <2>5. CASE ~(i <= Len(new))
    <3>1. i = Len(new) + 1 /\ i - Len(target) + Len(source) = Len(path) + 1 /\ ~(i <= Len(target))
      BY <1>11, <2>2, <2>3, <2>5
    <3>2. all[i] = long[i - Len(target) + Len(source)]
      BY <2>1, <3>1
    <3>3. all[i] = long[Len(path) + 1]
      BY <3>1, <3>2, Zenon
    <3>4. added[i] = name
      BY <1>10, <3>1, Zenon
    <3> QED BY <1>5, <3>3, <3>4
  <2> QED BY <2>4, <2>5
<1> QED BY <1>1, <1>2, <1>3, <1>4, <1>8, <1>10, <1>11, <1>12, SeqEqual

\* The folder that is moved has the new path.
LEMMA MovedItself ==
    ASSUME NEW S, NEW source \in Seq(S), NEW target \in Seq(S)
    PROVE  IsPrefix(source, source) /\ Rebased(source, source, target) = target
<1>1. Len(source) \in Nat /\ Len(target) \in Nat
    BY LenProperties
<1>2. IsPrefix(source, source)
    BY <1>1 DEF IsPrefix
<1> PICK new : new = Rebased(source, source, target)
    OBVIOUS
<1>3. new \in Seq(S) /\ IsRebased(new, source, source, target)
    BY <1>2, RebasedByPlaces
<1>4. Len(new) = Len(target)
    BY <1>1, <1>3 DEF IsRebased
<1>5. ASSUME NEW i \in 1 .. Len(new) PROVE new[i] = target[i]
  <2>1. new[i] = IF i <= Len(target) THEN target[i] ELSE source[i - Len(target) + Len(source)]
    BY <1>3 DEF IsRebased
  <2>2. i <= Len(target)
    BY <1>1, <1>4
  <2> QED BY <2>1, <2>2
<1> QED BY <1>2, <1>3, <1>4, <1>5, SeqEqual

\* A prefix of a path is the path or a prefix of the path above.
LEMMA PrefixOfAppended ==
    ASSUME NEW S, NEW s \in Seq(S), NEW t \in Seq(S), NEW e \in S
    PROVE  IsPrefix(s, Append(t, e)) <=> s = Append(t, e) \/ IsPrefix(s, t)
<1>1. PICK long : long = Append(t, e)
    OBVIOUS
<1>2. /\ long \in Seq(S) /\ Len(long) = Len(t) + 1
      /\ \A i \in 1 .. Len(t) : long[i] = t[i]
    BY <1>1, AppendProperties
<1>3. long \in Seq(S)
    BY <1>2
<1>4. Len(s) \in Nat /\ Len(t) \in Nat
    BY LenProperties
<1>5. ASSUME IsPrefix(s, t) PROVE IsPrefix(s, long)
  <2>1. Len(s) <= Len(t) /\ \A i \in 1 .. Len(s) : s[i] = t[i]
    BY <1>5, PrefixByPlaces
  <2>2. Len(s) <= Len(long)
    BY <1>2, <1>4, <2>1
  <2>3. \A i \in 1 .. Len(s) : s[i] = long[i]
    BY <1>2, <1>4, <2>1
  <2> QED BY <1>3, <2>2, <2>3, PrefixByPlaces
<1>6. ASSUME IsPrefix(s, long), s # long PROVE IsPrefix(s, t)
  <2>1. Len(s) <= Len(long) /\ \A i \in 1 .. Len(s) : s[i] = long[i]
    BY <1>3, <1>6, PrefixByPlaces
  <2>2. Len(s) # Len(long)
    BY <1>3, <1>6, <2>1, SeqEqual
  <2>3. Len(s) <= Len(t)
    BY <1>2, <1>4, <2>1, <2>2
  <2>4. \A i \in 1 .. Len(s) : s[i] = t[i]
    BY <1>2, <1>4, <2>1, <2>3
  <2> QED BY <2>3, <2>4, PrefixByPlaces
<1>7. IsPrefix(long, long)
    BY <1>3, MovedItself
<1> QED BY <1>1, <1>5, <1>6, <1>7

\* The names folders can have at any time, parked or not.
AnyName == [park : Nat, num : Nat, label : Labels,
            tail : {"", "WorkGraph", "PwCalculation"}, pk : Nat]

\* Folders, each in one that comes before it.
IsTree(tree) ==
    /\ Root \in DOMAIN tree /\ DOMAIN tree \subseteq 1 .. MaxSteps
    /\ \A f \in DOMAIN tree : tree[f] \in [up : Nat, name : AnyName] /\ tree[f].name \in AnyName
    /\ \A f \in DOMAIN tree \ {Root} :
          tree[f].up \in DOMAIN tree /\ tree[f].up \in Nat /\ f \in Nat /\ tree[f].up < f

\* A statement about every folder of a tree follows from that about those above.
LEMMA FromTheRoot ==
    ASSUME NEW tree, IsTree(tree), NEW U, Root \in U,
           \A f \in DOMAIN tree \ {Root} : tree[f].up \in U => f \in U
    PROVE  DOMAIN tree \subseteq U
<1> SUFFICES ASSUME DOMAIN tree \ U # {} PROVE FALSE
    OBVIOUS
<1>1. DOMAIN tree \ U \subseteq Nat
    BY TreeAssumption DEF IsTree
<1>2. PICK f \in DOMAIN tree \ U : \A g \in DOMAIN tree \ U : f <= g
    BY <1>1, LeastNumber
<1>3. f # Root /\ tree[f].up \in DOMAIN tree \ U
    BY DEF IsTree
<1>4. tree[f].up \in Nat /\ f \in Nat /\ tree[f].up < f
    BY <1>3 DEF IsTree
<1> QED BY <1>2, <1>3, <1>4

\* The path of a folder is that of the one it is in and its own name.
LEMMA PathsUnfold ==
    ASSUME NEW tree, IsTree(tree)
    PROVE  /\ PathOf(tree, Root) = <<>>
           /\ \A f \in DOMAIN tree \ {Root} :
                 PathOf(tree, f) = Append(PathOf(tree, tree[f].up), tree[f].name)
           /\ \A f \in DOMAIN tree : PathOf(tree, f) \in Seq(AnyName)
<1> DEFINE body(path, g) == IF g = Root THEN <<>> ELSE Append(path[tree[g].up], tree[g].name)
           UpTo(path, k) == \A g \in DOMAIN tree : g <= k => path[g] = body(path, g)
           Paths == [DOMAIN tree -> Seq(AnyName)]
           S == {k \in 0 .. MaxSteps : \E path \in Paths : UpTo(path, k)}
<1>1. DOMAIN tree \subseteq 1 .. MaxSteps /\ MaxSteps \in Nat /\ Root \in DOMAIN tree
    BY TreeAssumption DEF IsTree
<1>2. 0 \in S
  <2>1. [g \in DOMAIN tree |-> <<>>] \in Paths
    BY EmptySeq
  <2>2. UpTo([g \in DOMAIN tree |-> <<>>], 0)
    BY <1>1
  <2>3. 0 \in 0 .. MaxSteps
    BY <1>1
  <2> HIDE DEF UpTo, Paths
  <2> QED BY <2>1, <2>2, <2>3
<1>3. \A path \in Paths : \A g \in DOMAIN tree : body(path, g) \in Seq(AnyName)
  <2> SUFFICES ASSUME NEW path \in Paths, NEW g \in DOMAIN tree
               PROVE  body(path, g) \in Seq(AnyName)
    OBVIOUS
  <2>1. CASE g = Root
    BY <2>1, EmptySeq
  <2>2. CASE g # Root
    <3>1. path[tree[g].up] \in Seq(AnyName) /\ tree[g].name \in AnyName
      BY <2>2 DEF IsTree
    <3>2. Append(path[tree[g].up], tree[g].name) \in Seq(AnyName)
      BY <3>1, AppendProperties
    <3> QED BY <2>2, <3>2
  <2> QED BY <2>1, <2>2
<1>4. ASSUME NEW k \in 0 .. MaxSteps - 1, k \in S
      PROVE  k + 1 \in S
  <2>1. PICK path \in Paths : UpTo(path, k)
    BY <1>4
  <2> DEFINE more == [g \in DOMAIN tree |-> IF g = k + 1 THEN body(path, g) ELSE path[g]]
  <2>2. more \in Paths
    <3> HIDE DEF body
    <3> QED BY <1>3
  <2>3. ASSUME NEW g \in DOMAIN tree, g <= k + 1
        PROVE  more[g] = body(more, g)
    <3>1. g \in Nat /\ k \in Nat
      BY <1>1
    <3>2. body(more, g) = body(path, g)
      <4>1. CASE g = Root
        BY <4>1
      <4>2. CASE g # Root
        <5>1. tree[g].up \in DOMAIN tree /\ tree[g].up \in Nat /\ tree[g].up < g
          BY <4>2 DEF IsTree
        <5>2. more[tree[g].up] = path[tree[g].up]
          BY <2>3, <3>1, <5>1
        <5> HIDE DEF more
        <5> QED BY <4>2, <5>2
      <4> QED BY <4>1, <4>2
    <3>3. CASE g = k + 1
      <4>1. more[g] = body(path, g)
        BY <3>3
      <4> HIDE DEF more, body
      <4> QED BY <3>2, <4>1
    <3>4. CASE g # k + 1
      <4>1. g <= k
        BY <2>3, <3>1, <3>4
      <4>2. path[g] = body(path, g)
        BY <2>1, <4>1
      <4>3. more[g] = path[g]
        BY <3>4
      <4> HIDE DEF more, body
      <4> QED BY <3>2, <4>2, <4>3
    <3> QED BY <3>3, <3>4
  <2>4. UpTo(more, k + 1)
    BY <2>3
  <2>5. k + 1 \in 0 .. MaxSteps
    BY <1>1
  <2> HIDE DEF more, UpTo, Paths
  <2> QED BY <2>2, <2>4, <2>5
<1>5. PICK path \in Paths : UpTo(path, MaxSteps)
  <2> HIDE DEF S
  <2>1. \A k \in 0 .. MaxSteps : k \in S
    BY <1>1, <1>2, <1>4, Counting
  <2>2. MaxSteps \in S
    BY <1>1, <2>1
  <2> QED BY <2>2 DEF S
<1>6. \A g \in DOMAIN tree : path[g] = body(path, g)
    BY <1>1, <1>5
<1>7. \E all : all = [g \in DOMAIN tree |-> body(all, g)]
  <2>1. path = [g \in DOMAIN tree |-> body(path, g)]
    BY <1>6
  <2> QED BY <2>1
<1> DEFINE found == CHOOSE all : all = [g \in DOMAIN tree |-> body(all, g)]
<1>8. found = [g \in DOMAIN tree |-> body(found, g)]
    BY <1>7
<1>9. \A g : PathOf(tree, g) = found[g]
    BY DEF PathOf
<1> HIDE DEF found
<1>10. /\ found[Root] = <<>>
       /\ \A f \in DOMAIN tree \ {Root} : found[f] = Append(found[tree[f].up], tree[f].name)
    BY <1>1, <1>8
<1>11. \A f \in DOMAIN tree : found[f] \in Seq(AnyName)
  <2> DEFINE U == {f \in DOMAIN tree : found[f] \in Seq(AnyName)}
  <2>1. Root \in U
    BY <1>1, <1>10, EmptySeq
  <2>2. ASSUME NEW f \in DOMAIN tree \ {Root}, tree[f].up \in U
        PROVE  f \in U
    <3>1. found[tree[f].up] \in Seq(AnyName) /\ tree[f].name \in AnyName
      BY <2>2 DEF IsTree
    <3>2. Append(found[tree[f].up], tree[f].name) \in Seq(AnyName)
      BY <3>1, AppendProperties
    <3> QED BY <1>10, <3>2
  <2> HIDE DEF U
  <2>3. DOMAIN tree \subseteq U
    BY <2>1, <2>2, FromTheRoot
  <2> QED BY <2>3 DEF U
<1> QED BY <1>9, <1>10, <1>11

\* Two paths that end differently, or begin differently, differ.
LEMMA AppendedApart ==
    ASSUME NEW S, NEW s \in Seq(S), NEW t \in Seq(S), NEW d \in S, NEW e \in S,
           Append(s, d) = Append(t, e)
    PROVE  s = t /\ d = e
<1>1. PICK u : u = Append(s, d) /\ u = Append(t, e)
    OBVIOUS
<1>2. /\ Len(u) = Len(s) + 1
      /\ \A i \in 1 .. Len(s) : u[i] = s[i]
      /\ u[Len(s) + 1] = d
    BY <1>1, AppendProperties
<1>3. /\ Len(u) = Len(t) + 1
      /\ \A i \in 1 .. Len(t) : u[i] = t[i]
      /\ u[Len(t) + 1] = e
    BY <1>1, AppendProperties
<1>4. Len(s) = Len(t)
  <2>1. Len(s) \in Nat /\ Len(t) \in Nat
    BY LenProperties
  <2>2. Len(s) + 1 = Len(t) + 1
    BY <1>2, <1>3
  <2> QED BY <2>1, <2>2
<1>5. \A i \in 1 .. Len(s) : s[i] = t[i]
    BY <1>2, <1>3, <1>4
<1>6. s = t
    BY <1>4, <1>5, SeqEqual
<1> QED BY <1>2, <1>3, <1>4, <1>6

\* No two folders of a folder have one name.
NamesDiffer(tree) ==
    \A f, g \in DOMAIN tree \ {Root} :
       f # g /\ tree[f].up = tree[g].up => tree[f].name # tree[g].name

\* Where the folders in each folder have different names, no two paths are equal.
LEMMA PathsDiffer ==
    ASSUME NEW tree, IsTree(tree), NamesDiffer(tree)
    PROVE  \A f, g \in DOMAIN tree : PathOf(tree, f) = PathOf(tree, g) => f = g
<1> DEFINE P(f) == PathOf(tree, f)
           U == {f \in DOMAIN tree : \A g \in DOMAIN tree : P(f) = P(g) => f = g}
<1>1. /\ P(Root) = <<>>
      /\ \A f \in DOMAIN tree \ {Root} : P(f) = Append(P(tree[f].up), tree[f].name)
      /\ \A f \in DOMAIN tree : P(f) \in Seq(AnyName)
    BY PathsUnfold
<1> HIDE DEF P
<1>2. \A f \in DOMAIN tree \ {Root} : P(f) # <<>>
  <2> SUFFICES ASSUME NEW f \in DOMAIN tree \ {Root} PROVE P(f) # <<>>
    OBVIOUS
  <2>1. P(tree[f].up) \in Seq(AnyName) /\ tree[f].name \in AnyName
    BY <1>1 DEF IsTree
  <2> QED BY <1>1, <2>1, AppendProperties
<1>3. Root \in U
    BY <1>1, <1>2 DEF IsTree
<1>4. ASSUME NEW f \in DOMAIN tree \ {Root}, tree[f].up \in U, NEW g \in DOMAIN tree, P(f) = P(g)
      PROVE  f = g
  <2>1. g # Root
    BY <1>1, <1>2, <1>4
  <2>2. /\ tree[f].up \in DOMAIN tree /\ tree[g].up \in DOMAIN tree
        /\ tree[f].name \in AnyName /\ tree[g].name \in AnyName
    BY <2>1 DEF IsTree
  <2>3. P(tree[f].up) \in Seq(AnyName) /\ P(tree[g].up) \in Seq(AnyName)
    BY <1>1, <2>2
  <2>4. Append(P(tree[f].up), tree[f].name) = Append(P(tree[g].up), tree[g].name)
    BY <1>1, <1>4, <2>1
  <2>5. P(tree[f].up) = P(tree[g].up) /\ tree[f].name = tree[g].name
    BY <2>2, <2>3, <2>4, AppendedApart
  <2>6. tree[f].up = tree[g].up
    BY <1>4, <2>2, <2>5
  <2> QED BY <2>1, <2>5, <2>6 DEF NamesDiffer
<1>5. \A f \in DOMAIN tree \ {Root} : tree[f].up \in U => f \in U
    BY <1>4
<1> HIDE DEF U
<1>6. DOMAIN tree \subseteq U
    BY <1>3, <1>5, FromTheRoot
<1> QED BY <1>6 DEF U, P

\* One path begins another just if the one folder is above the other.
LEMMA PrefixIsAbove ==
    ASSUME NEW tree, IsTree(tree), NamesDiffer(tree), NEW f \in DOMAIN tree, NEW h \in DOMAIN tree
    PROVE  IsPrefix(PathOf(tree, f), PathOf(tree, h)) <=>
              h = f \/ (h # Root /\ IsPrefix(PathOf(tree, f), PathOf(tree, tree[h].up)))
<1>1. /\ PathOf(tree, Root) = <<>>
      /\ \A g \in DOMAIN tree \ {Root} : PathOf(tree, g) = Append(PathOf(tree, tree[g].up), tree[g].name)
      /\ \A g \in DOMAIN tree : PathOf(tree, g) \in Seq(AnyName)
    BY PathsUnfold
<1>2. CASE h = Root
  <2>1. IsPrefix(PathOf(tree, f), PathOf(tree, Root)) => PathOf(tree, f) = PathOf(tree, Root)
    <3>1. Len(PathOf(tree, f)) <= 0 => PathOf(tree, f) = <<>>
      <4>1. PathOf(tree, f) \in Seq(AnyName)
        BY <1>1
      <4> QED BY <4>1, EmptySeq
    <3> QED BY <1>1, <3>1, EmptySeq DEF IsPrefix
  <2>2. PathOf(tree, f) = PathOf(tree, Root) => f = Root
    BY <1>2, PathsDiffer
  <2>3. IsPrefix(PathOf(tree, h), PathOf(tree, h))
    BY <1>1, MovedItself
  <2> QED BY <1>2, <2>1, <2>2, <2>3
<1>3. CASE h # Root
  <2>1. tree[h].up \in DOMAIN tree /\ tree[h].name \in AnyName
    BY <1>3 DEF IsTree
  <2>2. PathOf(tree, f) \in Seq(AnyName) /\ PathOf(tree, tree[h].up) \in Seq(AnyName)
    BY <1>1, <2>1
  <2>3. PathOf(tree, h) = Append(PathOf(tree, tree[h].up), tree[h].name)
    BY <1>1, <1>3
  <2>4. IsPrefix(PathOf(tree, f), PathOf(tree, h)) <=>
           \/ PathOf(tree, f) = PathOf(tree, h)
           \/ IsPrefix(PathOf(tree, f), PathOf(tree, tree[h].up))
    BY <2>1, <2>2, <2>3, PrefixOfAppended
  <2>5. PathOf(tree, f) = PathOf(tree, h) <=> f = h
    BY PathsDiffer
  <2> QED BY <1>3, <2>4, <2>5
<1> QED BY <1>2, <1>3

\* What is left of a tree keeps its paths.
LEMMA KeptPaths ==
    ASSUME NEW tree, IsTree(tree), NEW rest, IsTree(rest),
           \A f \in DOMAIN rest : f \in DOMAIN tree /\ rest[f] = tree[f]
    PROVE  \A f \in DOMAIN rest : PathOf(rest, f) = PathOf(tree, f)
<1> DEFINE U == {f \in DOMAIN rest : PathOf(rest, f) = PathOf(tree, f)}
<1>1. Root \in U
    BY PathsUnfold DEF IsTree
<1>2. ASSUME NEW f \in DOMAIN rest \ {Root}, rest[f].up \in U
      PROVE  f \in U
  <2>1. PathOf(rest, f) = Append(PathOf(rest, rest[f].up), rest[f].name)
    BY PathsUnfold
  <2>2. PathOf(tree, f) = Append(PathOf(tree, tree[f].up), tree[f].name)
    BY PathsUnfold
  <2> QED BY <1>2, <2>1, <2>2
<1> HIDE DEF U
<1>3. DOMAIN rest \subseteq U
    BY <1>1, <1>2, FromTheRoot
<1> QED BY <1>3 DEF U

\* A move changes the paths of a folder and of those beneath it, as the record
\* of placed files changes them.
LEMMA MovedPaths ==
    ASSUME NEW tree, IsTree(tree), NamesDiffer(tree), NEW f \in DOMAIN tree \ {Root},
           NEW name \in AnyName, NEW moved, moved = [tree EXCEPT ![f].name = name]
    PROVE  /\ IsTree(moved)
           /\ \A h \in DOMAIN tree :
                 PathOf(moved, h) = Rebased(PathOf(tree, h), PathOf(tree, f),
                                            Append(PathOf(tree, tree[f].up), name))
<1> DEFINE P(h) == PathOf(tree, h)
           Q(h) == PathOf(moved, h)
           target == Append(P(tree[f].up), name)
           U == {h \in DOMAIN tree : Q(h) = Rebased(P(h), P(f), target)}
<1>1. /\ DOMAIN moved = DOMAIN tree
      /\ \A h \in DOMAIN tree : h # f => moved[h] = tree[h]
      /\ moved[f].name = name /\ moved[f].up = tree[f].up
      /\ \A h \in DOMAIN tree : moved[h] \in [up : Nat, name : AnyName]
  <2>1. \A h \in DOMAIN tree : tree[h] \in [up : Nat, name : AnyName]
    BY DEF IsTree
  <2>2. moved[f] = [tree[f] EXCEPT !.name = name]
    BY Zenon
  <2>3. moved[f].name = name /\ moved[f].up = tree[f].up /\ moved[f] \in [up : Nat, name : AnyName]
    BY <2>1, <2>2
  <2>4. DOMAIN moved = DOMAIN tree /\ \A h \in DOMAIN tree : h # f => moved[h] = tree[h]
    BY Zenon
  <2> QED BY <2>1, <2>3, <2>4
<1>2. \A h \in DOMAIN tree : h # Root => moved[h].up = tree[h].up
  <2> SUFFICES ASSUME NEW h \in DOMAIN tree, h # Root PROVE moved[h].up = tree[h].up
    OBVIOUS
  <2>1. CASE h # f
    BY <1>1, <2>1
  <2>2. CASE h = f
    BY <1>1, <2>2
  <2> QED BY <2>1, <2>2
<1>3. IsTree(moved)
  <2>1. \A h \in DOMAIN tree : moved[h].name \in AnyName
    BY <1>1
  <2> QED BY <1>1, <1>2, <2>1 DEF IsTree
<1>4. /\ P(Root) = <<>>
      /\ \A h \in DOMAIN tree \ {Root} : P(h) = Append(P(tree[h].up), tree[h].name)
      /\ \A h \in DOMAIN tree : P(h) \in Seq(AnyName)
    BY PathsUnfold
<1>5. /\ Q(Root) = <<>>
      /\ \A h \in DOMAIN tree \ {Root} : Q(h) = Append(Q(tree[h].up), moved[h].name)
    BY <1>1, <1>2, <1>3, PathsUnfold
<1>6. \A h \in DOMAIN tree : IsPrefix(P(f), P(h)) <=> h = f \/ (h # Root /\ IsPrefix(P(f), P(tree[h].up)))
    BY PrefixIsAbove
<1>7. Root \in DOMAIN tree /\ tree[f].up \in DOMAIN tree /\ tree[f].up # f
    BY DEF IsTree
<1>8. target \in Seq(AnyName)
    BY <1>4, <1>7, AppendProperties
<1>9. \A h \in DOMAIN tree : ~IsPrefix(P(f), P(h)) => Rebased(P(h), P(f), target) = P(h)
    BY DEF Rebased
<1>10. ~IsPrefix(P(f), P(tree[f].up))
  <2>1. P(f) = Append(P(tree[f].up), tree[f].name) /\ P(f) \in Seq(AnyName)
        /\ P(tree[f].up) \in Seq(AnyName) /\ tree[f].name \in AnyName
    BY <1>4, <1>7 DEF IsTree
  <2>2. Len(P(f)) = Len(P(tree[f].up)) + 1 /\ Len(P(tree[f].up)) \in Nat
    BY <2>1, AppendProperties, LenProperties
  <2> QED BY <2>2 DEF IsPrefix
<1> HIDE DEF P, Q, target
<1>11. Root \in U
  <2>1. ~IsPrefix(P(f), P(Root))
    BY <1>6, <1>7
  <2> QED BY <1>4, <1>5, <1>7, <1>9, <2>1
<1>12. ASSUME NEW h \in DOMAIN tree \ {Root}, tree[h].up \in U
       PROVE  h \in U
  <2> PICK g : g = tree[h].up
    OBVIOUS
  <2>1. g \in DOMAIN tree /\ tree[h].name \in AnyName
    BY DEF IsTree
  <2>2. Q(g) = Rebased(P(g), P(f), target) /\ Q(h) = Append(Q(g), moved[h].name)
        /\ P(h) = Append(P(g), tree[h].name) /\ P(g) \in Seq(AnyName)
    BY <1>4, <1>5, <1>12, <2>1
  <2>3. CASE h = f
    <3>1. Q(g) = P(g)
      BY <1>9, <1>10, <2>1, <2>2, <2>3
    <3>2. Q(h) = target
      BY <1>1, <2>2, <2>3, <3>1 DEF target
    <3>3. Rebased(P(f), P(f), target) = target
      BY <1>4, <1>8, MovedItself
    <3> QED BY <2>3, <3>2, <3>3
  <2>4. CASE h # f /\ IsPrefix(P(f), P(g))
    <3>1. Rebased(Append(P(g), tree[h].name), P(f), target)
             = Append(Rebased(P(g), P(f), target), tree[h].name)
      BY <1>4, <1>8, <2>1, <2>2, <2>4, MovedBeneath
    <3>2. moved[h].name = tree[h].name
      BY <1>1, <2>4
    <3> QED BY <2>2, <3>1, <3>2
  <2>5. CASE h # f /\ ~IsPrefix(P(f), P(g))
    <3>1. ~IsPrefix(P(f), P(h))
      BY <1>6, <2>5
    <3>2. Q(g) = P(g) /\ moved[h].name = tree[h].name
      BY <1>1, <1>9, <2>1, <2>2, <2>5
    <3>3. Q(h) = P(h)
      BY <2>2, <3>2
    <3> QED BY <1>9, <3>1, <3>3
  <2> QED BY <2>3, <2>4, <2>5
<1> HIDE DEF U
<1>13. DOMAIN tree \subseteq U
    BY <1>11, <1>12, FromTheRoot
<1> QED BY <1>3, <1>13 DEF U, P, Q, target

\* The tree of folders as the lemmas on paths need it.
ProperTree == IsTree(folder) /\ NamesDiffer(folder)

\* The two invariants give such a tree ...
LEMMA FoldersAreTree == TreeInv /\ Closed => ProperTree
<1> SUFFICES ASSUME TreeInv, Closed PROVE IsTree(folder) /\ NamesDiffer(folder)
    BY DEF ProperTree
<1>1. CallsGoForward /\ FoldersOfSteps /\ Apart
    BY DEF TreeInv
<1>2. /\ Root \in DOMAIN folder /\ DOMAIN folder \subseteq 1 .. MaxSteps
      /\ \A f \in DOMAIN folder : f \in Steps
    BY <1>1, TreeAssumption DEF FoldersOfSteps, CallsGoForward
<1>3. ASSUME NEW f \in DOMAIN folder
      PROVE  folder[f] \in [up : Nat, name : AnyName] /\ folder[f].name \in AnyName
  <2>1. folder[f] \in [up : {run.parent[f]}, name : Names(f)] /\ run.parent[f] \in Nat
    BY <1>1, StepsAreNumbers DEF FoldersOfSteps
  <2>2. run.label[f] \in Labels
    BY <1>1, <1>2 DEF CallsGoForward
  <2>3. Names(f) \subseteq AnyName
    BY <2>2 DEF Names, AnyName
  <2> QED BY <2>1, <2>3
<1>4. ASSUME NEW f \in DOMAIN folder \ {Root}
      PROVE  folder[f].up \in DOMAIN folder /\ folder[f].up \in Nat /\ f \in Nat /\ folder[f].up < f
    BY <1>1, StepsAreNumbers DEF Closed
<1>5. IsTree(folder)
    BY <1>2, <1>3, <1>4 DEF IsTree
<1>6. NamesDiffer(folder)
    BY <1>1, StepsAreNumbers DEF NamesDiffer, Apart, Siblings
<1> QED BY <1>5, <1>6

\* ... after a step as before it ...
LEMMA FoldersAreTreeLater == TreeInv' /\ Closed' => ProperTree'
    BY FoldersAreTree, PTL

\* ... and in the parts that the lemmas on a move name.
LEMMA FoldersAreTreeNext == TreeInv' /\ Closed' => IsTree(folder') /\ NamesDiffer(folder')
    BY FoldersAreTreeLater DEF ProperTree

\* A folder is moved within its folder: no move hits a name that is taken.
LEMMA MoveRenames ==
    ASSUME TreeInv, TreeInv', Closed, run' = run, NEW f \in DOMAIN folder \ {Root},
           NEW name, Move(f, name)
    PROVE  folder' = [folder EXCEPT ![f].name = name]
<1>1. CallsGoForward /\ FoldersOfSteps
    BY DEF TreeInv
<1>2. FoldersOfSteps'
    BY DEF TreeInv
<1>3. folder[f].up = run.parent[f] /\ f \in Nat
    BY <1>1, StepsAreNumbers
<1>4. ~Exists(folder, folder[f].up, name)
  <2> SUFFICES ASSUME Exists(folder, folder[f].up, name) PROVE FALSE
    OBVIOUS
  <2>1. PICK g : /\ g \in InFolder(folder, folder[f].up)
                 /\ folder' = [folder EXCEPT ![f].up = g]
    BY DEF Move, Moved, Exists
  <2>2. g \in DOMAIN folder /\ run.parent[g] = run.parent[f] /\ g \in Nat /\ run.parent[g] < g
    BY <1>1, <1>3, <2>1, StepsAreNumbers DEF InFolder
  <2>3. folder'[f].up = g
    <3>1. folder[f] \in [up : {run.parent[f]}, name : Names(f)]
      BY <1>1 DEF FoldersOfSteps
    <3>2. folder'[f] = [folder[f] EXCEPT !.up = g]
      BY <2>1
    <3> QED BY <3>1, <3>2
  <2>4. folder'[f].up = run.parent[f]
    <3>1. f \in DOMAIN folder'
      BY <2>1
    <3>2. folder'[f] \in [up : {run'.parent[f]}, name : Names(f)']
      BY <1>2, <3>1 DEF FoldersOfSteps
    <3> QED BY <3>2
  <2> QED BY <2>2, <2>3, <2>4, <1>1, <1>3, StepsAreNumbers
<1> QED BY <1>4 DEF Move, Moved

-----------------------------------------------------------------------------
(* What a pass that only moves folders leaves alone.                       *)

\* Nothing happens to the files themselves.
FilesStand == run' = run /\ files' = files /\ dirs' = dirs /\ DOMAIN folder' = DOMAIN folder

\* What does not depend on the names of folders stays while the files stand.
LEMMA StandingFiles ==
    ASSUME FilesStand
    PROVE  /\ Steps' = Steps /\ (RunOfCalls => RunOfCalls')
           /\ \A f : Home(f)' = Home(f) /\ Own(f)' = Own(f)
           /\ OwnFilesStay => OwnFilesStay'
           /\ HoistedOnly => HoistedOnly'
           /\ \A f : Raised(f)' = Raised(f)
           /\ Tidy => Tidy'
           /\ HasFolder' = HasFolder /\ (\A p : Lists(p)' = Lists(p)) /\ Content(FALSE)' = Content(FALSE)
           /\ ValuesAlike => ValuesAlike'
           /\ ValueWritten => ValueWritten'
<1>1. Steps' = Steps /\ \A f : Home(f)' = Home(f) /\ Own(f)' = Own(f)
    BY DEF FilesStand, Steps, Home, Own
<1>2. RunOfCalls => RunOfCalls'
    BY <1>1 DEF FilesStand, RunOfCalls
<1>3. OwnFilesStay => OwnFilesStay'
    BY <1>1 DEF FilesStand, OwnFilesStay
<1>4. \A f : Raised(f)' = Raised(f)
    BY <1>1 DEF FilesStand, Raised
<1>7. HoistedOnly => HoistedOnly'
    BY <1>1, <1>4 DEF FilesStand, HoistedOnly
<1>5. Tidy => Tidy'
    BY <1>1 DEF FilesStand, Tidy
<1>6. /\ HasFolder' = HasFolder /\ (\A p : Lists(p)' = Lists(p)) /\ Content(FALSE)' = Content(FALSE)
      /\ IsCalcJob(run.creator)' = IsCalcJob(run.creator)
    BY DEF FilesStand, HasFolder, IsCalcJob, Lists, Content
<1>8. ValuesAlike => ValuesAlike'
    BY <1>6 DEF FilesStand, ValuesAlike
<1>9. ValueWritten => ValueWritten'
    BY <1>1, <1>6 DEF FilesStand, ValueWritten
<1> QED BY <1>1, <1>2, <1>3, <1>4, <1>5, <1>6, <1>7, <1>8, <1>9

\* A record as it is after a step, for the same file.
Follows(q, p) ==
    /\ DOMAIN q = DOMAIN p
    /\ q.dir = p.dir /\ q.entry = p.entry /\ q.node = p.node /\ q.content = p.content
    /\ q.created = p.created
    /\ \A h \in DOMAIN folder : p.path = PathOf(folder, h) => q.path = PathOf(folder, h)'

\* Records that follow the folders of their files tell the same of them.
LEMMA RecordsFollow ==
    ASSUME FilesStand, Tidy, Recorded, pc # "prune",
           \A q \in placed' : \E p \in placed : Follows(q, p),
           \A p \in placed : \E q \in placed' : Follows(q, p)
    PROVE  Recorded'
<1> USE DEF FilesStand
<1>1. /\ \A f : Home(f)' = Home(f) /\ Raised(f)' = Raised(f)
      /\ HasFolder' = HasFolder /\ (\A p : Lists(p)' = Lists(p)) /\ Content(FALSE)' = Content(FALSE)
      /\ ValuesAlike' /\ ValueWritten'
    BY StandingFiles DEF Recorded
<1>2. ASSUME NEW p \in placed, NEW q \in placed', Follows(q, p), NEW f \in files, Of(p, f)
      PROVE  Of(q, f)'
  <2>1. f.at \in DOMAIN folder
    BY DEF Tidy
  <2>2. q.path = PathOf(folder, f.at)'
    BY <1>2, <2>1 DEF Follows, Of
  <2> QED BY <1>2, <2>2 DEF Follows, Of
<1>3. RecordsHaveFiles'
  <2> SUFFICES ASSUME NEW q \in placed'
               PROVE  /\ DOMAIN q = {"path", "dir", "entry", "node", "content", "created"}
                      /\ \E f \in files : Of(q, f)'
    BY DEF RecordsHaveFiles
  <2>1. PICK p \in placed : Follows(q, p)
    OBVIOUS
  <2>2. PICK f \in files : Of(p, f)
    BY DEF Recorded, RecordsHaveFiles
  <2>3. Of(q, f)'
    BY <1>2, <2>1, <2>2
  <2>4. DOMAIN p = {"path", "dir", "entry", "node", "content", "created"}
    BY DEF Recorded, RecordsHaveFiles
  <2> QED BY <2>1, <2>3, <2>4 DEF Follows
<1>4. FilesHaveRecords'
  <2> SUFFICES ASSUME NEW f \in files, f.node \in {"data", "source"}
               PROVE  \E q \in placed' : Of(q, f)'
    BY DEF FilesHaveRecords
  <2>1. PICK p \in placed : Of(p, f)
    BY DEF Recorded, FilesHaveRecords
  <2>2. PICK q \in placed' : Follows(q, p)
    OBVIOUS
  <2> QED BY <1>2, <2>1, <2>2
<1>5. MadeAtHome'
  <2> SUFFICES ASSUME NEW q \in placed', q.created, q.node = "data"
               PROVE  /\ run.creator # 0 /\ q.dir = "outputs"
                      /\ q.path = PathOf(folder, Home(run.creator))' /\ Home(run.creator) \in DOMAIN folder
                      /\ run.creator \notin DOMAIN folder => Raised(run.parent[run.creator])
    BY <1>1 DEF MadeAtHome
  <2>1. PICK p \in placed : Follows(q, p)
    OBVIOUS
  <2>2. p.created /\ p.node = "data"
    BY <2>1 DEF Follows
  <2>3. /\ run.creator # 0 /\ p.dir = "outputs"
        /\ p.path = PathOf(folder, Home(run.creator)) /\ Home(run.creator) \in DOMAIN folder
        /\ run.creator \notin DOMAIN folder => Raised(run.parent[run.creator])
    BY <2>2 DEF Recorded, MadeAtHome
  <2>4. PICK home : home = Home(run.creator)
    OBVIOUS
  <2>5. q.path = PathOf(folder, home)'
    BY <2>1, <2>3, <2>4 DEF Follows
  <2>6. Home(run.creator)' = home
    BY <1>1, <2>4
  <2> QED BY <2>1, <2>3, <2>5, <2>6 DEF Follows
<1>6. MakerRecorded'
  <2> SUFFICES ASSUME HasFolder, run.value # "empty"
               PROVE  /\ Lists(run.creator)
                      /\ \E q \in placed' : q.created /\ q.node = "data" /\ q.content = Content(FALSE)
    BY <1>1 DEF MakerRecorded
  <2>1. /\ Lists(run.creator)
        /\ \E p \in placed : p.created /\ p.node = "data" /\ p.content = Content(FALSE)
    BY DEF Recorded, MakerRecorded
  <2>2. PICK p \in placed : p.created /\ p.node = "data" /\ p.content = Content(FALSE)
    BY <2>1
  <2>3. PICK q \in placed' : Follows(q, p)
    OBVIOUS
  <2> QED BY <2>1, <2>2, <2>3 DEF Follows
<1> QED BY <1>1, <1>3, <1>4, <1>5, <1>6 DEF Recorded

\* The record of placed files goes with every folder that is moved.
LEMMA RecordsMove ==
    ASSUME TreeInv, TreeInv', Closed, Closed', FilesStand, Tidy, Recorded, pc # "prune",
           NEW f \in DOMAIN folder \ {Root}, NEW name, Move(f, name)
    PROVE  Recorded'
<1>1. IsTree(folder) /\ NamesDiffer(folder) /\ IsTree(folder')
    BY FoldersAreTree, FoldersAreTreeNext DEF ProperTree
<1>2. folder' = [folder EXCEPT ![f].name = name]
    BY MoveRenames DEF FilesStand
<1>3. name \in AnyName
  <2>1. folder[f] \in [up : Nat, name : AnyName] /\ folder'[f] \in [up : Nat, name : AnyName]
    BY <1>1, <1>2 DEF IsTree
  <2>2. folder'[f] = [folder[f] EXCEPT !.name = name]
    BY <1>2
  <2>3. folder'[f].name = name
    BY <2>1, <2>2
  <2> QED BY <2>1, <2>3
<1> PICK source, target : /\ source = PathOf(folder, f)
                          /\ target = Append(PathOf(folder, folder[f].up), name)
    OBVIOUS
<1>4. \A h \in DOMAIN folder : PathOf(folder, h)' = Rebased(PathOf(folder, h), source, target)
    BY <1>1, <1>2, <1>3, MovedPaths
<1> DEFINE New(p) == [p EXCEPT !.path = Rebased(@, source, target)]
<1>5. placed' = {New(p) : p \in placed}
    BY DEF Move, PlacedMoved
<1>6. ASSUME NEW p \in placed PROVE Follows(New(p), p)
  <2>1. DOMAIN p = {"path", "dir", "entry", "node", "content", "created"}
    BY DEF Recorded, RecordsHaveFiles
  <2>2. /\ DOMAIN New(p) = DOMAIN p
        /\ New(p).path = Rebased(p.path, source, target)
        /\ New(p).dir = p.dir /\ New(p).entry = p.entry /\ New(p).node = p.node
        /\ New(p).content = p.content /\ New(p).created = p.created
    BY <2>1
  <2> HIDE DEF New
  <2> QED BY <1>4, <2>2 DEF Follows
<1> HIDE DEF New
<1>7. \A q \in placed' : \E p \in placed : Follows(q, p)
    BY <1>5, <1>6
<1>8. \A p \in placed : \E q \in placed' : Follows(q, p)
    BY <1>5, <1>6
<1> QED BY <1>7, <1>8, RecordsFollow

\* Nor does the record change when no folder is moved.
LEMMA RecordsRest ==
    ASSUME FilesStand, Tidy, Recorded, pc # "prune", UNCHANGED <<folder, placed>>
    PROVE  Recorded'
<1>1. \A p \in placed : Follows(p, p)
    BY DEF Follows
<1> QED BY <1>1, RecordsFollow

-----------------------------------------------------------------------------
(* The renumbering keeps the files.                                        *)

\* The properties of the linked tree say nothing before it is linked.
LEMMA BeforeLinksNext == pc' # "done" => LinksResolve' /\ ValuesSurvive'
    BY DEF LinksResolve, ValuesSurvive

\* What is listed for the next pass: the folders in a folder.
LEMMA HeadOfTodo ==
    ASSUME NEW E, todo \in Seq(E), todo # <<>>
    PROVE  /\ Head(todo) = todo[1] /\ 1 \in DOMAIN todo /\ Head(todo) \in E
           /\ Tail(todo) \in Seq(E)
           /\ \A i \in DOMAIN Tail(todo) : i + 1 \in DOMAIN todo /\ Tail(todo)[i] = todo[i + 1]
<1>1. /\ Len(todo) \in Nat \ {0} /\ DOMAIN todo = 1 .. Len(todo)
      /\ Head(todo) \in E /\ Tail(todo) \in Seq(E) /\ Len(Tail(todo)) = Len(todo) - 1
      /\ \A i \in 1 .. Len(Tail(todo)) : Tail(todo)[i] = todo[i + 1]
    BY HeadTailProperties, EmptySeq, LenProperties
<1>2. Head(todo) = todo[1]
    OBVIOUS
<1>3. DOMAIN Tail(todo) = 1 .. Len(Tail(todo))
    BY <1>1, LenProperties
<1> QED BY <1>1, <1>2, <1>3

\* Parking the folders before they are renumbered (_renumber_step_folders).
LEMMA ParkKeepsFiles == TreeInv /\ TreeInv' /\ FilesInv /\ Park => FilesInv'
<1> SUFFICES ASSUME TreeInv, TreeInv', FilesInv, Park PROVE FilesInv'
    OBVIOUS
<1>1. /\ pc = "renumber" /\ pc' = "renumber" /\ run' = run /\ files' = files /\ dirs' = dirs
      /\ todo # <<>> /\ todo' = Tail(todo) /\ Head(todo).op = "park"
    BY DEF Park
<1>2. /\ RunOfCalls /\ Closed /\ OwnFilesStay /\ HoistedOnly /\ \A f \in Steps : ~Raised(f)
      /\ Tidy /\ Recorded
    BY <1>1 DEF FilesInv, Listed
<1> PICK f, num : f = Head(todo).folder /\ num = Head(todo).num
    OBVIOUS
<1>3. f \in DOMAIN folder \ {Root} /\ \A i \in DOMAIN todo' : i + 1 \in DOMAIN todo /\ todo'[i] = todo[i + 1]
  <2>1. PICK E : E = [op : {"park", "renumber"}, folder : DOMAIN folder, num : Nat]
    OBVIOUS
  <2>2. Entries /\ todo \in Seq(E)
    BY <1>1, <2>1 DEF TreeInv, Entries
  <2>3. /\ Head(todo) = todo[1] /\ 1 \in DOMAIN todo /\ Head(todo) \in E
        /\ \A i \in DOMAIN Tail(todo) : i + 1 \in DOMAIN todo /\ Tail(todo)[i] = todo[i + 1]
    BY <1>1, <2>2, HeadOfTodo
  <2>4. f # Root
    BY <1>1, <2>2, <2>3 DEF Entries
  <2> QED BY <1>1, <2>1, <2>3, <2>4
<1>4. \/ UNCHANGED <<folder, placed>>
      \/ \E name : Move(f, name)
    BY DEF Park
<1>5. DOMAIN folder' = DOMAIN folder /\ folder'[Root] = folder[Root]
  <2>1. CASE \E name : Move(f, name)
    <3>1. \E name : folder' = [folder EXCEPT ![f].name = name]
      BY <1>1, <1>2, <1>3, <2>1, MoveRenames
    <3> QED BY <1>3, <3>1
  <2> QED BY <1>4, <2>1
<1>6. FilesStand
    BY <1>1, <1>5 DEF FilesStand
<1>7. Closed'
    BY <1>1, <1>2, <1>3, <1>5 DEF Closed
<1>8. Recorded'
    BY <1>1, <1>2, <1>3, <1>4, <1>6, <1>7, RecordsMove, RecordsRest
<1>9. Steps' = Steps
    BY <1>6, StandingFiles
<1>10. RunOfCalls' /\ OwnFilesStay' /\ HoistedOnly' /\ (\A f_1 \in Steps : ~Raised(f_1))' /\ Tidy'
    BY <1>2, <1>6, <1>9, StandingFiles
<1> QED BY <1>1, <1>7, <1>8, <1>10, BeforeLinksNext DEF FilesInv

\* What a renumbering adds is about folders in a folder, never about the root.
LEMMA RootNotRenumbered ==
    ASSUME TreeInv, Renumber, NEW i \in DOMAIN todo'
    PROVE  todo'[i].folder # Root \/ \E j \in DOMAIN todo : todo'[i] = todo[j]
<1> PICK f : f = Head(todo).folder
    OBVIOUS
<1> PICK kids : kids = InFolder(folder, f)
    OBVIOUS
<1> PICK n : n = Cardinality(kids)
    OBVIOUS
<1> PICK list : list = Ordered(f)
    OBVIOUS
<1>1. /\ CallsGoForward /\ FoldersOfSteps /\ Entries /\ Reached
      /\ todo # <<>> /\ todo' = Level(f) \o Tail(todo) /\ Head(todo).op = "renumber"
      /\ pc # "simplify"
    BY DEF TreeInv, Renumber
<1>2. /\ f \in DOMAIN folder /\ Awaited(f) /\ Len(todo) \in Nat /\ DOMAIN todo = 1 .. Len(todo)
  <2>1. 1 \in DOMAIN todo /\ todo[1].folder = f /\ f \in DOMAIN folder /\ Len(todo) \in Nat
        /\ DOMAIN todo = 1 .. Len(todo)
    BY <1>1, EntriesOfFolders, FirstAndOthers
  <2> QED BY <2>1 DEF Awaited
<1>3. /\ \A g \in kids : g \in DOMAIN folder /\ run.parent[g] = f /\ g # Root
      /\ n \in Nat
  <2>1. n \in Nat /\ \A g \in kids : g \in DOMAIN folder /\ run.parent[g] = f
    BY <1>1, KidsAreFinite
  <2>2. f # 0
    BY <1>1, <1>2, TreeAssumption DEF CallsGoForward, FoldersOfSteps
  <2> QED BY <1>1, <2>1, <2>2 DEF CallsGoForward, NoStep
<1>4. \A g \in kids : AsCalled(g)
  <2>1. PICK untouched \in SUBSET DOMAIN folder :
           Beneath(untouched) /\ \A g \in untouched : ~Awaited(g) /\ AsCalled(g)
    BY <1>1 DEF Reached
  <2>2. \A g \in kids : g \in untouched
    BY <1>2, <1>3, <2>1 DEF Beneath
  <2> QED BY <2>1, <2>2
<1>5. \A k \in 1 .. n : list[k] \in kids
  <2>1. list \in [1 .. n -> kids]
    BY <1>1, <1>4, OrderedAsRead
  <2> QED BY <2>1
<1>6. /\ DOMAIN todo' = 1 .. 2 * n + Len(todo) - 1
      /\ \A k \in 1 .. n : /\ todo'[k] = Do("park", list[k], k)
                           /\ todo'[n + k] = Do("renumber", list[k], k)
      /\ \A k \in 2 .. Len(todo) : todo'[2 * n + k - 1] = todo[k]
    BY <1>1, <1>4, LevelFirst
<1>7. CASE i \in 1 .. n
    BY <1>3, <1>5, <1>6, <1>7, DoSays
<1>8. CASE i \in n + 1 .. 2 * n
  <2>1. i - n \in 1 .. n /\ n + (i - n) = i
    BY <1>3, <1>8
  <2>2. todo'[i] = Do("renumber", list[i - n], i - n)
    BY <1>6, <2>1
  <2> QED BY <1>3, <1>5, <2>1, <2>2, DoSays
<1>9. CASE i > 2 * n
  <2>1. i - 2 * n + 1 \in 2 .. Len(todo) /\ 2 * n + (i - 2 * n + 1) - 1 = i
    BY <1>2, <1>3, <1>6, <1>9
  <2>2. todo'[i] = todo[i - 2 * n + 1]
    BY <1>6, <2>1
  <2> QED BY <1>2, <2>1, <2>2
<1> QED BY <1>2, <1>3, <1>6, <1>7, <1>8, <1>9

\* Giving a parked folder its number (_renumber_step_folders).
LEMMA RenumberKeepsFiles == TreeInv /\ TreeInv' /\ FilesInv /\ Renumber => FilesInv'
<1> SUFFICES ASSUME TreeInv, TreeInv', FilesInv, Renumber PROVE FilesInv'
    OBVIOUS
<1>1. /\ pc = "renumber" /\ pc' = "renumber" /\ run' = run /\ files' = files /\ dirs' = dirs
      /\ todo # <<>> /\ Entries /\ CallsGoForward /\ FoldersOfSteps
    BY DEF Renumber, TreeInv
<1>2. /\ RunOfCalls /\ Closed /\ OwnFilesStay /\ HoistedOnly /\ \A f \in Steps : ~Raised(f)
      /\ Tidy /\ Recorded
    BY <1>1 DEF FilesInv, Listed
<1> PICK f, num : f = Head(todo).folder /\ num = Head(todo).num
    OBVIOUS
<1>3. f \in DOMAIN folder /\ 1 \in DOMAIN todo /\ todo[1].folder = f /\ todo[1].num = num
    BY <1>1, EntriesOfFolders, FirstAndOthers
<1>4. \/ UNCHANGED <<folder, placed>>
      \/ f # Root /\ \E name : Move(f, name)
  <2>1. CASE f = Root
    <3>1. num = 0 /\ folder[f].name.park = 0 /\ folder[f].name.num = 0 /\ folder[f].name \in Names(f)
      BY <1>1, <1>2, <1>3, <2>1, StepsAreNumbers DEF Closed
    <3>2. folder[f].name = Final(f, num)
      BY <3>1 DEF Final, Names
    <3> QED BY <3>2 DEF Renumber
  <2>2. CASE f # Root
    BY <2>2 DEF Renumber
  <2> QED BY <2>1, <2>2
<1>5. DOMAIN folder' = DOMAIN folder /\ folder'[Root] = folder[Root]
  <2>1. CASE f # Root /\ \E name : Move(f, name)
    <3>1. \E name : folder' = [folder EXCEPT ![f].name = name]
      BY <1>1, <1>2, <1>3, <2>1, MoveRenames
    <3> QED BY <2>1, <3>1
  <2> QED BY <1>4, <2>1
<1>6. FilesStand
    BY <1>1, <1>5 DEF FilesStand
<1>7. Closed'
  <2>1. \A i \in DOMAIN todo' : todo'[i].folder = Root => todo'[i].num = 0
    BY <1>1, <1>2, RootNotRenumbered DEF Closed
  <2> QED BY <1>1, <1>2, <1>5, <2>1 DEF Closed
<1>8. Recorded'
    BY <1>1, <1>2, <1>3, <1>4, <1>6, <1>7, RecordsMove, RecordsRest
<1>9. Steps' = Steps
    BY <1>6, StandingFiles
<1>10. RunOfCalls' /\ OwnFilesStay' /\ HoistedOnly' /\ (\A g \in Steps : ~Raised(g))' /\ Tidy'
    BY <1>2, <1>6, <1>9, StandingFiles
<1> QED BY <1>1, <1>7, <1>8, <1>10, BeforeLinksNext DEF FilesInv

-----------------------------------------------------------------------------
(* The list of folders to visit.                                           *)

\* What the list of folders to visit is when f has been.
NextVisits(op, f) ==
    [i \in DOMAIN StepFolders(f) |-> Do(op, StepFolders(f)[i], 0)] \o Tail(todo)

\* The next visits: to the folders in a folder, then those that were left.
LEMMA VisitsNext ==
    ASSUME CallsGoForward, FoldersOfSteps, NumbersDiffer, Visits, todo # <<>>, NEW f, NEW op
    PROVE  LET kids == InFolder(folder, f)
               n == Cardinality(kids)
               list == StepFolders(f)
               next == NextVisits(op, f)
           IN /\ n \in Nat /\ Len(todo) \in Nat \ {0} /\ DOMAIN todo = 1 .. Len(todo)
              /\ list \in [1 .. n -> kids]
              /\ \A i, j \in 1 .. n : i # j => list[i] # list[j]
              /\ \A k \in kids : \E i \in 1 .. n : list[i] = k
              /\ DOMAIN next = 1 .. n + (Len(todo) - 1)
              /\ \A i \in 1 .. n : next[i] = Do(op, list[i], 0)
              /\ \A i \in 1 .. Len(todo) - 1 : next[n + i] = todo[i + 1]
<1> PICK kids : kids = InFolder(folder, f)
    OBVIOUS
<1> PICK n : n = Cardinality(kids)
    OBVIOUS
<1> PICK list : list = StepFolders(f)
    OBVIOUS
<1> PICK first : first = [i \in DOMAIN list |-> Do(op, list[i], 0)]
    OBVIOUS
<1> PICK rest : rest = Tail(todo)
    OBVIOUS
<1>1. n \in Nat /\ IsFiniteSet(kids) /\ \A g \in kids : g \in DOMAIN folder /\ g \in Nat /\ run.parent[g] = f
    BY KidsAreFinite
<1>2. \A g, h \in kids : g # h => Num[g] # Num[h]
    BY <1>1 DEF NumbersDiffer, Siblings
<1>3. /\ list \in [1 .. n -> kids]
      /\ \A i, j \in 1 .. n : i < j => Num[list[i]] < Num[list[j]]
    BY <1>2, ListedByNumbers
<1>4. \A i, j \in 1 .. n : i < j => list[i] # list[j]
  <2> SUFFICES ASSUME NEW i \in 1 .. n, NEW j \in 1 .. n, i < j, list[i] = list[j] PROVE FALSE
    OBVIOUS
  <2>1. list[i] \in DOMAIN folder
    BY <1>1, <1>3
  <2>2. Num[list[i]] \in Nat
    BY <2>1, StepsAreNumbers
  <2> QED BY <1>3, <2>2
<1>5. \A i, j \in 1 .. n : i # j => list[i] # list[j]
  <2> SUFFICES ASSUME NEW i \in 1 .. n, NEW j \in 1 .. n, i # j PROVE list[i] # list[j]
    OBVIOUS
  <2>1. i < j \/ j < i
    BY <1>1
  <2> QED BY <1>4, <2>1
<1>6. \A k \in kids : \E i \in 1 .. n : list[i] = k
    BY <1>1, <1>3, <1>4, ListsAreComplete
<1> PICK E : E = [op : {"strip", "hoist", op}, folder : Steps, num : Nat]
    OBVIOUS
<1>7. todo \in Seq(E)
  <2>1. [op : {"strip", "hoist"}, folder : Steps, num : Nat] \subseteq E
    OBVIOUS
  <2> QED BY <2>1, SeqMonotonic DEF Visits
<1>8. /\ Len(todo) \in Nat \ {0} /\ DOMAIN todo = 1 .. Len(todo)
      /\ rest \in Seq(E) /\ Len(rest) = Len(todo) - 1
      /\ \A i \in 1 .. Len(rest) : rest[i] = todo[i + 1]
    BY <1>7, HeadTailProperties, EmptySeq, LenProperties
<1>9. /\ first \in [1 .. n -> E]
      /\ \A i \in 1 .. n : first[i] = Do(op, list[i], 0)
  <2>1. DOMAIN list = 1 .. n
    BY <1>3
  <2>2. \A i \in 1 .. n : list[i] \in Steps
    BY <1>1, <1>3 DEF FoldersOfSteps
  <2>3. \A i \in 1 .. n : Do(op, list[i], 0) \in E
    BY <2>2 DEF Do
  <2> QED BY <2>1, <2>3
<1>10. first \in Seq(E) /\ Len(first) = n
  <2>1. \A k \in Nat : \A s \in [1 .. k -> E] : s \in Seq(E) /\ Len(s) = k
    BY ListsAreSequences
  <2>2. \A s \in [1 .. n -> E] : s \in Seq(E) /\ Len(s) = n
    BY <1>1, <2>1
  <2> QED BY <1>9, <2>2
<1> PICK next : next = NextVisits(op, f)
    OBVIOUS
<1>15. next = first \o rest
    BY DEF NextVisits
<1>11. /\ next \in Seq(E) /\ Len(next) = n + (Len(todo) - 1)
       /\ \A i \in 1 .. n + (Len(todo) - 1) : next[i] = IF i <= n THEN first[i] ELSE rest[i - n]
  <2>1. first \in Seq(E) /\ rest \in Seq(E)
    BY <1>8, <1>10
  <2>2. /\ first \o rest \in Seq(E) /\ Len(first \o rest) = Len(first) + Len(rest)
        /\ \A i \in 1 .. Len(first) + Len(rest) :
              (first \o rest)[i] = IF i <= Len(first) THEN first[i] ELSE rest[i - Len(first)]
    BY <2>1, ConcatProperties
  <2> QED BY <1>8, <1>10, <1>15, <2>2, Zenon
<1>12. DOMAIN next = 1 .. n + (Len(todo) - 1)
    BY <1>11, LenProperties
<1>13. \A i \in 1 .. n : next[i] = Do(op, list[i], 0)
  <2> SUFFICES ASSUME NEW i \in 1 .. n PROVE next[i] = Do(op, list[i], 0)
    OBVIOUS
  <2>1. i \in 1 .. n + (Len(todo) - 1) /\ i <= n
    BY <1>1, <1>8
  <2> QED BY <1>9, <1>11, <2>1
<1>14. \A i \in 1 .. Len(todo) - 1 : next[n + i] = todo[i + 1]
  <2> SUFFICES ASSUME NEW i \in 1 .. Len(todo) - 1 PROVE next[n + i] = todo[i + 1]
    OBVIOUS
  <2>1. n + i \in 1 .. n + (Len(todo) - 1) /\ ~(n + i <= n) /\ (n + i) - n = i
    BY <1>1, <1>8
  <2>2. next[n + i] = rest[(n + i) - n]
    BY <1>11, <2>1
  <2>3. next[n + i] = rest[i] /\ i \in 1 .. Len(rest)
    BY <1>8, <2>1, <2>2
  <2> QED BY <1>8, <2>3
<1> QED BY <1>1, <1>3, <1>5, <1>6, <1>8, <1>12, <1>13, <1>14

-----------------------------------------------------------------------------
(* The files as AiiDA writes them, and the first passes.                   *)

\* The parts of the files that AiiDA writes for a process, one by one.
RawFile(r, p, f, dir, name, node, content) ==
    /\ DOMAIN f = {"at", "dir", "entry", "node", "content", "to"}
    /\ f.at = p /\ f.dir = dir /\ f.entry = Named("", name) /\ f.node = node
    /\ f.content = content /\ f.to = <<>>

\* The five parts of a file that AiiDA writes.
LEMMA FilesSay ==
    ASSUME NEW r, NEW p, NEW dir, NEW name, NEW node, NEW content
    PROVE  RawFile(r, p, File(p, dir, Named("", name), node, content), dir, name, node, content)
    BY DEF RawFile, File

\* The files that AiiDA writes, one by one.
LEMMA RawFilesSay ==
    ASSUME NEW r, NEW p, NEW f \in RawFiles(r, p)
    PROVE  \/ RawFile(r, p, f, "", "aiida_node_metadata.yaml", "metadata", r.kind[p])
           \/ r.kind[p] = "helper" /\ RawFile(r, p, f, "", "source_file", "source", "text")
           \/ r.kind[p] \in {"finished", "failed"} /\ RawFile(r, p, f, "inputs", "aiida.in", "own", "file")
           \/ /\ r.kind[p] \in {"finished", "failed"}
              /\ RawFile(r, p, f, "outputs", "_scheduler-stderr.txt", "own", "log")
           \/ /\ r.kind[p] = "finished"
              /\ \E name \in {"out.json", "aiida.out"} :
                    /\ name = IF r.clash THEN "out.json" ELSE "aiida.out"
                    /\ RawFile(r, p, f, "outputs", name, "own", "file")
<1>1. PICK out : out = IF r.clash THEN "out.json" ELSE "aiida.out"
    OBVIOUS
<1>2. \/ f = File(p, "", Named("", "aiida_node_metadata.yaml"), "metadata", r.kind[p])
      \/ r.kind[p] = "helper" /\ f = File(p, "", Named("", "source_file"), "source", "text")
      \/ r.kind[p] \in {"finished", "failed"} /\ f = File(p, "inputs", Named("", "aiida.in"), "own", "file")
      \/ /\ r.kind[p] \in {"finished", "failed"}
         /\ f = File(p, "outputs", Named("", "_scheduler-stderr.txt"), "own", "log")
      \/ r.kind[p] = "finished" /\ f = File(p, "outputs", Named("", out), "own", "file")
  <2> HIDE DEF File, Named
  <2> QED BY <1>1 DEF RawFiles
<1>3. out \in {"out.json", "aiida.out"}
    BY <1>1
<1> QED BY <1>1, <1>2, <1>3, FilesSay, Zenon

\* What they have in common.
AsWritten(r, p, f) ==
    /\ DOMAIN f = {"at", "dir", "entry", "node", "content", "to"}
    /\ f.at = p /\ f.entry.under = "" /\ f.to = <<>>
    /\ f.node \in {"metadata", "source", "own"}
    /\ f.node # "metadata" => f.content # "workflow"
    /\ f.node = "own" => r.kind[p] \in {"finished", "failed"}

\* They are all as AsWritten says.
LEMMA RawFilesAre == \A r, p : \A f \in RawFiles(r, p) : AsWritten(r, p, f)
<1> SUFFICES ASSUME NEW r, NEW p, NEW f \in RawFiles(r, p) PROVE AsWritten(r, p, f)
    OBVIOUS
<1>1. \A name : Named("", name).under = ""
    BY DEF Named
<1>2. ASSUME NEW dir, NEW name, NEW node, NEW content, RawFile(r, p, f, dir, name, node, content)
      PROVE  /\ DOMAIN f = {"at", "dir", "entry", "node", "content", "to"}
             /\ f.at = p /\ f.entry.under = "" /\ f.to = <<>>
             /\ f.node = node /\ f.content = content
    BY <1>1, <1>2 DEF RawFile
<1>3. \/ f.node = "metadata"
      \/ f.node = "source" /\ f.content = "text"
      \/ f.node = "own" /\ (f.content = "file" \/ f.content = "log") /\ r.kind[p] \in {"finished", "failed"}
  <2> DEFINE Is(dir, name, node, content) == RawFile(r, p, f, dir, name, node, content)
  <2>1. \/ Is("", "aiida_node_metadata.yaml", "metadata", r.kind[p])
        \/ Is("", "source_file", "source", "text")
        \/ r.kind[p] \in {"finished", "failed"} /\ Is("inputs", "aiida.in", "own", "file")
        \/ r.kind[p] \in {"finished", "failed"} /\ Is("outputs", "_scheduler-stderr.txt", "own", "log")
        \/ r.kind[p] = "finished" /\ \E name : Is("outputs", name, "own", "file")
    BY RawFilesSay, Zenon
  <2>2. \A dir, name, node, content : Is(dir, name, node, content) => f.node = node /\ f.content = content
    BY <1>2
  <2> HIDE DEF Is
  <2> QED BY <2>1, <2>2
<1>4. /\ DOMAIN f = {"at", "dir", "entry", "node", "content", "to"}
      /\ f.at = p /\ f.entry.under = "" /\ f.to = <<>>
    BY <1>2, RawFilesSay, Zenon
<1> QED BY <1>3, <1>4 DEF AsWritten

\* Taking the label of the process from a name (_strip_process_label_suffixes).
LEMMA StripKeepsFiles == TreeInv /\ TreeInv' /\ FilesInv /\ Strip => FilesInv'
<1> SUFFICES ASSUME TreeInv, TreeInv', FilesInv, Strip PROVE FilesInv'
    OBVIOUS
<1>1. /\ pc = "strip" /\ pc' = "strip" /\ run' = run /\ files' = files /\ dirs' = dirs
      /\ todo # <<>> /\ Visits /\ CallsGoForward /\ FoldersOfSteps /\ NumbersDiffer
    BY DEF Strip, TreeInv, Renumbered
<1>2. /\ RunOfCalls /\ Closed /\ OwnFilesStay /\ HoistedOnly /\ \A f \in Steps : ~Raised(f)
      /\ Tidy /\ Recorded
    BY <1>1 DEF FilesInv, Listed
<1> PICK f : f = Head(todo).folder
    OBVIOUS
<1> PICK list : list = StepFolders(f)
    OBVIOUS
<1>3. f \in DOMAIN folder
  <2>1. PICK E : E = [op : {"strip", "hoist"}, folder : Steps, num : Nat]
    OBVIOUS
  <2>2. 1 \in DOMAIN todo /\ Head(todo) = todo[1]
    BY <1>1, <2>1, HeadOfTodo DEF Visits
  <2> QED BY <1>1, <1>2, <2>2 DEF Closed
<1>4. \/ UNCHANGED <<folder, placed>>
      \/ f # Root /\ \E name : Move(f, name)
    BY DEF Strip
<1>5. DOMAIN folder' = DOMAIN folder /\ folder'[Root] = folder[Root]
  <2>1. CASE f # Root /\ \E name : Move(f, name)
    <3>1. \E name : folder' = [folder EXCEPT ![f].name = name]
      BY <1>1, <1>2, <1>3, <2>1, MoveRenames
    <3> QED BY <2>1, <3>1
  <2> QED BY <1>4, <2>1
<1>6. FilesStand
    BY <1>1, <1>5 DEF FilesStand
<1>7. \A i \in DOMAIN todo' : todo'[i].folder \in DOMAIN folder
  <2> PICK kids : kids = InFolder(folder, f)
    OBVIOUS
  <2> PICK n : n = Cardinality(kids)
    OBVIOUS
  <2> PICK next : next = NextVisits("strip", f)
    OBVIOUS
  <2>1. todo' = next
    BY DEF Strip, NextVisits
  <2>2. /\ n \in Nat /\ Len(todo) \in Nat \ {0} /\ DOMAIN todo = 1 .. Len(todo)
        /\ list \in [1 .. n -> kids]
        /\ DOMAIN todo' = 1 .. n + (Len(todo) - 1)
        /\ \A i \in 1 .. n : todo'[i] = Do("strip", list[i], 0)
        /\ \A i \in 1 .. Len(todo) - 1 : todo'[n + i] = todo[i + 1]
    <3>1. /\ n \in Nat /\ Len(todo) \in Nat \ {0} /\ DOMAIN todo = 1 .. Len(todo)
          /\ list \in [1 .. n -> kids]
          /\ DOMAIN next = 1 .. n + (Len(todo) - 1)
          /\ \A i \in 1 .. n : next[i] = Do("strip", list[i], 0)
          /\ \A i \in 1 .. Len(todo) - 1 : next[n + i] = todo[i + 1]
      BY <1>1, VisitsNext
    <3> QED BY <2>1, <3>1, Zenon
  <2> SUFFICES ASSUME NEW i \in DOMAIN todo' PROVE todo'[i].folder \in DOMAIN folder
    OBVIOUS
  <2>3. CASE i \in 1 .. n
    <3>1. todo'[i].folder = list[i] /\ list[i] \in kids
      BY <2>2, <2>3, DoSays
    <3> QED BY <3>1 DEF InFolder
  <2>4. CASE i \notin 1 .. n
    <3>1. i - n \in 1 .. Len(todo) - 1 /\ n + (i - n) = i /\ (i - n) + 1 \in DOMAIN todo
      BY <2>2, <2>4
    <3>2. todo'[i] = todo[(i - n) + 1]
      BY <2>2, <3>1
    <3> QED BY <1>1, <1>2, <3>1, <3>2 DEF Closed
  <2> QED BY <2>3, <2>4
<1>8. Closed'
    BY <1>1, <1>2, <1>5, <1>7 DEF Closed
<1>9. Recorded'
    BY <1>1, <1>2, <1>3, <1>4, <1>6, <1>8, RecordsMove, RecordsRest
<1>10. Steps' = Steps
    BY <1>6, StandingFiles
<1>11. RunOfCalls' /\ OwnFilesStay' /\ HoistedOnly' /\ (\A g \in Steps : ~Raised(g))' /\ Tidy'
    BY <1>2, <1>6, <1>10, StandingFiles
<1> QED BY <1>1, <1>8, <1>9, <1>11, BeforeLinksNext DEF FilesInv

\* Going on to the next pass.
LEMMA NextPassKeepsFiles == TreeInv /\ TreeInv' /\ FilesInv /\ NextPass => FilesInv'
<1> SUFFICES ASSUME TreeInv, TreeInv', FilesInv, NextPass PROVE FilesInv'
    OBVIOUS
<1>1. /\ pc \in {"renumber", "strip", "hoist"} /\ UNCHANGED <<run, folder, files, dirs, placed>>
      /\ pc' \in {"strip", "hoist", "link"}
      /\ pc' = "strip" => todo' = Start("strip")
      /\ pc' = "hoist" => todo' = Start("hoist") /\ pc = "strip"
      /\ pc' = "strip" => pc = "renumber"
      /\ CallsGoForward /\ FoldersOfSteps
    BY DEF NextPass, TreeInv
<1>2. /\ RunOfCalls /\ Closed /\ OwnFilesStay /\ HoistedOnly
      /\ pc # "hoist" => \A f \in Steps : ~Raised(f)
      /\ Tidy /\ Recorded
    BY <1>1 DEF FilesInv, Listed
<1>3. FilesStand
    BY <1>1 DEF FilesStand
<1>4. pc' # "link" => DOMAIN todo' = {1} /\ todo'[1].folder = Root
  <2>1. \A op : DOMAIN Start(op) = {1} /\ Start(op)[1].folder = Root
    BY DoSays DEF Start
  <2> QED BY <1>1, <2>1
<1>5. Closed'
    BY <1>1, <1>2, <1>4 DEF Closed, FoldersOfSteps
<1>6. Recorded'
    BY <1>1, <1>2, <1>3, RecordsRest
<1>7. Steps' = Steps
    BY <1>3, StandingFiles
<1>8. /\ RunOfCalls' /\ OwnFilesStay' /\ HoistedOnly' /\ Tidy'
      /\ pc # "hoist" => (\A g \in Steps : ~Raised(g))'
    BY <1>2, <1>3, <1>7, StandingFiles
<1>9. pc' = "hoist" => Lifting'
  <2> SUFFICES ASSUME pc' = "hoist" PROVE Lifting'
    OBVIOUS
  <2>1. \A f : Awaited(f)' <=> f = Root
    BY <1>4 DEF Awaited
  <2>2. PICK untouched : untouched = DOMAIN folder' \ {Root}
    OBVIOUS
  <2>3. Beneath(untouched)'
    BY <1>1, <1>2, <2>1, <2>2 DEF Beneath, Closed
  <2>4. \A f \in Steps' : ~Raised(f)'
    BY <1>1, <1>8
  <2> QED BY <1>4, <2>1, <2>2, <2>3, <2>4 DEF Lifting
<1> QED BY <1>1, <1>5, <1>6, <1>8, <1>9, BeforeLinksNext DEF FilesInv

\* Renaming the dumped folders (_simplify_folder_names).
LEMMA SimplifyKeepsFiles == TreeInv /\ TreeInv' /\ FilesInv /\ Simplify => FilesInv'
<1> SUFFICES ASSUME TreeInv, TreeInv', FilesInv, Simplify PROVE FilesInv'
    OBVIOUS
<1>1. /\ pc = "simplify" /\ pc' = "list" /\ run' = run /\ todo' = todo /\ dirs' = dirs
      /\ placed' = placed /\ files' = {f \in files : Kept(f)}
      /\ DOMAIN folder' = DOMAIN folder
      /\ FoldersOfSteps /\ FoldersOfSteps' /\ DOMAIN folder = Steps
      /\ \A f \in DOMAIN folder :
            \/ folder'[f] = folder[f]
            \/ folder'[f] = [folder[f] EXCEPT !.name = Simple(@)]
    BY DEF Simplify, TreeInv
<1>2. RunOfCalls /\ Closed /\ OwnFilesStay /\ HoistedOnly /\ AsDumped
    BY <1>1 DEF FilesInv
<1>3. Steps' = Steps /\ \A p : Own(p)' = Own(p) /\ Home(p)' = Home(p) /\ Kept(p)' = Kept(p)
    BY <1>1 DEF Steps, Own, Home, Kept
<1>4. RunOfCalls'
    BY <1>1, <1>2, <1>3 DEF RunOfCalls
<1>5. Closed'
  <2>1. folder'[Root].name.park = 0 /\ folder'[Root].name.num = 0
    <3>1. folder[Root] \in [up : {run.parent[Root]}, name : Names(Root)]
      BY <1>1 DEF FoldersOfSteps
    <3>2. folder[Root].name.park = 0 /\ folder[Root].name.num = 0 /\ Root \in DOMAIN folder
      BY <1>1, <1>2 DEF Closed, FoldersOfSteps
    <3>3. CASE folder'[Root] = [folder[Root] EXCEPT !.name = Simple(@)]
      <4>1. Simple(folder[Root].name).park = 0 /\ Simple(folder[Root].name).num = 0
        BY <3>1, <3>2 DEF Simple, Names
      <4>2. folder'[Root].name = Simple(folder[Root].name)
        BY <3>1, <3>3
      <4> QED BY <4>1, <4>2
    <3> QED BY <1>1, <3>2, <3>3
  <2> QED BY <1>1, <1>2, <2>1 DEF Closed
<1>6. AsDumped'
    BY <1>1, <1>2, <1>3 DEF AsDumped
<1>7. OwnFilesStay'
  <2> SUFFICES ASSUME NEW p \in Steps, NEW f \in RawFiles(run, p),
                      f.node = "own", f.content = "log" => run.kind[p] = "failed"
               PROVE  /\ Home(p) \in DOMAIN folder
                      /\ \E g \in files' : /\ g.at = Home(p) /\ g.dir = f.dir /\ g.entry = f.entry
                                           /\ g.node = "own"
    BY <1>1, <1>3 DEF OwnFilesStay
  <2>1. f \in files /\ Home(p) = p /\ p \in DOMAIN folder
    BY <1>1, <1>2 DEF AsDumped, Home
  <2>2. f.at = p
    <3>1. AsWritten(run, p, f)
      BY RawFilesAre
    <3> QED BY <3>1 DEF AsWritten
  <2>3. Kept(f)
    BY <2>2 DEF Kept
  <2> QED BY <1>1, <2>1, <2>2, <2>3
<1>8. HoistedOnly'
    BY <1>1, <1>3 DEF HoistedOnly
<1> QED BY <1>1, <1>4, <1>5, <1>6, <1>7, <1>8, BeforeLinksNext DEF FilesInv, Listed

-----------------------------------------------------------------------------
(* The pruning.                                                            *)

\* A folder that is kept is in one that is.
LEMMA KeptAbove ==
    ASSUME CallsGoForward, FoldersOfSteps, DOMAIN folder = Steps, NEW f \in Steps \ {Root},
           Holds(folder, f)
    PROVE  run.parent[f] \in Steps /\ Holds(folder, run.parent[f])
<1>1. run.parent[f] \in Steps
  <2>1. PICK n \in 1 .. MaxSteps : Steps = 1 .. n
    BY DEF CallsGoForward
  <2>2. run.parent[f] \in 1 .. f - 1
    BY DEF CallsGoForward
  <2> QED BY <2>1, <2>2, TreeAssumption
<1>2. f \in InFolder(folder, run.parent[f])
    BY DEF InFolder, FoldersOfSteps
<1> QED BY <1>1, <1>2, HoldsUnfolds

\* Removing the bookkeeping and the folders left empty (_prune_engine_bookkeeping).
LEMMA PruneKeepsFiles == TreeInv /\ TreeInv' /\ FilesInv /\ Prune => FilesInv'
<1> SUFFICES ASSUME TreeInv, TreeInv', FilesInv, Prune PROVE FilesInv'
    OBVIOUS
<1> DEFINE kept == {f \in DOMAIN folder : f = Root \/ Holds(folder, f)}
           gone == {PathOf(folder, f) : f \in DOMAIN folder \ kept}
           P(f) == PathOf(folder, f)
<1>1. /\ CallsGoForward /\ FoldersOfSteps /\ DOMAIN folder = Steps
      /\ pc = "prune" /\ pc' = "renumber" /\ run' = run
      /\ folder' = [f \in kept |-> folder[f]]
      /\ files' = {f \in files : f.at \in kept}
      /\ dirs' = {d \in dirs : d[1] \in kept}
      /\ placed' = {p \in placed : \A g \in gone : ~IsPrefix(g, p.path)}
      /\ todo' = Start("renumber")
    BY DEF Prune, TreeInv
<1>2. /\ RunOfCalls /\ Closed /\ OwnFilesStay /\ HoistedOnly /\ \A f \in Steps : ~Raised(f)
      /\ Tidy /\ RecordsHaveFiles /\ FilesHaveRecords /\ MadeAtHome /\ MakerRecorded
      /\ ValuesAlike /\ ValueWritten
    BY <1>1 DEF FilesInv, Listed, Recorded
<1>3. Root \in kept /\ kept \subseteq DOMAIN folder
    BY <1>1 DEF FoldersOfSteps
<1>4. \A f \in kept \ {Root} : run.parent[f] \in kept
    BY <1>1, KeptAbove
<1>5. \A f \in files : ~NonContent(f) => f.at \in kept
  <2> SUFFICES ASSUME NEW f \in files, ~NonContent(f) PROVE f.at \in kept
    OBVIOUS
  <2>1. f.at \in Steps
    BY <1>1, <1>2 DEF Tidy
  <2> QED BY <1>1, <2>1, HoldsUnfolds
<1>6. Steps' = Steps /\ \A p : Own(p)' = Own(p)
    BY <1>1 DEF Steps, Own
<1>7. Closed'
  <2>1. DOMAIN todo' = {1} /\ todo'[1].num = 0
    BY <1>1, DoSays DEF Start
  <2> HIDE DEF kept
  <2> QED BY <1>1, <1>2, <1>3, <1>4, <2>1 DEF Closed
<1>8. IsTree(folder) /\ NamesDiffer(folder) /\ IsTree(folder')
    BY <1>2, <1>7, FoldersAreTree, FoldersAreTreeNext DEF ProperTree
<1>9. \A f \in kept : PathOf(folder, f)' = P(f)
  <2> HIDE DEF kept
  <2>1. \A f \in DOMAIN folder' : f \in DOMAIN folder /\ folder'[f] = folder[f]
    BY <1>1, <1>3
  <2>2. \A f \in DOMAIN folder' : PathOf(folder', f) = PathOf(folder, f)
    BY <1>8, <2>1, KeptPaths
  <2> QED BY <1>1, <2>2
<1>10. \A f \in DOMAIN folder : P(f) \in gone \/ f \in kept
    OBVIOUS
<1>11. \A h \in kept : \A f \in DOMAIN folder : IsPrefix(P(f), P(h)) => f \in kept
  <2> DEFINE U == {h \in DOMAIN folder :
                     h \in kept => \A f \in DOMAIN folder : IsPrefix(P(f), P(h)) => f \in kept}
  <2> HIDE DEF kept, P
  <2>1. \A f, h \in DOMAIN folder :
           IsPrefix(P(f), P(h)) => h = f \/ (h # Root /\ IsPrefix(P(f), P(folder[h].up)))
    BY <1>8, PrefixIsAbove DEF P
  <2>2. Root \in U
    BY <1>3, <2>1
  <2>3. ASSUME NEW h \in DOMAIN folder \ {Root}, folder[h].up \in U PROVE h \in U
    <3>1. h \in kept => folder[h].up \in kept
      BY <1>1, <1>4, StepsAreNumbers
    <3> QED BY <2>1, <2>3, <3>1
  <2> HIDE DEF U
  <2>4. DOMAIN folder \subseteq U
    BY <1>8, <2>2, <2>3, FromTheRoot
  <2> QED BY <1>3, <2>4 DEF U
<1>12. ASSUME NEW p \in placed, NEW f \in files, Of(p, f)
       PROVE  /\ p \in placed' <=> f.at \in kept
              /\ f.at \in kept => Of(p, f)'
  <2>1. f.at \in DOMAIN folder /\ p.path = P(f.at)
    BY <1>2, <1>12 DEF Tidy, Of
  <2>2. f.at \in kept => \A g \in gone : ~IsPrefix(g, p.path)
    BY <1>11, <2>1
  <2>3. f.at \notin kept => P(f.at) \in gone /\ IsPrefix(P(f.at), P(f.at))
    <3>1. P(f.at) \in Seq(AnyName)
      BY <1>8, <2>1, PathsUnfold
    <3> QED BY <1>10, <2>1, <3>1, MovedItself
  <2>4. p \in placed' <=> f.at \in kept
    BY <1>1, <2>1, <2>2, <2>3
  <2>5. f.at \in kept => PathOf(folder, f.at)' = P(f.at)
    BY <1>9
  <2> HIDE DEF P, kept
  <2>6. f.at \in kept => Of(p, f)'
    BY <1>12, <2>1, <2>5 DEF Of
  <2> QED BY <2>4, <2>6
<1> HIDE DEF kept, gone, P
<1>13. \A f \in DOMAIN folder : f \in kept => Home(f)' = f
    BY <1>1, <1>3 DEF Home
<1>14. ASSUME NEW p \in Steps, NEW f \in Own(p)
       PROVE  p \in kept /\ \E g \in files' : g.at = p /\ g.dir = f.dir /\ g.entry = f.entry
                                              /\ g.node = "own"
  <2>1. PICK g \in files : g.at = p /\ g.dir = f.dir /\ g.entry = f.entry /\ g.node = "own"
    BY <1>1, <1>2 DEF Own, OwnFilesStay, Home
  <2>2. ~NonContent(g)
    BY <2>1 DEF NonContent, Echoed
  <2> QED BY <1>1, <1>5, <2>1, <2>2
<1>15. OwnFilesStay'
  <2> SUFFICES ASSUME NEW p \in Steps, NEW f \in Own(p)
               PROVE  /\ Home(p)' \in DOMAIN folder'
                      /\ \E g \in files' : /\ g.at = Home(p)' /\ g.dir = f.dir /\ g.entry = f.entry
                                           /\ g.node = "own"
    BY <1>1, <1>6 DEF OwnFilesStay, Own
  <2> QED BY <1>1, <1>13, <1>14
<1>16. HoistedOnly'
  <2>1. \A p \in Steps : Own(p) # {} => p \in DOMAIN folder'
    BY <1>1, <1>14
  <2> QED BY <1>1, <1>6, <2>1 DEF HoistedOnly
<1>17. \A f \in Steps' : ~Raised(f)'
    BY <1>1, <1>2, <1>6 DEF Raised
<1>18. Tidy'
  <2>1. DOMAIN folder' = kept
    BY <1>1
  <2> QED BY <1>1, <1>2, <2>1 DEF Tidy, SameName
<1>19. RecordsHaveFiles'
  <2> SUFFICES ASSUME NEW p \in placed'
               PROVE  /\ DOMAIN p = {"path", "dir", "entry", "node", "content", "created"}
                      /\ \E f \in files' : Of(p, f)'
    BY DEF RecordsHaveFiles
  <2>1. p \in placed
    BY <1>1
  <2>2. PICK f \in files : Of(p, f)
    BY <1>2, <2>1 DEF RecordsHaveFiles
  <2>3. f.at \in kept /\ Of(p, f)'
    BY <1>12, <2>1, <2>2
  <2> QED BY <1>1, <1>2, <2>1, <2>3 DEF RecordsHaveFiles
<1>20. FilesHaveRecords'
  <2> SUFFICES ASSUME NEW f \in files', f.node \in {"data", "source"}
               PROVE  \E p \in placed' : Of(p, f)'
    BY DEF FilesHaveRecords
  <2>1. f \in files /\ f.at \in kept
    BY <1>1
  <2>2. PICK p \in placed : Of(p, f)
    BY <1>2, <2>1 DEF FilesHaveRecords
  <2> QED BY <1>12, <2>1, <2>2
<1>21. ASSUME NEW p \in placed, p.created, p.node = "data"
       PROVE  /\ run.creator # 0 /\ run.creator \in Steps /\ p.dir = "outputs"
              /\ \E f \in files : f.at = run.creator /\ Of(p, f)
  <2>1. /\ run.creator # 0 /\ run.creator \in Steps /\ p.dir = "outputs"
        /\ p.path = PathOf(folder, run.creator)
    BY <1>1, <1>2, <1>21 DEF MadeAtHome, Home, RunOfCalls
  <2>2. PICK f \in files : Of(p, f)
    BY <1>2 DEF RecordsHaveFiles
  <2>3. f.at \in DOMAIN folder /\ PathOf(folder, f.at) = PathOf(folder, run.creator)
    BY <1>2, <2>1, <2>2 DEF Tidy, Of
  <2>4. f.at = run.creator
    BY <1>1, <1>8, <2>1, <2>3, PathsDiffer
  <2> QED BY <2>1, <2>2, <2>4
<1>22. MadeAtHome'
  <2> SUFFICES ASSUME NEW p \in placed', p.created, p.node = "data"
               PROVE  /\ run.creator # 0 /\ p.dir = "outputs" /\ run.creator \in DOMAIN folder'
                      /\ p.path = PathOf(folder, run.creator)'
    BY <1>1 DEF MadeAtHome, Home
  <2>1. p \in placed
    BY <1>1
  <2>2. PICK f \in files : f.at = run.creator /\ Of(p, f)
    BY <1>21, <2>1
  <2>3. f.at \in kept /\ Of(p, f)'
    BY <1>12, <2>1, <2>2
  <2> QED BY <1>1, <1>21, <2>1, <2>2, <2>3 DEF Of
<1>23. MakerRecorded'
  <2>1. HasFolder' => HasFolder
    BY <1>1, <1>3 DEF HasFolder, IsCalcJob
  <2>2. Lists(run.creator)' = Lists(run.creator) /\ Content(FALSE)' = Content(FALSE)
    BY <1>1 DEF Lists, Content
  <2> SUFFICES ASSUME HasFolder', run.value # "empty"
               PROVE  /\ Lists(run.creator)
                      /\ \E p \in placed' : p.created /\ p.node = "data" /\ p.content = Content(FALSE)
    BY <1>1, <2>2 DEF MakerRecorded
  <2>3. /\ run.creator # 0 /\ run.creator \in Steps /\ run.kind[run.creator] \in {"finished", "helper"}
        /\ run.value \in {"json", "file"} /\ run.creator # Root
    BY <1>2, <2>1 DEF HasFolder, RunOfCalls
  <2>4. CASE Lists(run.creator)
    <3>1. PICK p \in placed : p.created /\ p.node = "data" /\ p.content = Content(FALSE)
      BY <1>2, <2>1, <2>4 DEF MakerRecorded
    <3>2. PICK f \in files : f.at = run.creator /\ Of(p, f) /\ p.dir = "outputs"
      BY <1>21, <3>1
    <3>3. ~NonContent(f)
      BY <3>1, <3>2 DEF NonContent, Echoed, Of
    <3> QED BY <1>5, <1>12, <2>4, <3>1, <3>2, <3>3
  <2>5. CASE ~Lists(run.creator)
    <3>1. \A f \in files : f.at = run.creator => NonContent(f)
      BY <1>2, <2>1, <2>5 DEF MakerRecorded
    <3>2. run.kind[run.creator] = "helper"
      BY <2>3, <2>5 DEF Lists
    <3>3. InFolder(folder, run.creator) = {}
      <4> SUFFICES ASSUME NEW h \in InFolder(folder, run.creator) PROVE FALSE
        OBVIOUS
      <4>1. h \in Steps /\ run.parent[h] = run.creator
        BY <1>1, KidsAreFinite
      <4>2. h # Root
        BY <1>1, <2>3, <4>1 DEF CallsGoForward, NoStep
      <4> QED BY <1>2, <3>2, <4>1, <4>2 DEF RunOfCalls
    <3>4. ~Holds(folder, run.creator)
      BY <1>1, <2>3, <3>1, <3>3, HoldsUnfolds
    <3>5. run.creator \notin kept
      BY <2>3, <3>4 DEF kept
    <3>6. ~HasFolder'
      BY <1>1, <3>2, <3>5 DEF HasFolder, IsCalcJob
    <3> QED BY <3>6
  <2> QED BY <2>4, <2>5
<1>24. ValuesAlike'
  <2>1. Content(FALSE)' = Content(FALSE)
    BY <1>1 DEF Content
  <2> QED BY <1>1, <1>2, <2>1 DEF ValuesAlike
<1>25. ValueWritten'
  <2> SUFFICES ASSUME run.value # "empty",
                      \/ run.creator # 0 /\ IsCalcJob(run.creator)
                      \/ \E p \in Steps : run.returns[p] # "no"
               PROVE  \E f \in files' : f.node = "data" /\ f.dir = "outputs"
    BY <1>1, <1>6 DEF ValueWritten, IsCalcJob
  <2>1. PICK f \in files : f.node = "data" /\ f.dir = "outputs"
    BY <1>2 DEF ValueWritten
  <2>2. ~NonContent(f)
    BY <2>1 DEF NonContent, Echoed
  <2> QED BY <1>1, <1>5, <2>1, <2>2
<1>26. RunOfCalls'
    BY <1>1, <1>2, <1>6 DEF RunOfCalls
<1>27. Recorded'
    BY <1>19, <1>20, <1>22, <1>23, <1>24, <1>25 DEF Recorded
<1> QED BY <1>1, <1>7, <1>15, <1>16, <1>17, <1>18, <1>26, <1>27, BeforeLinksNext DEF FilesInv

-----------------------------------------------------------------------------
(* The links.                                                              *)

\* A record and a file are at one place just if the record is of the file.
LEMMA PlacesTell ==
    ASSUME IsTree(folder), NamesDiffer(folder), Tidy, RecordsHaveFiles
    PROVE  /\ \A f, g \in files : Where(f) = Where(g) => f = g
           /\ \A p \in placed, f \in files : Place(p) = Where(f) <=> Of(p, f)
<1>1. \A f, g \in files :
         PathOf(folder, f.at) = PathOf(folder, g.at) /\ f.dir = g.dir /\ f.entry = g.entry => f = g
  <2> SUFFICES ASSUME NEW f \in files, NEW g \in files, f.dir = g.dir, f.entry = g.entry,
                      PathOf(folder, f.at) = PathOf(folder, g.at)
               PROVE  f = g
    OBVIOUS
  <2>1. f.at \in DOMAIN folder /\ g.at \in DOMAIN folder
    BY DEF Tidy
  <2>2. f.at = g.at
    BY <2>1, PathsDiffer
  <2> QED BY <2>2 DEF Tidy, SameName
<1>2. \A f, g : Where(f) = Where(g) <=>
         PathOf(folder, f.at) = PathOf(folder, g.at) /\ f.dir = g.dir /\ f.entry = g.entry
    BY DEF Where
<1>3. \A p, f : Place(p) = Where(f) <=>
         p.path = PathOf(folder, f.at) /\ p.dir = f.dir /\ p.entry = f.entry
    BY DEF Where, Place
<1>4. ASSUME NEW p \in placed, NEW f \in files, Place(p) = Where(f)
      PROVE  Of(p, f)
  <2>1. PICK g \in files : Of(p, g)
    BY DEF RecordsHaveFiles
  <2>2. f = g
    BY <1>1, <1>3, <1>4, <2>1 DEF Of
  <2> QED BY <2>1, <2>2
<1>5. \A p, f : Of(p, f) => Place(p) = Where(f)
    BY <1>3 DEF Of
<1> QED BY <1>1, <1>2, <1>4, <1>5

\* Turning copies into links to the original (_link_duplicate_files).
LEMMA LinkKeepsFiles == TreeInv /\ TreeInv' /\ FilesInv /\ Link => FilesInv'
<1> SUFFICES ASSUME TreeInv, TreeInv', FilesInv, Link PROVE FilesInv'
    OBVIOUS
<1>1. /\ pc = "link" /\ pc' = "done" /\ UNCHANGED <<run, todo, folder, dirs, placed>>
    BY DEF Link
<1>2. /\ RunOfCalls /\ Closed /\ OwnFilesStay /\ HoistedOnly
      /\ Tidy /\ RecordsHaveFiles /\ FilesHaveRecords /\ MadeAtHome /\ MakerRecorded
      /\ ValuesAlike /\ ValueWritten
    BY <1>1 DEF FilesInv, Listed, Recorded
<1>3. IsTree(folder) /\ NamesDiffer(folder)
    BY <1>2, FoldersAreTree DEF ProperTree
<1>4. /\ \A f, g \in files : Where(f) = Where(g) => f = g
      /\ \A p \in placed, f \in files : Place(p) = Where(f) <=> Of(p, f)
    BY <1>2, <1>3, PlacesTell
<1> DEFINE At(f) == {q \in placed : Place(q) = Where(f)}
           For(choice, f) == Place(choice[Key(CHOOSE q \in At(f) : TRUE)])
           After(choice, f) == IF At(f) = {} \/ For(choice, f) = Where(f) THEN f
                               ELSE [f EXCEPT !.to = For(choice, f)]
<1>5. PICK choice :
         /\ \A p \in placed : Group(p) # {} => choice[Key(p)] \in Canonical(p)
         /\ files' = {After(choice, f) : f \in files}
    BY DEF Link
<1> DEFINE New(f) == After(choice, f)
           To(f, to) == [f EXCEPT !.to = to]
           Chosen(p) == choice[Key(p)]
<1>6. ASSUME NEW p \in placed
      PROVE  /\ p \in Group(p) /\ Chosen(p) \in Canonical(p)
             /\ Chosen(p) \in placed /\ Chosen(p).node = p.node /\ Chosen(p).content = p.content
             /\ \E g \in files : Of(Chosen(p), g)
  <2>1. \A q \in placed : \E f \in files : Where(f) = Place(q)
    BY <1>2, <1>4 DEF RecordsHaveFiles
  <2>2. p \in Group(p)
    BY <2>1 DEF Group
  <2>3. Chosen(p) \in Canonical(p)
    BY <1>5, <2>2
  <2>4. Chosen(p) \in Group(p)
    BY <2>3 DEF Canonical
  <2> QED BY <1>2, <2>2, <2>3, <2>4 DEF Group, RecordsHaveFiles
\* A file either stays, or is a link to one that stays and is of the same node.
<1>7. ASSUME NEW f \in files
      PROVE  \/ At(f) = {} /\ New(f) = f
             \/ \E q \in placed : \E g \in files :
                   /\ Of(q, f) /\ Of(Chosen(q), g)
                   /\ \/ New(f) = f /\ f = g
                      \/ New(f) = To(f, Place(Chosen(q)))
  <2>1. CASE At(f) = {}
    BY <2>1
  <2>2. CASE At(f) # {}
    <3>1. PICK q : q = CHOOSE r \in At(f) : TRUE
      OBVIOUS
    <3>2. q \in At(f)
      BY <2>2, <3>1
    <3>3. q \in placed /\ Of(q, f)
      BY <1>4, <3>2
    <3>4. PICK g \in files : Of(Chosen(q), g)
      BY <1>6, <3>3
    <3>5. For(choice, f) = Place(Chosen(q)) /\ Chosen(q) \in placed
      BY <1>6, <3>1, <3>3
    <3>6. Place(Chosen(q)) = Where(g)
      BY <1>4, <3>4, <3>5
    <3>7. CASE For(choice, f) = Where(f)
      <4>1. New(f) = f /\ f = g
        BY <1>4, <3>5, <3>6, <3>7
      <4> QED BY <3>3, <3>4, <4>1
    <3>8. CASE For(choice, f) # Where(f)
      <4>1. New(f) = To(f, For(choice, f))
        BY <2>2, <3>8
      <4> QED BY <3>3, <3>4, <3>5, <4>1
    <3> QED BY <3>7, <3>8
  <2> QED BY <2>1, <2>2
<1>8. ASSUME NEW q \in placed, NEW g \in files, Of(Chosen(q), g)
      PROVE  New(g) = g
  <2>1. Chosen(q) \in At(g)
    BY <1>4, <1>6, <1>8
  <2>2. PICK r : r = CHOOSE s \in At(g) : TRUE
    OBVIOUS
  <2>3. r \in placed /\ Of(r, g)
    BY <1>4, <2>1, <2>2
  <2>4. Key(r) = Key(q)
    BY <1>6, <1>8, <2>3 DEF Key, Of
  <2>5. For(choice, g) = Place(Chosen(q))
    BY <2>2, <2>4
  <2>6. For(choice, g) = Where(g)
    BY <1>4, <1>6, <1>8, <2>5
  <2> QED BY <2>6
<1>9. ASSUME NEW f \in files, NEW to
      PROVE  /\ To(f, to).at = f.at /\ To(f, to).dir = f.dir /\ To(f, to).entry = f.entry
             /\ To(f, to).node = f.node /\ To(f, to).content = f.content /\ To(f, to).to = to
  <2>1. DOMAIN f = {"at", "dir", "entry", "node", "content", "to"}
    BY <1>2 DEF Tidy
  <2> QED BY <2>1
<1>10. files' = {New(f) : f \in files}
    BY <1>5
<1> HIDE DEF New, At, Chosen, To
<1>11. \A f \in files : /\ New(f).at = f.at /\ New(f).dir = f.dir /\ New(f).entry = f.entry
                        /\ New(f).node = f.node /\ New(f).content = f.content
  <2> SUFFICES ASSUME NEW f \in files
               PROVE  /\ New(f).at = f.at /\ New(f).dir = f.dir /\ New(f).entry = f.entry
                      /\ New(f).node = f.node /\ New(f).content = f.content
    OBVIOUS
  <2>1. New(f) = f \/ \E to : New(f) = To(f, to)
    BY <1>7
  <2> QED BY <1>9, <2>1
<1>12. /\ Steps' = Steps /\ \A p : Home(p)' = Home(p) /\ Own(p)' = Own(p) /\ Raised(p)' = Raised(p)
       /\ \A p : Where(p)' = Where(p)
    BY <1>1 DEF Steps, Home, Own, Raised, Where
<1>13. OwnFilesStay'
  <2> SUFFICES ASSUME NEW p \in Steps, NEW f \in RawFiles(run, p),
                      f.node = "own", f.content = "log" => run.kind[p] = "failed"
               PROVE  /\ Home(p) \in DOMAIN folder
                      /\ \E g \in files' : /\ g.at = Home(p) /\ g.dir = f.dir /\ g.entry = f.entry
                                           /\ g.node = "own"
    BY <1>1, <1>12 DEF OwnFilesStay
  <2>1. Home(p) \in DOMAIN folder
    BY <1>2 DEF OwnFilesStay
  <2>2. PICK g \in files : /\ g.at = Home(p) /\ g.dir = f.dir /\ g.entry = f.entry
                           /\ g.node = "own"
    BY <1>2 DEF OwnFilesStay
  <2>3. New(g) \in files'
    BY <1>10
  <2> QED BY <1>11, <2>1, <2>2, <2>3
<1>14. LinksResolve'
  <2> SUFFICES ASSUME NEW h \in files', h.to # <<>>
               PROVE  \E g \in files' :
                         /\ Where(g) = h.to /\ g.to = <<>> /\ g.node = h.node
                         /\ g.content = h.content
                         /\ h.node = "data" /\ h.content # "nested" /\ HasFolder
                            => g.dir = "outputs" /\ g.at = Home(run.creator)
    BY <1>1, <1>12 DEF LinksResolve, HasFolder, IsCalcJob
  <2>1. PICK f \in files : h = New(f)
    BY <1>10
  <2>2. f.to = <<>>
    BY <1>2 DEF Tidy
  <2>3. PICK q \in placed, g \in files :
           Of(q, f) /\ Of(Chosen(q), g) /\ New(f) = To(f, Place(Chosen(q)))
    BY <1>7, <2>1, <2>2
  <2>4. g \in files' /\ g.to = <<>>
    BY <1>2, <1>8, <1>10, <2>3 DEF Tidy
  <2>5. Where(g) = h.to
    BY <1>4, <1>6, <1>9, <2>1, <2>3
  <2>6. g.node = h.node /\ g.content = h.content
    BY <1>6, <1>11, <2>1, <2>3 DEF Of
  <2>7. ASSUME h.node = "data", h.content # "nested", HasFolder
        PROVE  g.dir = "outputs" /\ g.at = Home(run.creator)
    <3>1. f.node = "data" /\ f.content = Content(FALSE) /\ run.value # "empty"
      BY <1>2, <1>11, <2>1, <2>7 DEF ValuesAlike
    <3>2. PICK p \in placed : p.created /\ p.node = "data" /\ p.content = Content(FALSE)
      BY <1>1, <1>2, <2>7, <3>1 DEF MakerRecorded
    <3>3. q.node = "data" /\ q.content = Content(FALSE)
      BY <2>3, <3>1 DEF Of
    <3>4. p \in {r \in Group(q) : r.created}
      <4>1. p \in Group(p)
        BY <1>6
      <4> QED BY <3>2, <3>3, <4>1 DEF Group
    <3>5. Chosen(q) \in placed /\ Chosen(q).created /\ Chosen(q).node = "data"
      <4>1. Chosen(q) \in Canonical(q)
        BY <1>6
      <4>2. Chosen(q) \in {r \in Group(q) : r.created}
        BY <3>4, <4>1 DEF Canonical
      <4> QED BY <1>6, <3>3, <4>2
    <3>6. /\ Chosen(q).dir = "outputs" /\ Home(run.creator) \in DOMAIN folder
          /\ Chosen(q).path = PathOf(folder, Home(run.creator))
      BY <1>2, <3>5 DEF MadeAtHome
    <3>7. g.dir = "outputs" /\ PathOf(folder, g.at) = PathOf(folder, Home(run.creator))
      BY <2>3, <3>6 DEF Of
    <3>8. g.at \in DOMAIN folder
      BY <1>2 DEF Tidy
    <3>9. g.at = Home(run.creator)
      BY <1>3, <3>6, <3>7, <3>8, PathsDiffer
    <3> QED BY <3>7, <3>9
  <2> QED BY <2>4, <2>5, <2>6, <2>7
<1>15. ValuesSurvive'
  <2> SUFFICES ASSUME run.value # "empty",
                      \/ run.creator # 0 /\ IsCalcJob(run.creator)
                      \/ \E p \in Steps : run.returns[p] # "no"
               PROVE  \E f \in files' : f.node = "data" /\ f.to = <<>>
    BY <1>1, <1>12 DEF ValuesSurvive, IsCalcJob
  <2>1. PICK f \in files : f.node = "data"
    BY <1>2 DEF ValueWritten
  <2>2. CASE New(f) = f
    <3>1. f \in files'
      BY <1>10, <2>2
    <3> QED BY <1>2, <2>1, <3>1 DEF Tidy
  <2>3. CASE New(f) # f
    <3>1. PICK q \in placed, g \in files : Of(q, f) /\ Of(Chosen(q), g)
      BY <1>7, <2>3
    <3>2. g.node = "data"
      BY <1>6, <2>1, <3>1 DEF Of
    <3>3. g \in files'
      BY <1>8, <1>10, <3>1
    <3> QED BY <1>2, <3>2, <3>3 DEF Tidy
  <2> QED BY <2>2, <2>3
<1>16. RunOfCalls'
    BY <1>1, <1>2, <1>12 DEF RunOfCalls
<1>17. Closed'
    BY <1>1, <1>2 DEF Closed
<1>18. HoistedOnly'
    BY <1>1, <1>2, <1>12 DEF HoistedOnly
<1> QED BY <1>1, <1>13, <1>14, <1>15, <1>16, <1>17, <1>18 DEF FilesInv, Listed

-----------------------------------------------------------------------------
(* The visits to folders that may hold a lone calculation.                 *)

\* What a folder that is visited has to do with the others.
LEMMA FirstIsVisited ==
    ASSUME TreeInv, FilesInv, pc = "hoist", todo # <<>>, NEW f, f = Head(todo).folder
    PROVE  /\ f \in DOMAIN folder /\ Awaited(f)
           /\ Len(todo) \in Nat \ {0} /\ DOMAIN todo = 1 .. Len(todo) /\ todo[1].folder = f
           /\ \A i \in DOMAIN todo : todo[i].folder \in DOMAIN folder /\ (todo[i].folder = f => i = 1)
           /\ \A i, j \in DOMAIN todo : todo[i].folder = todo[j].folder => i = j
<1>1. Visits /\ Closed /\ Lifting
    BY DEF TreeInv, FilesInv, Renumbered
<1>2. PICK E : E = [op : {"strip", "hoist"}, folder : Steps, num : Nat]
    OBVIOUS
<1>3. todo \in Seq(E)
    BY <1>1, <1>2 DEF Visits
<1>4. 1 \in DOMAIN todo /\ Head(todo) = todo[1]
    BY <1>3, HeadOfTodo
<1>5. Len(todo) \in Nat \ {0} /\ DOMAIN todo = 1 .. Len(todo)
    BY <1>3, EmptySeq, LenProperties
<1>6. \A i, j \in DOMAIN todo : todo[i].folder = todo[j].folder => i = j
    BY <1>1 DEF Lifting
<1>7. \A i \in DOMAIN todo : todo[i].folder \in DOMAIN folder
    BY <1>1 DEF Closed
<1> QED BY <1>4, <1>5, <1>6, <1>7 DEF Awaited

\* Nothing to lift: the folders in the folder are next.
LEMMA VisitKeepsFiles ==
    ASSUME TreeInv, TreeInv', FilesInv, Hoist, Lone(Head(todo).folder) = {}
    PROVE  FilesInv'
<1> PICK f : f = Head(todo).folder
    OBVIOUS
<1> PICK kids : kids = InFolder(folder, f)
    OBVIOUS
<1> PICK n : n = Cardinality(kids)
    OBVIOUS
<1> PICK list : list = StepFolders(f)
    OBVIOUS
<1> PICK next : next = NextVisits("hoist", f)
    OBVIOUS
<1>1. /\ pc = "hoist" /\ pc' = "hoist" /\ todo # <<>> /\ todo' = next
      /\ UNCHANGED <<run, folder, files, dirs, placed>>
      /\ Visits /\ CallsGoForward /\ FoldersOfSteps /\ NumbersDiffer
    BY DEF Hoist, TreeInv, Renumbered, NextVisits
<1>2. /\ RunOfCalls /\ Closed /\ OwnFilesStay /\ HoistedOnly /\ Lifting /\ Tidy /\ Recorded
    BY <1>1 DEF FilesInv, Listed
<1>3. /\ f \in DOMAIN folder /\ Awaited(f)
      /\ Len(todo) \in Nat \ {0} /\ DOMAIN todo = 1 .. Len(todo) /\ todo[1].folder = f
      /\ \A i \in DOMAIN todo : todo[i].folder \in DOMAIN folder /\ (todo[i].folder = f => i = 1)
      /\ \A i, j \in DOMAIN todo : todo[i].folder = todo[j].folder => i = j
    BY <1>1, FirstIsVisited
<1>4. FilesStand
    BY <1>1 DEF FilesStand
<1>5. /\ n \in Nat /\ list \in [1 .. n -> kids]
      /\ \A i, j \in 1 .. n : i # j => list[i] # list[j]
      /\ \A k \in kids : \E i \in 1 .. n : list[i] = k
      /\ DOMAIN todo' = 1 .. n + (Len(todo) - 1)
      /\ \A i \in 1 .. n : todo'[i] = Do("hoist", list[i], 0)
      /\ \A i \in 1 .. Len(todo) - 1 : todo'[n + i] = todo[i + 1]
  <2>1. /\ n \in Nat /\ list \in [1 .. n -> kids]
        /\ \A i, j \in 1 .. n : i # j => list[i] # list[j]
        /\ \A k \in kids : \E i \in 1 .. n : list[i] = k
        /\ DOMAIN next = 1 .. n + (Len(todo) - 1)
        /\ \A i \in 1 .. n : next[i] = Do("hoist", list[i], 0)
        /\ \A i \in 1 .. Len(todo) - 1 : next[n + i] = todo[i + 1]
    BY <1>1, VisitsNext
  <2> QED BY <1>1, <2>1, Zenon
<1>6. /\ \A h : h \in kids <=> h \in DOMAIN folder /\ run.parent[h] = f
      /\ \A h \in DOMAIN folder : run.parent[h] \in Nat /\ h \in Nat /\ run.parent[h] < h
    BY <1>1, StepsAreNumbers DEF InFolder
\* What is next, entry by entry.
<1>7. \A i \in DOMAIN todo' :
         \/ i \in 1 .. n /\ todo'[i].folder = list[i] /\ list[i] \in kids
         \/ /\ i \notin 1 .. n /\ i - n + 1 \in DOMAIN todo /\ i - n + 1 # 1
            /\ todo'[i] = todo[i - n + 1]
  <2> SUFFICES ASSUME NEW i \in DOMAIN todo'
               PROVE  \/ i \in 1 .. n /\ todo'[i].folder = list[i] /\ list[i] \in kids
                      \/ /\ i \notin 1 .. n /\ i - n + 1 \in DOMAIN todo /\ i - n + 1 # 1
                         /\ todo'[i] = todo[i - n + 1]
    OBVIOUS
  <2>1. CASE i \in 1 .. n
    BY <1>5, <2>1, DoSays
  <2>2. CASE i \notin 1 .. n
    <3>1. i - n \in 1 .. Len(todo) - 1 /\ n + (i - n) = i
      BY <1>3, <1>5, <2>2
    <3>2. todo'[i] = todo[(i - n) + 1]
      BY <1>5, <3>1
    <3> QED BY <1>3, <2>2, <3>1, <3>2
  <2> QED BY <2>1, <2>2
<1>8. \A h : Awaited(h)' <=> h \in kids \/ (Awaited(h) /\ h # f)
  <2>1. \A h : Awaited(h)' => h \in kids \/ (Awaited(h) /\ h # f)
    BY <1>3, <1>7 DEF Awaited
  <2>2. ASSUME NEW h \in kids PROVE Awaited(h)'
    <3>1. PICK i \in 1 .. n : list[i] = h
      BY <1>5
    <3>2. i \in DOMAIN todo' /\ todo'[i].folder = h
      BY <1>3, <1>5, <3>1, DoSays
    <3> QED BY <3>2 DEF Awaited
  <2>3. ASSUME NEW h, Awaited(h), h # f PROVE Awaited(h)'
    <3>1. PICK j \in DOMAIN todo : todo[j].folder = h
      BY <2>3 DEF Awaited
    <3>2. j # 1
      BY <1>3, <2>3, <3>1
    <3>3. j - 1 \in 1 .. Len(todo) - 1 /\ (j - 1) + 1 = j /\ n + (j - 1) \in DOMAIN todo'
      BY <1>3, <1>5, <3>1, <3>2
    <3>4. todo'[n + (j - 1)] = todo[j]
      BY <1>5, <3>3
    <3> QED BY <3>1, <3>3, <3>4 DEF Awaited
  <2> QED BY <2>1, <2>2, <2>3
<1>9. PICK untouched \in SUBSET DOMAIN folder :
         /\ Beneath(untouched) /\ \A h \in untouched : ~Awaited(h)
         /\ \A h \in Steps : Raised(h) => ~Awaited(h) /\ h \notin untouched
    BY <1>2 DEF Lifting
<1>10. kids \subseteq untouched /\ Root \notin kids
  <2>1. Root \notin kids
    BY <1>1, <1>3, <1>6 DEF CallsGoForward, NoStep
  <2> QED BY <1>3, <1>6, <1>9, <2>1 DEF Beneath
<1>11. \A i, j \in DOMAIN todo' : todo'[i].folder = todo'[j].folder => i = j
  <2> SUFFICES ASSUME NEW i \in DOMAIN todo', NEW j \in DOMAIN todo', todo'[i].folder = todo'[j].folder
               PROVE  i = j
    OBVIOUS
  <2>1. CASE i \in 1 .. n /\ j \in 1 .. n
    BY <1>5, <1>7, <2>1
  <2>2. CASE i \notin 1 .. n /\ j \notin 1 .. n
    <3>1. i - n + 1 = j - n + 1
      BY <1>3, <1>7, <2>2
    <3> QED BY <1>3, <1>5, <3>1
  <2>3. \A k, l \in DOMAIN todo' : k \in 1 .. n /\ l \notin 1 .. n => todo'[k].folder # todo'[l].folder
    <3>1. \A k \in DOMAIN todo' : k \in 1 .. n => todo'[k].folder \in untouched
      BY <1>7, <1>10
    <3>2. \A l \in DOMAIN todo' : l \notin 1 .. n => Awaited(todo'[l].folder)
      BY <1>7 DEF Awaited
    <3> QED BY <1>9, <3>1, <3>2
  <2> QED BY <2>1, <2>2, <2>3
<1>12. Closed'
  <2>1. \A i \in DOMAIN todo' : todo'[i].folder \in DOMAIN folder
    BY <1>3, <1>6, <1>7
  <2> QED BY <1>1, <1>2, <2>1 DEF Closed
<1>13. \A h : Raised(h)' = Raised(h)
    BY <1>4, StandingFiles
<1>14. Steps' = Steps
    BY <1>4, StandingFiles
<1>15. Lifting'
  <2> PICK rest : rest = untouched \ kids
    OBVIOUS
  <2>1. \A h \in DOMAIN folder : h \in untouched <=>
           h # Root /\ (run.parent[h] \in untouched \/ Awaited(run.parent[h]))
    BY <1>9 DEF Beneath
  <2>2. ASSUME NEW h \in DOMAIN folder
        PROVE  h \in rest <=> h # Root /\ (run.parent[h] \in rest \/ Awaited(run.parent[h])')
    <3> PICK up : up = run.parent[h]
      OBVIOUS
    <3>1. h \in kids <=> up = f
      BY <1>6
    <3>2. h \in untouched <=> h # Root /\ (up \in untouched \/ Awaited(up))
      BY <2>1
    <3>3. Awaited(up)' <=> up \in kids \/ (Awaited(up) /\ up # f)
      BY <1>8
    <3>4. f \notin untouched /\ f \notin kids
      BY <1>3, <1>9, <1>10
    <3>5. up \in kids => up \in untouched
      BY <1>10
    <3>6. h \in rest <=> h \in untouched /\ up # f
      BY <3>1
    <3>7. up \in rest <=> up \in untouched /\ up \notin kids
      OBVIOUS
    <3>8. Awaited(run.parent[h])' <=> Awaited(up)'
      BY <1>1
    <3> QED BY <3>2, <3>3, <3>4, <3>5, <3>6, <3>7, <3>8
  <2>4. Beneath(rest)'
    BY <1>1, <2>2 DEF Beneath
  <2>5. \A h \in rest : ~Awaited(h)'
    BY <1>8, <1>9
  <2>6. \A h \in Steps : Raised(h) => ~Awaited(h)' /\ h \notin rest
    BY <1>8, <1>9, <1>10
  <2> QED BY <1>1, <1>9, <1>11, <1>13, <1>14, <2>4, <2>5, <2>6 DEF Lifting
<1>16. Recorded'
    BY <1>1, <1>2, <1>4, RecordsRest
<1>17. RunOfCalls' /\ OwnFilesStay' /\ HoistedOnly' /\ Tidy'
    BY <1>2, <1>4, StandingFiles
<1> QED BY <1>1, <1>12, <1>15, <1>16, <1>17, BeforeLinksNext DEF FilesInv

-----------------------------------------------------------------------------
(* Lifting a lone calculation.                                             *)

\* The lone calculation g of the folder f that is visited takes its place.
Lifts(f, g) ==
    /\ f = Head(todo).folder /\ g \in Lone(f)
    /\ pc = "hoist" /\ pc' = "hoist" /\ run' = run
    /\ todo # <<>> /\ todo' = Tail(todo)
    /\ folder' = [h \in DOMAIN folder \ {g} |-> folder[h]]
    /\ files' = {IF h.at = g THEN [h EXCEPT !.at = f] ELSE h : h \in files}
    /\ dirs' = {<<IF d[1] = g THEN f ELSE d[1], d[2]>> : d \in dirs}
    /\ placed' = PlacedMoved(PathOf(folder, g), PathOf(folder, f))

\* It is the only folder in f and has none in it; f has no files of its own.
LastIn(f, g) ==
    /\ f \in DOMAIN folder /\ g \in DOMAIN folder \ {Root} /\ f # g
    /\ run.parent[g] = f /\ run.kind[f] = "workflow" /\ ~Raised(g)
    /\ \A h \in DOMAIN folder : run.parent[h] = f <=> h = g
    /\ \A h \in DOMAIN folder : run.parent[h] # g
    /\ <<g, "inputs">> \in dirs
    /\ \A h \in files : h.at # f

\* What was lifted into a folder was the only thing in it.
LEMMA LiftedIsLast ==
    ASSUME TreeInv, FilesInv, NEW f, NEW g, Lifts(f, g)
    PROVE  LastIn(f, g)
<1>1. /\ CallsGoForward /\ FoldersOfSteps /\ RunOfCalls /\ Lifting
    BY DEF TreeInv, FilesInv, Lifts
<1>2. f \in DOMAIN folder /\ Awaited(f)
    BY FirstIsVisited DEF Lifts
<1>3. /\ g \in InFolder(folder, f) /\ InFolder(folder, f) = {g}
      /\ {<<g, "inputs">>, <<g, "outputs">>} \subseteq dirs
      /\ \A h \in files : h.at # f
      /\ \A d \in dirs : d[1] # f
    BY DEF Lifts, Lone, IsCalculationFolder
<1>4. /\ \A h \in DOMAIN folder : folder[h].up = run.parent[h] /\ run.parent[h] < h /\ h \in Nat
                                  /\ run.parent[h] \in Nat /\ h \in Steps
    BY <1>1, StepsAreNumbers DEF FoldersOfSteps
<1>5. g \in DOMAIN folder /\ run.parent[g] = f /\ \A h \in DOMAIN folder : run.parent[h] = f <=> h = g
    BY <1>3, <1>4 DEF InFolder
<1>6. f # g /\ g # Root
    BY <1>1, <1>2, <1>4, <1>5 DEF CallsGoForward, NoStep
<1>7. run.kind[f] = "workflow"
    BY <1>1, <1>4, <1>5, <1>6 DEF RunOfCalls
<1>8. ~Raised(g)
  <2>1. PICK untouched \in SUBSET DOMAIN folder :
           Beneath(untouched) /\ \A h \in Steps : Raised(h) => ~Awaited(h) /\ h \notin untouched
    BY <1>1 DEF Lifting
  <2>2. g \in untouched
    BY <1>2, <1>5, <1>6, <2>1 DEF Beneath
  <2> QED BY <1>4, <1>5, <2>1, <2>2
<1>9. run.kind[g] # "workflow"
    BY <1>3, <1>4, <1>5, <1>8 DEF Raised
<1>10. \A h \in DOMAIN folder : run.parent[h] # g
  <2> SUFFICES ASSUME NEW h \in DOMAIN folder, run.parent[h] = g PROVE FALSE
    OBVIOUS
  <2>1. h = Root => g = NoStep
    BY <1>1 DEF CallsGoForward
  <2>2. g \in Nat /\ run.parent[g] \in Nat /\ run.parent[g] < g
    BY <1>4, <1>5
  <2>3. h # Root
    BY <2>1, <2>2 DEF NoStep
  <2> QED BY <1>1, <1>4, <1>9, <2>3 DEF RunOfCalls
<1> QED BY <1>2, <1>3, <1>4, <1>5, <1>6, <1>7, <1>8, <1>10 DEF LastIn

\* What was lifted into a folder before is in it.
StaysRaised(g) == \A h \in Steps : h # g /\ Raised(h) => Raised(h)'

\* After a lifting the folders still to visit are again untouched.
LEMMA LiftKeepsVisits ==
    ASSUME TreeInv, FilesInv, NEW f, NEW g, Lifts(f, g)
    PROVE  Closed' /\ Lifting' /\ StaysRaised(g)
<1>1. /\ CallsGoForward /\ FoldersOfSteps /\ Closed /\ Lifting /\ Visits /\ Tidy
    BY DEF TreeInv, FilesInv, Lifts, Renumbered, Listed
<1>2. /\ f \in DOMAIN folder /\ g \in DOMAIN folder \ {Root} /\ f # g
      /\ run.parent[g] = f /\ run.kind[f] = "workflow"
      /\ \A h \in DOMAIN folder : run.parent[h] = f <=> h = g
      /\ \A h \in DOMAIN folder : run.parent[h] # g
  <2>1. LastIn(f, g)
    BY LiftedIsLast
  <2> QED BY <2>1 DEF LastIn
<1>3. /\ Awaited(f) /\ Len(todo) \in Nat \ {0} /\ DOMAIN todo = 1 .. Len(todo) /\ todo[1].folder = f
      /\ \A i \in DOMAIN todo : todo[i].folder \in DOMAIN folder /\ (todo[i].folder = f => i = 1)
      /\ \A i, j \in DOMAIN todo : todo[i].folder = todo[j].folder => i = j
    BY FirstIsVisited DEF Lifts
<1>4. /\ pc' = "hoist" /\ run' = run /\ Steps' = Steps
      /\ DOMAIN folder' = DOMAIN folder \ {g} /\ \A h \in DOMAIN folder' : folder'[h] = folder[h]
      /\ dirs' = {<<IF d[1] = g THEN f ELSE d[1], d[2]>> : d \in dirs}
    BY DEF Lifts, Steps
<1>5. DOMAIN todo' = 1 .. Len(todo) - 1 /\ \A i \in DOMAIN todo' : todo'[i] = todo[i + 1]
  <2>1. PICK E : E = [op : {"strip", "hoist"}, folder : Steps, num : Nat]
    OBVIOUS
  <2>2. todo \in Seq(E) /\ todo # <<>> /\ todo' = Tail(todo)
    BY <1>1, <2>1 DEF Visits, Lifts
  <2>3. /\ Tail(todo) \in Seq(E) /\ Len(Tail(todo)) = Len(todo) - 1
        /\ \A i \in 1 .. Len(Tail(todo)) : Tail(todo)[i] = todo[i + 1]
    BY <2>2, HeadTailProperties
  <2>4. DOMAIN Tail(todo) = 1 .. Len(todo) - 1
    BY <2>3, LenProperties
  <2> QED BY <2>2, <2>3, <2>4
<1>6. \A h : Awaited(h)' <=> Awaited(h) /\ h # f
  <2>1. ASSUME NEW h, Awaited(h)' PROVE Awaited(h) /\ h # f
    <3>1. PICK i \in DOMAIN todo' : todo'[i].folder = h
      BY <2>1 DEF Awaited
    <3>2. i + 1 \in DOMAIN todo /\ i + 1 # 1 /\ todo[i + 1].folder = h
      BY <1>3, <1>5, <3>1
    <3> QED BY <1>3, <3>2 DEF Awaited
  <2>2. ASSUME NEW h, Awaited(h), h # f PROVE Awaited(h)'
    <3>1. PICK j \in DOMAIN todo : todo[j].folder = h
      BY <2>2 DEF Awaited
    <3>2. j # 1
      BY <1>3, <2>2, <3>1
    <3>3. j - 1 \in DOMAIN todo' /\ (j - 1) + 1 = j
      BY <1>3, <1>5, <3>1, <3>2
    <3>4. todo'[j - 1].folder = h
      BY <1>5, <3>1, <3>3
    <3> QED BY <3>3, <3>4 DEF Awaited
  <2> QED BY <2>1, <2>2
<1>7. PICK untouched \in SUBSET DOMAIN folder :
         /\ Beneath(untouched) /\ \A h \in untouched : ~Awaited(h)
         /\ \A h \in Steps : Raised(h) => ~Awaited(h) /\ h \notin untouched
    BY <1>1 DEF Lifting
<1>8. \A h \in DOMAIN folder : h \in untouched <=>
         h # Root /\ (run.parent[h] \in untouched \/ Awaited(run.parent[h]))
    BY <1>7 DEF Beneath
<1>9. g \in untouched /\ f \notin untouched /\ ~Awaited(g)
    BY <1>2, <1>3, <1>7, <1>8
<1>10. Closed'
  <2>1. \A h \in DOMAIN folder' \ {Root} : run.parent[h] \in DOMAIN folder'
    BY <1>1, <1>2, <1>4 DEF Closed
  <2>2. \A i \in DOMAIN todo' : todo'[i].folder \in DOMAIN folder'
    <3> SUFFICES ASSUME NEW i \in DOMAIN todo' PROVE todo'[i].folder \in DOMAIN folder'
      OBVIOUS
    <3>1. i + 1 \in DOMAIN todo /\ todo'[i] = todo[i + 1]
      BY <1>3, <1>5
    <3>2. todo[i + 1].folder # g
      BY <1>9, <3>1 DEF Awaited
    <3> QED BY <1>3, <1>4, <3>1, <3>2
  <2>3. Root \in DOMAIN folder' /\ folder'[Root] = folder[Root]
    BY <1>1, <1>2, <1>4 DEF FoldersOfSteps
  <2> QED BY <1>1, <1>4, <2>1, <2>2, <2>3 DEF Closed
<1>11. \A i, j \in DOMAIN todo' : todo'[i].folder = todo'[j].folder => i = j
  <2> SUFFICES ASSUME NEW i \in DOMAIN todo', NEW j \in DOMAIN todo', todo'[i].folder = todo'[j].folder
               PROVE  i = j
    OBVIOUS
  <2>1. i + 1 \in DOMAIN todo /\ j + 1 \in DOMAIN todo /\ todo[i + 1].folder = todo[j + 1].folder
    BY <1>3, <1>5
  <2>2. i + 1 = j + 1
    BY <1>3, <2>1
  <2> QED BY <1>3, <1>5, <2>2
<1>12. \A h \in Steps : Raised(h)' => h = f \/ Raised(h)
  <2> SUFFICES ASSUME NEW h \in Steps, Raised(h)', h # f PROVE Raised(h)
    OBVIOUS
  <2>1. PICK d \in dirs : <<h, "inputs">> = <<IF d[1] = g THEN f ELSE d[1], d[2]>>
    BY <1>4 DEF Raised
  <2>2. d = <<d[1], d[2]>>
    BY <1>1 DEF Tidy
  <2>3. d[1] = h /\ d[2] = "inputs"
    BY <2>1
  <2>4. d = <<h, "inputs">>
    BY <2>2, <2>3, Zenon
  <2> QED BY <1>4, <2>4 DEF Raised
<1>13. ASSUME NEW h \in Steps, h # g, Raised(h) PROVE Raised(h)'
  <2>1. <<h, "inputs">> \in dirs /\ run.kind[h] = "workflow"
    BY <1>13 DEF Raised
  <2>2. <<h, "inputs">> \in dirs'
    BY <1>4, <1>13, <2>1
  <2> QED BY <1>4, <2>1, <2>2 DEF Raised
<1>14. Lifting'
  <2> PICK rest : rest = untouched \ {g}
    OBVIOUS
  <2>1. ASSUME NEW h \in DOMAIN folder'
        PROVE  h \in rest <=> h # Root /\ (run.parent[h] \in rest \/ Awaited(run.parent[h])')
    <3> PICK up : up = run.parent[h]
      OBVIOUS
    <3>1. h \in DOMAIN folder /\ h # g /\ up # f /\ up # g
      BY <1>2, <1>4
    <3>2. h \in untouched <=> h # Root /\ (up \in untouched \/ Awaited(up))
      BY <1>8, <3>1
    <3>3. Awaited(up)' <=> Awaited(up) /\ up # f
      BY <1>6
    <3>4. Awaited(run.parent[h])' <=> Awaited(up)'
      BY <1>4
    <3> QED BY <3>1, <3>2, <3>3, <3>4
  <2>2. Beneath(rest)'
    BY <1>4, <2>1 DEF Beneath
  <2>3. \A h \in rest : ~Awaited(h)'
    BY <1>6, <1>7
  <2>4. \A h \in Steps : Raised(h)' => ~Awaited(h)' /\ h \notin rest
    BY <1>6, <1>7, <1>9, <1>12
  <2>5. rest \in SUBSET DOMAIN folder'
    BY <1>4, <1>7
  <2> QED BY <1>4, <1>11, <2>2, <2>3, <2>4, <2>5 DEF Lifting
<1> QED BY <1>10, <1>13, <1>14 DEF StaysRaised

\* A file as it is when g has been lifted into f.
Lifted(f, g, h) == IF h.at = g THEN [h EXCEPT !.at = f] ELSE h

\* The paths of the others stay.
LEMMA LiftedPaths ==
    ASSUME TreeInv, TreeInv', FilesInv, NEW f, NEW g, Lifts(f, g)
    PROVE  /\ \A h \in DOMAIN folder \ {g} :
                 /\ PathOf(folder, h)' = PathOf(folder, h)
                 /\ Rebased(PathOf(folder, h), PathOf(folder, g), PathOf(folder, f)) = PathOf(folder, h)
           /\ Rebased(PathOf(folder, g), PathOf(folder, g), PathOf(folder, f)) = PathOf(folder, f)
<1>1. /\ Closed /\ Closed' /\ CallsGoForward /\ FoldersOfSteps
    BY LiftKeepsVisits DEF FilesInv, TreeInv
<1>2. IsTree(folder) /\ NamesDiffer(folder) /\ IsTree(folder')
    BY <1>1, FoldersAreTree, FoldersAreTreeNext DEF ProperTree
<1>3. /\ f \in DOMAIN folder /\ g \in DOMAIN folder /\ g # Root
      /\ \A h \in DOMAIN folder : folder[h].up # g
  <2>1. LastIn(f, g)
    BY LiftedIsLast
  <2> QED BY <1>1, <2>1, StepsAreNumbers DEF LastIn
<1>4. \A h \in DOMAIN folder \ {g} : PathOf(folder, h)' = PathOf(folder, h)
  <2>1. DOMAIN folder' = DOMAIN folder \ {g} /\ \A h \in DOMAIN folder' : folder'[h] = folder[h]
    BY DEF Lifts
  <2>2. \A h \in DOMAIN folder' : PathOf(folder', h) = PathOf(folder, h)
    BY <1>2, <2>1, KeptPaths
  <2> QED BY <2>1, <2>2
<1> DEFINE P(h) == PathOf(folder, h)
           U == {h \in DOMAIN folder : IsPrefix(P(g), P(h)) => h = g}
<1> HIDE DEF P
<1>5. DOMAIN folder \subseteq U
  <2>1. \A h \in DOMAIN folder :
           IsPrefix(P(g), P(h)) => h = g \/ (h # Root /\ IsPrefix(P(g), P(folder[h].up)))
    BY <1>2, <1>3, PrefixIsAbove DEF P
  <2>2. Root \in U
    BY <1>2, <2>1 DEF IsTree
  <2>3. ASSUME NEW h \in DOMAIN folder \ {Root}, folder[h].up \in U PROVE h \in U
    BY <1>3, <2>1, <2>3
  <2> HIDE DEF U
  <2> QED BY <1>2, <2>2, <2>3, FromTheRoot
<1>6. \A h \in DOMAIN folder \ {g} : Rebased(P(h), P(g), P(f)) = P(h)
    BY <1>5 DEF Rebased
<1>7. Rebased(P(g), P(g), P(f)) = P(f)
  <2>1. P(g) \in Seq(AnyName) /\ P(f) \in Seq(AnyName)
    BY <1>2, <1>3, PathsUnfold DEF P
  <2> QED BY <2>1, MovedItself
<1> QED BY <1>4, <1>6, <1>7 DEF P

\* The records follow the files that are lifted.
LEMMA LiftKeepsRecords ==
    ASSUME TreeInv, TreeInv', FilesInv, NEW f, NEW g, Lifts(f, g)
    PROVE  Tidy' /\ Recorded'
<1>1. /\ RunOfCalls /\ Tidy /\ RecordsHaveFiles /\ FilesHaveRecords /\ MadeAtHome /\ MakerRecorded
      /\ ValuesAlike /\ ValueWritten
      /\ \A h \in Steps : h # g /\ Raised(h) => Raised(h)'
  <2>1. StaysRaised(g)
    BY LiftKeepsVisits
  <2> QED BY <2>1 DEF FilesInv, Listed, Lifts, Recorded, StaysRaised
<1>2. /\ pc = "hoist" /\ pc' = "hoist" /\ run' = run /\ Steps' = Steps
      /\ DOMAIN folder' = DOMAIN folder \ {g}
      /\ files' = {Lifted(f, g, h) : h \in files}
      /\ dirs' = {<<IF d[1] = g THEN f ELSE d[1], d[2]>> : d \in dirs}
      /\ placed' = PlacedMoved(PathOf(folder, g), PathOf(folder, f))
    BY DEF Lifts, Lifted, Steps
<1>3. /\ f \in DOMAIN folder /\ g \in DOMAIN folder \ {Root} /\ f # g
      /\ run.parent[g] = f /\ run.kind[f] = "workflow" /\ ~Raised(g)
      /\ <<g, "inputs">> \in dirs
      /\ \A h \in files : h.at # f
  <2>1. LastIn(f, g)
    BY LiftedIsLast
  <2> QED BY <2>1 DEF LastIn
<1>4. /\ \A h \in DOMAIN folder \ {g} :
            /\ PathOf(folder, h)' = PathOf(folder, h)
            /\ Rebased(PathOf(folder, h), PathOf(folder, g), PathOf(folder, f)) = PathOf(folder, h)
      /\ Rebased(PathOf(folder, g), PathOf(folder, g), PathOf(folder, f)) = PathOf(folder, f)
    BY LiftedPaths
<1>5. FoldersOfSteps /\ FoldersOfSteps'
    BY DEF TreeInv
<1> DEFINE Re(h) == Lifted(f, g, h)
           New(p) == [p EXCEPT !.path = Rebased(@, PathOf(folder, g), PathOf(folder, f))]
\* What moves is the folder of a file, and the path of a record.
<1>6. ASSUME NEW h \in files
      PROVE  /\ DOMAIN Re(h) = {"at", "dir", "entry", "node", "content", "to"}
             /\ Re(h).at = IF h.at = g THEN f ELSE h.at
             /\ Re(h).dir = h.dir /\ Re(h).entry = h.entry /\ Re(h).node = h.node
             /\ Re(h).content = h.content /\ Re(h).to = h.to
             /\ h.at \in DOMAIN folder /\ h.at # f /\ h.to = <<>>
             /\ h.at # g => Re(h) = h
  <2>1. /\ DOMAIN h = {"at", "dir", "entry", "node", "content", "to"}
        /\ h.at \in DOMAIN folder /\ h.to = <<>>
    BY <1>1 DEF Tidy
  <2> QED BY <1>3, <2>1 DEF Lifted
<1>7. ASSUME NEW p \in placed
      PROVE  /\ DOMAIN New(p) = {"path", "dir", "entry", "node", "content", "created"}
             /\ New(p).path = Rebased(p.path, PathOf(folder, g), PathOf(folder, f))
             /\ New(p).dir = p.dir /\ New(p).entry = p.entry /\ New(p).node = p.node
             /\ New(p).content = p.content /\ New(p).created = p.created
  <2>1. DOMAIN p = {"path", "dir", "entry", "node", "content", "created"}
    BY <1>1 DEF RecordsHaveFiles
  <2> QED BY <2>1
<1>8. placed' = {New(p) : p \in placed}
    BY <1>2 DEF PlacedMoved
<1>9. files' = {Re(h) : h \in files}
    BY <1>2
<1> HIDE DEF Re, New
<1>10. \A h \in files : Re(h).at \in DOMAIN folder'
    BY <1>2, <1>3, <1>6
<1>11. Tidy'
  <2>1. ASSUME NEW h \in files, NEW k \in files, SameName(Re(h), Re(k)) PROVE Re(h) = Re(k)
    <3>1. h.at = k.at
      BY <1>6, <2>1 DEF SameName
    <3>2. SameName(h, k)
      BY <1>6, <2>1, <3>1 DEF SameName
    <3> QED BY <1>1, <3>2 DEF Tidy
  <2>2. \A h, k \in files' : SameName(h, k) => h = k
    BY <1>9, <2>1
  <2>3. \A d \in dirs' : d = <<d[1], d[2]>> /\ d[1] \in DOMAIN folder'
    <3> SUFFICES ASSUME NEW e \in dirs
                 PROVE  (IF e[1] = g THEN f ELSE e[1]) \in DOMAIN folder'
      BY <1>2
    <3>1. e[1] \in DOMAIN folder
      BY <1>1 DEF Tidy
    <3> QED BY <1>2, <1>3, <3>1
  <2>4. \A h \in files' : /\ DOMAIN h = {"at", "dir", "entry", "node", "content", "to"}
                          /\ h.at \in DOMAIN folder' /\ h.to = <<>>
    BY <1>6, <1>9, <1>10
  <2> QED BY <2>2, <2>3, <2>4 DEF Tidy, SameName
<1>12. ASSUME NEW p \in placed, NEW h \in files, Of(p, h), NEW q, q = New(p), NEW e, e = Re(h)
       PROVE  Of(q, e)'
  <2>1. p.path = PathOf(folder, h.at) /\ p.dir = h.dir /\ p.entry = h.entry /\ p.node = h.node
        /\ p.content = h.content
    BY <1>12 DEF Of
  <2>2. CASE h.at = g
    <3>1. PathOf(folder, f)' = PathOf(folder, f)
      BY <1>3, <1>4
    <3>2. q.path = PathOf(folder, f)
      BY <1>4, <1>7, <1>12, <2>1, <2>2
    <3>3. e.at = f
      BY <1>6, <1>12, <2>2
    <3>4. PathOf(folder, e.at)' = PathOf(folder, f)
      BY <3>1, <3>3
    <3> QED BY <1>6, <1>7, <1>12, <2>1, <3>2, <3>4 DEF Of
  <2>3. CASE h.at # g
    <3>1. h.at \in DOMAIN folder \ {g} /\ e = h
      BY <1>6, <1>12, <2>3
    <3>2. q.path = PathOf(folder, h.at)'
      BY <1>4, <1>7, <1>12, <2>1, <3>1
    <3> QED BY <1>7, <1>12, <2>1, <3>1, <3>2 DEF Of
  <2> QED BY <2>2, <2>3
<1>13. RecordsHaveFiles'
  <2> SUFFICES ASSUME NEW q \in placed'
               PROVE  /\ DOMAIN q = {"path", "dir", "entry", "node", "content", "created"}
                      /\ \E e \in files' : Of(q, e)'
    BY DEF RecordsHaveFiles
  <2>1. PICK p \in placed : q = New(p)
    BY <1>8
  <2>2. PICK h \in files : Of(p, h)
    BY <1>1 DEF RecordsHaveFiles
  <2>3. PICK e \in files' : e = Re(h)
    BY <1>9
  <2>4. Of(q, e)'
    BY <1>12, <2>1, <2>2, <2>3
  <2> QED BY <1>7, <2>1, <2>4
<1>14. FilesHaveRecords'
  <2> SUFFICES ASSUME NEW e \in files', e.node \in {"data", "source"}
               PROVE  \E q \in placed' : Of(q, e)'
    BY DEF FilesHaveRecords
  <2>1. PICK h \in files : e = Re(h)
    BY <1>9
  <2>2. PICK p \in placed : Of(p, h)
    BY <1>1, <1>6, <2>1 DEF FilesHaveRecords
  <2>3. PICK q \in placed' : q = New(p)
    BY <1>8
  <2>4. Of(q, e)'
    BY <1>12, <2>1, <2>2, <2>3
  <2> QED BY <2>4
<1>15. MadeAtHome'
  <2> SUFFICES ASSUME NEW p \in placed, New(p).created, New(p).node = "data"
               PROVE  /\ run.creator # 0 /\ New(p).dir = "outputs"
                      /\ New(p).path = PathOf(folder, Home(run.creator))'
                      /\ Home(run.creator)' \in DOMAIN folder'
                      /\ run.creator \notin DOMAIN folder' => Raised(run.parent[run.creator])'
    BY <1>2, <1>8 DEF MadeAtHome
  <2> PICK maker : maker = run.creator
    OBVIOUS
  <2> PICK home : home = Home(maker)
    OBVIOUS
  <2>1. /\ maker # 0 /\ p.dir = "outputs" /\ p.path = PathOf(folder, home) /\ home \in DOMAIN folder
        /\ maker \notin DOMAIN folder => Raised(run.parent[maker])
    BY <1>1, <1>7 DEF MadeAtHome
  <2>2. PICK later : later = IF home = g THEN f ELSE home
    OBVIOUS
  <2>3. later \in DOMAIN folder'
    BY <1>2, <1>3, <2>1, <2>2
  <2>4. New(p).path = PathOf(folder, later)'
    <3>1. PathOf(folder, later)' = PathOf(folder, later)
      BY <1>2, <1>4, <2>3
    <3>2. CASE home = g
      BY <1>4, <1>7, <2>1, <2>2, <3>1, <3>2
    <3>3. CASE home # g
      BY <1>4, <1>7, <2>1, <2>2, <3>1, <3>3
    <3> QED BY <3>2, <3>3
  <2>5. Home(maker)' = later /\ (maker \notin DOMAIN folder' => Raised(run.parent[maker])')
    <3>1. CASE maker = g
      <4>1. <<f, "inputs">> \in dirs'
        BY <1>2, <1>3
      <4>2. f \in Steps
        BY <1>3, <1>5 DEF FoldersOfSteps
      <4>3. Raised(f)'
        BY <1>2, <1>3, <4>1, <4>2 DEF Raised
      <4>4. home = g
        BY <1>3, <3>1 DEF Home
      <4>5. Home(maker)' = f /\ run'.parent[maker] = f
        BY <1>2, <1>3, <3>1 DEF Home
      <4> QED BY <2>2, <4>3, <4>4, <4>5
    <3>2. CASE maker \in DOMAIN folder /\ maker # g
      <4>1. home = maker /\ later = maker
        BY <2>2, <3>2 DEF Home
      <4> QED BY <1>2, <3>2, <4>1 DEF Home
    <3>3. CASE maker \notin DOMAIN folder
      <4>1. PICK up : up = run.parent[maker]
        OBVIOUS
      <4>2. home = up /\ Raised(up)
        BY <2>1, <3>3, <4>1 DEF Home
      <4>3. up # g /\ up \in Steps
        BY <1>3, <4>2 DEF Raised
      <4>4. Raised(up)' /\ later = up
        BY <1>1, <2>2, <4>2, <4>3
      <4>5. Home(maker)' = up /\ run'.parent[maker] = up
        BY <1>2, <3>3, <4>1 DEF Home
      <4> QED BY <4>4, <4>5
    <3> QED BY <3>1, <3>2, <3>3
  <2>6. Home(run.creator)' = later /\ (maker \notin DOMAIN folder' => Raised(run.parent[run.creator])')
    BY <1>2, <2>5
  <2> QED BY <1>2, <1>7, <2>1, <2>3, <2>4, <2>6
<1>16. Lists(run.creator)' = Lists(run.creator) /\ Content(FALSE)' = Content(FALSE)
       /\ IsCalcJob(run.creator)' = IsCalcJob(run.creator)
    BY <1>2 DEF Lists, Content, IsCalcJob
<1>17. MakerRecorded'
  <2> SUFFICES ASSUME HasFolder', run.value # "empty"
               PROVE  /\ Lists(run.creator)
                      /\ \E q \in placed' : q.created /\ q.node = "data" /\ q.content = Content(FALSE)
    BY <1>2, <1>16 DEF MakerRecorded
  <2>1. HasFolder
    BY <1>2, <1>16 DEF HasFolder
  <2>2. Lists(run.creator)
    BY <1>1, <1>2, <2>1 DEF MakerRecorded
  <2>3. PICK p \in placed : p.created /\ p.node = "data" /\ p.content = Content(FALSE)
    BY <1>1, <2>1, <2>2 DEF MakerRecorded
  <2>4. New(p) \in placed'
    BY <1>8
  <2> QED BY <1>7, <2>2, <2>3, <2>4
<1>18. ValuesAlike'
  <2>1. \A h \in files : Re(h).node = h.node /\ Re(h).content = h.content
    BY <1>6
  <2> QED BY <1>1, <1>2, <1>9, <1>16, <2>1 DEF ValuesAlike
<1>19. ValueWritten'
  <2>1. \A h \in files : Re(h).node = h.node /\ Re(h).dir = h.dir
    BY <1>6
  <2>2. (\E h \in files : h.node = "data" /\ h.dir = "outputs")
           => \E h \in files' : h.node = "data" /\ h.dir = "outputs"
    BY <1>9, <2>1
  <2> QED BY <1>1, <1>2, <1>16, <2>2 DEF ValueWritten
<1> QED BY <1>11, <1>13, <1>14, <1>15, <1>17, <1>18, <1>19 DEF Recorded

\* Visiting a folder that may hold a lone calculation (_hoist_lone_calculations).
LEMMA HoistKeepsFiles == TreeInv /\ TreeInv' /\ FilesInv /\ Hoist => FilesInv'
<1> SUFFICES ASSUME TreeInv, TreeInv', FilesInv, Hoist PROVE FilesInv'
    OBVIOUS
<1>1. CASE Lone(Head(todo).folder) = {}
    BY <1>1, VisitKeepsFiles
<1>2. ASSUME NEW f, NEW g, Lifts(f, g)
      PROVE  FilesInv'
  <2>1. /\ RunOfCalls /\ OwnFilesStay /\ HoistedOnly /\ FoldersOfSteps /\ Tidy
        /\ Closed' /\ Lifting' /\ \A h \in Steps : h # g /\ Raised(h) => Raised(h)'
        /\ Tidy' /\ Recorded'
    <3>1. Closed' /\ Lifting' /\ StaysRaised(g) /\ Tidy' /\ Recorded'
      BY <1>2, LiftKeepsVisits, LiftKeepsRecords
    <3> QED BY <1>2, <3>1 DEF FilesInv, TreeInv, Lifts, Listed, StaysRaised
  <2>2. /\ f \in DOMAIN folder /\ g \in DOMAIN folder \ {Root} /\ f # g
        /\ run.parent[g] = f /\ run.kind[f] = "workflow" /\ ~Raised(g)
        /\ <<g, "inputs">> \in dirs
    <3>1. LastIn(f, g)
      BY <1>2, LiftedIsLast
    <3> QED BY <3>1 DEF LastIn
  <2>3. /\ pc' = "hoist" /\ run' = run /\ Steps' = Steps
        /\ DOMAIN folder' = DOMAIN folder \ {g}
        /\ files' = {Lifted(f, g, h) : h \in files}
        /\ dirs' = {<<IF d[1] = g THEN f ELSE d[1], d[2]>> : d \in dirs}
    BY <1>2 DEF Lifts, Lifted, Steps
  <2>4. Raised(f)'
    <3>1. <<f, "inputs">> \in dirs'
      BY <2>2, <2>3
    <3>2. f \in Steps
      BY <2>1, <2>2 DEF FoldersOfSteps
    <3> QED BY <2>2, <2>3, <3>1, <3>2 DEF Raised
  <2>5. \A p : Own(p)' = Own(p)
    BY <2>3 DEF Own
  <2>6. ASSUME NEW p \in Steps, Own(p) # {}
        PROVE  /\ Home(p)' = IF Home(p) = g THEN f ELSE Home(p)
               /\ Home(p)' \in DOMAIN folder'
               /\ p \notin DOMAIN folder' => Raised(run.parent[p])'
    <3>1. CASE p = g
      <4>1. Home(p) = g /\ Home(p)' = f /\ run'.parent[p] = f
        BY <2>2, <2>3, <3>1 DEF Home
      <4> QED BY <2>2, <2>3, <2>4, <4>1
    <3>2. CASE p \in DOMAIN folder /\ p # g
      BY <2>3, <3>2 DEF Home
    <3>3. CASE p \notin DOMAIN folder
      <4>1. PICK up : up = run.parent[p]
        OBVIOUS
      <4>2. Home(p) = up /\ Home(p)' = up /\ Raised(up) /\ up \in DOMAIN folder /\ run'.parent[p] = up
        <5>1. PICK e : e \in Own(p)
          BY <2>6
        <5> QED BY <2>1, <2>3, <2>6, <3>3, <4>1, <5>1 DEF Home, HoistedOnly, OwnFilesStay, Own
      <4>3. up # g /\ up \in Steps
        BY <2>2, <4>2 DEF Raised
      <4>4. Raised(up)'
        BY <2>1, <4>2, <4>3
      <4> QED BY <2>3, <4>2, <4>3, <4>4
    <3> QED BY <3>1, <3>2, <3>3
  <2>7. HoistedOnly'
    BY <2>3, <2>5, <2>6 DEF HoistedOnly
  <2>8. OwnFilesStay'
    <3> SUFFICES ASSUME NEW p \in Steps, NEW e \in Own(p)
                 PROVE  /\ Home(p)' \in DOMAIN folder'
                        /\ \E h \in files' : /\ h.at = Home(p)' /\ h.dir = e.dir /\ h.entry = e.entry
                                             /\ h.node = "own"
      BY <2>3, <2>5 DEF OwnFilesStay, Own
    <3>1. PICK h \in files : /\ h.at = Home(p) /\ h.dir = e.dir /\ h.entry = e.entry
                             /\ h.node = "own"
      BY <2>1 DEF OwnFilesStay, Own
    <3>2. DOMAIN h = {"at", "dir", "entry", "node", "content", "to"}
      BY <2>1 DEF Tidy
    <3>3. /\ Lifted(f, g, h).at = (IF h.at = g THEN f ELSE h.at)
          /\ Lifted(f, g, h).dir = h.dir /\ Lifted(f, g, h).entry = h.entry
          /\ Lifted(f, g, h).node = h.node
      BY <3>2 DEF Lifted
    <3>4. Lifted(f, g, h) \in files'
      BY <2>3
    <3>5. Home(p)' = (IF Home(p) = g THEN f ELSE Home(p)) /\ Home(p)' \in DOMAIN folder'
      BY <2>6
    <3> QED BY <3>1, <3>3, <3>4, <3>5
  <2>9. RunOfCalls'
    BY <2>1, <2>3 DEF RunOfCalls
  <2> QED BY <2>1, <2>3, <2>7, <2>8, <2>9, BeforeLinksNext DEF FilesInv
<1>3. CASE Lone(Head(todo).folder) # {}
  <2>1. PICK g : Lifts(Head(todo).folder, g)
    BY <1>3 DEF Hoist, Lifts
  <2>2. PICK f : f = Head(todo).folder /\ Lifts(f, g)
    BY <2>1
  <2> QED BY <1>2, <2>2
<1> QED BY <1>1, <1>3

-----------------------------------------------------------------------------
(* The listings.                                                           *)

\* No two files that AiiDA writes for a process have one name.
LEMMA RawFilesDiffer ==
    ASSUME NEW r, NEW p, NEW f \in RawFiles(r, p), NEW g \in RawFiles(r, p),
           f.dir = g.dir, f.entry = g.entry
    PROVE  f = g
<1> PICK out : out = IF r.clash THEN "out.json" ELSE "aiida.out"
    OBVIOUS
<1> DEFINE Raw(dir, name, node, content) == File(p, dir, Named("", name), node, content)
<1>2. PICK meta : meta = Raw("", "aiida_node_metadata.yaml", "metadata", r.kind[p])
    OBVIOUS
<1>3. PICK source : source = Raw("", "source_file", "source", "text")
    OBVIOUS
<1>4. PICK input : input = Raw("inputs", "aiida.in", "own", "file")
    OBVIOUS
<1>5. PICK log : log = Raw("outputs", "_scheduler-stderr.txt", "own", "log")
    OBVIOUS
<1>6. PICK output : output = Raw("outputs", out, "own", "file")
    OBVIOUS
<1>7. RawFiles(r, p) \subseteq {meta, source, input, log, output}
  <2> HIDE DEF File, Named
  <2> QED BY <1>2, <1>3, <1>4, <1>5, <1>6 DEF RawFiles
<1>8. /\ meta.dir = "" /\ meta.entry.name = "aiida_node_metadata.yaml"
      /\ source.dir = "" /\ source.entry.name = "source_file"
      /\ input.dir = "inputs"
      /\ log.dir = "outputs" /\ log.entry.name = "_scheduler-stderr.txt"
      /\ output.dir = "outputs" /\ output.entry.name = out
  <2>1. meta.dir = "" /\ meta.entry.name = "aiida_node_metadata.yaml"
    BY <1>2 DEF File, Named
  <2>2. source.dir = "" /\ source.entry.name = "source_file"
    BY <1>3 DEF File, Named
  <2>3. input.dir = "inputs"
    BY <1>4 DEF File, Named
  <2>4. log.dir = "outputs" /\ log.entry.name = "_scheduler-stderr.txt"
    BY <1>5 DEF File, Named
  <2>5. output.dir = "outputs" /\ output.entry.name = out
    BY <1>6 DEF File, Named
  <2> QED BY <2>1, <2>2, <2>3, <2>4, <2>5
<1> HIDE DEF Raw
<1>9. out = "out.json" \/ out = "aiida.out"
    OBVIOUS
<1>10. f.entry.name = g.entry.name
    OBVIOUS
<1>11. f \in {meta, source, input, log, output} /\ g \in {meta, source, input, log, output}
    BY <1>7
<1> DEFINE Differ(h, k) == h.dir # k.dir \/ h.entry.name # k.entry.name
<1>12. /\ Differ(meta, source) /\ Differ(meta, input) /\ Differ(meta, log) /\ Differ(meta, output)
       /\ Differ(source, input) /\ Differ(source, log) /\ Differ(source, output)
       /\ Differ(input, log) /\ Differ(input, output) /\ Differ(log, output)
    BY <1>8, <1>9
<1>13. ~Differ(f, g) /\ ~Differ(g, f)
    BY <1>10
<1> HIDE DEF Differ
<1> QED BY <1>11, <1>12, <1>13

\* A listing is of a process that lists: a reader's inputs, or the outputs of a
\* workflow that returns the node or of the process that made it.
Lister(p, dir, nested) ==
    /\ p \in Steps /\ Lists(p) /\ nested \in BOOLEAN
    /\ \/ dir = "inputs" /\ ~nested /\ p \in run.readers
       \/ dir = "outputs" /\ run.kind[p] = "workflow" /\ Echoes(p) /\ nested = (run.returns[p] = "nested")
       \/ dir = "outputs" /\ run.kind[p] # "workflow" /\ ~nested /\ run.creator = p

\* The word a listing has for a direction.
Label(dir) == IF dir = "inputs" THEN "in" ELSE "out"

\* Who lists what, and where.
LEMMA ListingsAre ==
    /\ \A g \in Listings : \E p, dir, nested :
          Lister(p, dir, nested) /\ g = Listing(p, dir, Label(dir), nested)
    /\ \A p, dir, nested :
          Lister(p, dir, nested) => Listing(p, dir, Label(dir), nested) \in Listings
<1> HIDE DEF Listing, Lists
<1>1. Label("inputs") = "in" /\ Label("outputs") = "out"
    BY DEF Label
<1>2. ASSUME NEW g \in Listings
      PROVE  \E p, dir, nested :
                Lister(p, dir, nested) /\ g = Listing(p, dir, Label(dir), nested)
  <2>1. PICK p \in Steps : g \in Inputs(p) \cup Outputs(p)
    BY DEF Listings
  <2>2. CASE g \in Inputs(p)
    <3>1. Lister(p, "inputs", FALSE) /\ g = Listing(p, "inputs", "in", FALSE)
      BY <2>2 DEF Inputs, Lister
    <3> QED BY <1>1, <3>1
  <2>3. CASE g \in Outputs(p) /\ run.kind[p] = "workflow"
    <3>1. PICK nested \in BOOLEAN : nested = (run.returns[p] = "nested")
      OBVIOUS
    <3>2. Lister(p, "outputs", nested) /\ g = Listing(p, "outputs", "out", nested)
      BY <2>3, <3>1 DEF Outputs, Lister
    <3> QED BY <1>1, <3>2
  <2>4. CASE g \in Outputs(p) /\ run.kind[p] # "workflow"
    <3>1. Lister(p, "outputs", FALSE) /\ g = Listing(p, "outputs", "out", FALSE)
      BY <2>4 DEF Outputs, Lister
    <3> QED BY <1>1, <3>1
  <2> QED BY <2>1, <2>2, <2>3, <2>4
<1>3. ASSUME NEW p, NEW dir, NEW nested, Lister(p, dir, nested)
      PROVE  Listing(p, dir, Label(dir), nested) \in Listings
  <2>1. CASE dir = "inputs"
    <3>1. Listing(p, "inputs", "in", FALSE) \in Inputs(p) /\ nested = FALSE
      BY <1>3, <2>1 DEF Lister, Inputs
    <3>2. p \in Steps
      BY <1>3 DEF Lister
    <3>3. Listing(p, dir, Label(dir), nested) = Listing(p, "inputs", "in", FALSE)
      BY <1>1, <2>1, <3>1, Zenon
    <3>4. Listing(p, "inputs", "in", FALSE) \in Listings
      BY <3>1, <3>2 DEF Listings
    <3> QED BY <3>3, <3>4, Zenon
  <2>2. CASE dir = "outputs"
    <3>1. Listing(p, "outputs", "out", nested) \in Outputs(p)
      BY <1>3, <2>2 DEF Lister, Outputs
    <3>2. p \in Steps
      BY <1>3 DEF Lister
    <3> QED BY <1>1, <2>2, <3>1, <3>2 DEF Listings
  <2> QED BY <1>3, <2>1, <2>2 DEF Lister
<1> QED BY <1>2, <1>3

\* The parts of a listing.
ListedAs(g, p, dir, nested) ==
    /\ DOMAIN g = {"at", "dir", "entry", "node", "content", "to"}
    /\ g.at = p /\ g.dir = dir /\ g.entry = Entry(p, dir, Label(dir), nested)
    /\ g.node = "data" /\ g.content = Content(nested) /\ g.to = <<>>

\* The parts of a listing.
LEMMA ListingsSay ==
    ASSUME NEW p, NEW dir, NEW nested
    PROVE  ListedAs(Listing(p, dir, Label(dir), nested), p, dir, nested)
<1> PICK entry, content : entry = Entry(p, dir, Label(dir), nested) /\ content = Content(nested)
    OBVIOUS
<1>1. Listing(p, dir, Label(dir), nested) = File(p, dir, entry, "data", content)
    BY DEF Listing
<1>2. /\ DOMAIN File(p, dir, entry, "data", content) = {"at", "dir", "entry", "node", "content", "to"}
      /\ File(p, dir, entry, "data", content).at = p
      /\ File(p, dir, entry, "data", content).dir = dir
      /\ File(p, dir, entry, "data", content).entry = entry
      /\ File(p, dir, entry, "data", content).node = "data"
      /\ File(p, dir, entry, "data", content).content = content
      /\ File(p, dir, entry, "data", content).to = <<>>
    BY DEF File
<1> QED BY <1>1, <1>2, Zenon DEF ListedAs

\* A listing never takes the name of a file.
LEMMA EntriesAreFree ==
    ASSUME \A f \in files : f.entry.under = "", NEW p, NEW dir, NEW nested
    PROVE  \A f \in files : ~(f.at = p /\ f.dir = dir /\ f.entry = Entry(p, dir, Label(dir), nested))
<1> PICK entry : entry = EntryOver(p, dir, Label(dir), nested)
    OBVIOUS
<1>1. Named(Label(dir), entry.name).under # ""
    BY DEF Named, Label
<1> QED BY <1>1 DEF Entry

\* All listings, by the process, the direction and the way to write the value.
LEMMA WhatIsListed ==
    /\ \A g \in Listings : \E p, dir, nested :
          /\ Lister(p, dir, nested) /\ g = Listing(p, dir, Label(dir), nested)
          /\ ListedAs(g, p, dir, nested)
    /\ \A p, dir, nested :
          Lister(p, dir, nested) => \E g \in Listings : ListedAs(g, p, dir, nested)
<1>1. \A p, dir, nested : ListedAs(Listing(p, dir, Label(dir), nested), p, dir, nested)
    BY ListingsSay
<1> HIDE DEF ListedAs, Lister, Listing
<1>2. ASSUME NEW g \in Listings
      PROVE  \E p, dir, nested :
                /\ Lister(p, dir, nested) /\ g = Listing(p, dir, Label(dir), nested)
                /\ ListedAs(g, p, dir, nested)
  <2>1. PICK p, dir, nested : Lister(p, dir, nested) /\ g = Listing(p, dir, Label(dir), nested)
    BY ListingsAre
  <2>2. ListedAs(g, p, dir, nested)
    BY <1>1, <2>1, Zenon
  <2> QED BY <2>1, <2>2
<1>3. ASSUME NEW p, NEW dir, NEW nested, Lister(p, dir, nested)
      PROVE  \E g \in Listings : ListedAs(g, p, dir, nested)
  <2>1. Listing(p, dir, Label(dir), nested) \in Listings
    BY <1>3, ListingsAre
  <2> QED BY <1>1, <2>1, Zenon
<1> QED BY <1>2, <1>3

\* What a step gets listed goes next to the files it has.
LEMMA ListAddsFiles ==
    ASSUME DOMAIN folder = Steps, AsDumped, List, pc = "list"
    PROVE  /\ files' = (files \ WorkflowMetadata) \cup Listings
           /\ \A f \in files, g \in Listings : ~SameName(f, g)
<1>1. \A f \in files : \E p \in Steps : f \in RawFiles(run, p)
    BY DEF AsDumped
<1>2. \A f \in files : f.entry.under = ""
  <2> SUFFICES ASSUME NEW f \in files PROVE f.entry.under = ""
    OBVIOUS
  <2>1. PICK p \in Steps : f \in RawFiles(run, p)
    BY <1>1
  <2>2. AsWritten(run, p, f)
    BY <2>1, RawFilesAre
  <2> QED BY <2>2 DEF AsWritten
<1>3. ASSUME NEW f \in files, NEW g \in Listings PROVE ~SameName(f, g)
  <2>1. PICK p, dir, nested : ListedAs(g, p, dir, nested)
    BY WhatIsListed, Zenon
  <2>2. ~(f.at = p /\ f.dir = dir /\ f.entry = Entry(p, dir, Label(dir), nested))
    BY <1>2, EntriesAreFree
  <2> QED BY <2>1, <2>2 DEF SameName, ListedAs
<1> QED BY <1>3 DEF List

\* Listing the inputs and outputs of every step (_write_step_io).
LEMMA ListKeepsFiles == TreeInv /\ TreeInv' /\ FilesInv /\ List => FilesInv'
<1> SUFFICES ASSUME TreeInv, TreeInv', FilesInv, List PROVE FilesInv'
    OBVIOUS
<1>1. /\ pc = "list" /\ pc' = "prune" /\ run' = run /\ folder' = folder /\ todo' = todo
      /\ CallsGoForward /\ FoldersOfSteps /\ DOMAIN folder = Steps /\ Steps' = Steps
      /\ dirs' = dirs \cup {<<f.at, f.dir>> : f \in Listings}
      /\ placed' = {PlacedAt(f) : f \in Listings \cup {g \in files : g.node = "source"}}
    BY DEF List, TreeInv, Steps
<1>2. RunOfCalls /\ Closed /\ OwnFilesStay /\ HoistedOnly /\ AsDumped
    BY <1>1 DEF FilesInv
<1>3. /\ files' = (files \ WorkflowMetadata) \cup Listings
      /\ \A f \in files, g \in Listings : ~SameName(f, g)
    BY <1>1, <1>2, ListAddsFiles
<1>4. /\ \A g \in Listings : \E p, dir, nested :
            /\ Lister(p, dir, nested) /\ g = Listing(p, dir, Label(dir), nested)
            /\ ListedAs(g, p, dir, nested)
      /\ \A p, dir, nested :
            Lister(p, dir, nested) => \E g \in Listings : ListedAs(g, p, dir, nested)
    BY WhatIsListed
<1>5. ASSUME NEW f \in files
      PROVE  f.at \in Steps /\ f \in RawFiles(run, f.at) /\ AsWritten(run, f.at, f)
  <2>1. PICK p \in Steps : f \in RawFiles(run, p)
    BY <1>2 DEF AsDumped
  <2>2. AsWritten(run, p, f)
    BY <2>1, RawFilesAre
  <2>3. f.at = p
    BY <2>2 DEF AsWritten
  <2> QED BY <2>1, <2>2, <2>3
<1>6. \A f \in files : f.node # "metadata" => f \in files'
  <2> SUFFICES ASSUME NEW f \in files, f.node # "metadata" PROVE f \in files'
    OBVIOUS
  <2>1. f.content # "workflow"
    BY <1>5 DEF AsWritten
  <2> QED BY <1>3, <2>1 DEF WorkflowMetadata
<1>7. ASSUME NEW g \in Listings
      PROVE  /\ DOMAIN g = {"at", "dir", "entry", "node", "content", "to"}
             /\ g.at \in Steps /\ g.node = "data" /\ g.to = <<>>
  <2>1. PICK p, dir, nested : Lister(p, dir, nested) /\ ListedAs(g, p, dir, nested)
    BY <1>4
  <2> QED BY <2>1 DEF Lister, ListedAs
<1>8. \A p : Own(p)' = Own(p) /\ Home(p)' = Home(p)
    BY <1>1 DEF Own, Home
<1>9. OwnFilesStay'
  <2> SUFFICES ASSUME NEW p \in Steps, NEW f \in Own(p)
               PROVE  /\ Home(p) \in DOMAIN folder
                      /\ \E g \in files' : /\ g.at = Home(p) /\ g.dir = f.dir /\ g.entry = f.entry
                                           /\ g.node = "own"
    BY <1>1, <1>8 DEF OwnFilesStay, Own
  <2>1. Home(p) \in DOMAIN folder
    BY <1>2 DEF OwnFilesStay, Own
  <2>2. PICK g \in files : /\ g.at = Home(p) /\ g.dir = f.dir /\ g.entry = f.entry /\ g.node = "own"
    BY <1>2 DEF OwnFilesStay, Own
  <2> QED BY <1>6, <2>1, <2>2
<1>10. HoistedOnly'
    BY <1>1 DEF HoistedOnly
<1>11. \A f \in Steps' : ~Raised(f)'
  <2> SUFFICES ASSUME NEW f \in Steps, <<f, "inputs">> \in dirs', run.kind[f] = "workflow" PROVE FALSE
    BY <1>1 DEF Raised
  <2>1. CASE <<f, "inputs">> \in dirs
    <3>1. run.kind[f] \in {"finished", "failed"}
      BY <1>2, <2>1 DEF AsDumped
    <3> QED BY <3>1
  <2>2. CASE <<f, "inputs">> \notin dirs
    <3>1. PICK g \in Listings : g.at = f /\ g.dir = "inputs"
      BY <1>1, <2>2
    <3>2. PICK p, dir, nested : Lister(p, dir, nested) /\ ListedAs(g, p, dir, nested)
      BY <1>4
    <3>3. f \in run.readers
      BY <3>1, <3>2 DEF Lister, ListedAs
    <3> QED BY <1>2, <3>3 DEF RunOfCalls
  <2> QED BY <2>1, <2>2
<1>12. ASSUME NEW g \in Listings, NEW h \in Listings, SameName(g, h)
       PROVE  g = h
  <2>1. PICK p, dir, nested :
           Lister(p, dir, nested) /\ g = Listing(p, dir, Label(dir), nested) /\ ListedAs(g, p, dir, nested)
    BY <1>4
  <2>2. PICK q, way, deep :
           Lister(q, way, deep) /\ h = Listing(q, way, Label(way), deep) /\ ListedAs(h, q, way, deep)
    BY <1>4
  <2>3. p = q /\ dir = way
    BY <1>12, <2>1, <2>2 DEF SameName, ListedAs
  <2>4. nested = deep
    BY <2>1, <2>2, <2>3 DEF Lister
  <2> QED BY <2>1, <2>2, <2>3, <2>4, Zenon
<1>13. Tidy'
  <2>1. ASSUME NEW f \in files, NEW g \in files, SameName(f, g) PROVE f = g
    <3>1. f \in RawFiles(run, f.at) /\ g \in RawFiles(run, f.at) /\ f.dir = g.dir /\ f.entry = g.entry
      BY <1>5, <2>1 DEF SameName
    <3> QED BY <3>1, RawFilesDiffer
  <2>2. \A f, g : SameName(f, g) => SameName(g, f)
    BY DEF SameName
  <2>3. \A f, g \in files' : SameName(f, g) => f = g
    BY <1>3, <1>12, <2>1, <2>2
  <2>4. \A f \in files' : /\ DOMAIN f = {"at", "dir", "entry", "node", "content", "to"}
                          /\ f.at \in DOMAIN folder' /\ f.to = <<>>
    <3> SUFFICES ASSUME NEW f \in files'
                 PROVE  /\ DOMAIN f = {"at", "dir", "entry", "node", "content", "to"}
                        /\ f.at \in Steps /\ f.to = <<>>
      BY <1>1
    <3>1. CASE f \in files
      <4>1. AsWritten(run, f.at, f) /\ f.at \in Steps
        BY <1>5, <3>1
      <4> QED BY <4>1 DEF AsWritten
    <3>2. CASE f \in Listings
      BY <1>7, <3>2
    <3> QED BY <1>3, <3>1, <3>2
  <2>5. \A d \in dirs' : d = <<d[1], d[2]>> /\ d[1] \in DOMAIN folder'
    <3> SUFFICES ASSUME NEW d \in dirs' PROVE d = <<d[1], d[2]>> /\ d[1] \in Steps
      BY <1>1
    <3>1. CASE d \in dirs
      BY <1>2, <3>1 DEF AsDumped
    <3>2. CASE d \notin dirs
      <4>1. PICK g \in Listings : d = <<g.at, g.dir>>
        BY <1>1, <3>2
      <4> QED BY <1>7, <4>1
    <3> QED BY <3>1, <3>2
  <2> QED BY <2>3, <2>4, <2>5 DEF Tidy, SameName
\* The records are of the listings and of the helpers' sources.
<1>14. ASSUME NEW f
       PROVE  /\ DOMAIN PlacedAt(f) = {"path", "dir", "entry", "node", "content", "created"}
              /\ Of(PlacedAt(f), f)
              /\ PlacedAt(f).created = (f.dir = "outputs" /\ run.kind[f.at] # "workflow")
    BY DEF PlacedAt, Of
<1>15. \A p, f : Of(p, f)' <=> Of(p, f)
    BY <1>1 DEF Of
<1>16. ASSUME NEW p \in placed'
       PROVE  \E f \in files' : /\ p = PlacedAt(f) /\ Of(p, f)
                                /\ f \in Listings \/ f.node = "source"
  <2>1. PICK f \in Listings \cup {g \in files : g.node = "source"} : p = PlacedAt(f)
    BY <1>1
  <2>2. f \in files'
    BY <1>3, <1>6
  <2>3. Of(p, f)
    BY <1>14, <2>1
  <2> QED BY <2>1, <2>2, <2>3
<1> HIDE DEF PlacedAt
<1>17. RecordsHaveFiles'
  <2> SUFFICES ASSUME NEW p \in placed'
               PROVE  /\ DOMAIN p = {"path", "dir", "entry", "node", "content", "created"}
                      /\ \E f \in files' : Of(p, f)
    BY <1>15 DEF RecordsHaveFiles
  <2> QED BY <1>14, <1>16
<1>18. FilesHaveRecords'
  <2> SUFFICES ASSUME NEW f \in files', f.node \in {"data", "source"}
               PROVE  \E p \in placed' : Of(p, f)
    BY <1>15 DEF FilesHaveRecords
  <2>1. f \in Listings \/ (f \in files /\ f.node = "source")
    BY <1>3, <1>5 DEF AsWritten
  <2>2. PlacedAt(f) \in placed'
    BY <1>1, <2>1
  <2> QED BY <1>14, <2>2
<1>19. MadeAtHome'
  <2> SUFFICES ASSUME NEW p \in placed', p.created, p.node = "data"
               PROVE  /\ run.creator # 0 /\ p.dir = "outputs"
                      /\ p.path = PathOf(folder, run.creator) /\ run.creator \in DOMAIN folder
    BY <1>1 DEF MadeAtHome, Home
  <2>1. PICK f \in files' : p = PlacedAt(f) /\ Of(p, f) /\ (f \in Listings \/ f.node = "source")
    BY <1>16
  <2>2. f \in Listings
    BY <2>1 DEF Of
  <2>3. PICK q, dir, nested : Lister(q, dir, nested) /\ ListedAs(f, q, dir, nested)
    BY <1>4, <2>2
  <2>4. f.dir = "outputs" /\ run.kind[f.at] # "workflow"
    BY <1>14, <2>1
  <2>5. run.creator = f.at /\ f.at \in Steps
    BY <2>3, <2>4 DEF Lister, ListedAs
  <2>6. f.at # 0
    BY <1>1, <2>5, TreeAssumption DEF CallsGoForward
  <2> QED BY <1>1, <2>1, <2>4, <2>5, <2>6 DEF Of
<1>20. Lists(run.creator)' = Lists(run.creator) /\ Content(FALSE)' = Content(FALSE)
       /\ IsCalcJob(run.creator)' = IsCalcJob(run.creator)
    BY <1>1 DEF Lists, Content, IsCalcJob
<1>21. run.creator # 0 /\ Lists(run.creator) => Lister(run.creator, "outputs", FALSE)
    BY <1>2 DEF RunOfCalls, Lister
<1>22. MakerRecorded'
  <2>1. CASE Lists(run.creator)
    <3> SUFFICES ASSUME run.creator # 0
                 PROVE  \E p \in placed' : p.created /\ p.node = "data" /\ p.content = Content(FALSE)
      BY <1>1, <1>20, <2>1 DEF MakerRecorded, HasFolder
    <3>1. PICK g \in Listings : ListedAs(g, run.creator, "outputs", FALSE)
      BY <1>4, <1>21, <2>1
    <3>2. PlacedAt(g) \in placed'
      BY <1>1
    <3>3. g.dir = "outputs" /\ g.at = run.creator /\ g.node = "data" /\ g.content = Content(FALSE)
      BY <3>1 DEF ListedAs
    <3>4. run.kind[run.creator] # "workflow"
      BY <1>2 DEF RunOfCalls
    <3>5. Of(PlacedAt(g), g) /\ PlacedAt(g).created
      BY <1>14, <3>3, <3>4
    <3> QED BY <3>2, <3>3, <3>5 DEF Of
  <2>2. CASE ~Lists(run.creator)
    <3> SUFFICES ASSUME run.creator # 0, run.value # "empty", NEW f \in files', f.at = run.creator
                 PROVE  NonContent(f)'
      BY <1>1, <1>20, <2>2 DEF MakerRecorded, HasFolder
    <3>1. run.kind[run.creator] = "helper"
      BY <1>2, <2>2 DEF RunOfCalls, Lists
    <3>2. f \notin Listings
      <4> SUFFICES ASSUME f \in Listings PROVE FALSE
        OBVIOUS
      <4>1. PICK p, dir, nested : Lister(p, dir, nested) /\ ListedAs(f, p, dir, nested)
        BY <1>4
      <4> QED BY <2>2, <4>1 DEF Lister, ListedAs
    <3>3. AsWritten(run, f.at, f)
      BY <1>3, <1>5, <3>2
    <3>4. f.node \in {"metadata", "source"}
      BY <3>1, <3>3 DEF AsWritten
    <3> QED BY <3>4 DEF NonContent
  <2> QED BY <2>1, <2>2
<1>23. ValuesAlike'
  <2> SUFFICES ASSUME NEW f \in files', f.node = "data"
               PROVE  run.value # "empty" /\ (f.content = "nested" \/ f.content = Content(FALSE))
    BY <1>1, <1>20 DEF ValuesAlike
  <2>1. f \in Listings
    BY <1>3, <1>5 DEF AsWritten
  <2>2. PICK p, dir, nested : Lister(p, dir, nested) /\ ListedAs(f, p, dir, nested)
    BY <1>4, <2>1
  <2>3. f.content = Content(nested) /\ run.value # "empty"
    BY <2>2 DEF Lister, ListedAs, Lists
  <2>4. Content(nested) = "nested" \/ Content(nested) = Content(FALSE)
    BY DEF Content
  <2> QED BY <2>3, <2>4
<1>24. ValueWritten'
  <2> SUFFICES ASSUME run.value # "empty",
                      \/ run.creator # 0 /\ IsCalcJob(run.creator)
                      \/ \E p \in Steps : run.returns[p] # "no"
               PROVE  \E f \in files' : f.node = "data" /\ f.dir = "outputs"
    BY <1>1, <1>20 DEF ValueWritten
  <2>1. ASSUME NEW p, NEW nested, Lister(p, "outputs", nested)
        PROVE  \E f \in files' : f.node = "data" /\ f.dir = "outputs"
    <3>1. PICK g \in Listings : ListedAs(g, p, "outputs", nested)
      BY <1>4, <2>1, Zenon
    <3> QED BY <1>3, <3>1 DEF ListedAs
  <2>2. CASE run.creator # 0 /\ IsCalcJob(run.creator)
    <3>1. Lists(run.creator)
      BY <1>2, <2>2 DEF RunOfCalls, Lists, IsCalcJob
    <3> QED BY <1>21, <2>1, <2>2, <3>1
  <2>3. CASE ~(run.creator # 0 /\ IsCalcJob(run.creator))
    <3>1. PICK p \in Steps : run.returns[p] # "no"
      BY <2>3
    <3>2. run.kind[p] = "workflow"
      BY <1>2, <3>1 DEF RunOfCalls
    <3>3. Lists(p)
      BY <1>2, <3>2 DEF RunOfCalls, Lists
    <3>4. Echoes(p)
      BY <2>3, <3>1 DEF Echoes, OwnCalculationMade, RepeatsListing
    <3>5. PICK nested \in BOOLEAN : nested = (run.returns[p] = "nested")
      OBVIOUS
    <3>6. Lister(p, "outputs", nested)
      BY <3>2, <3>3, <3>4, <3>5 DEF Lister
    <3> QED BY <2>1, <3>6
  <2> QED BY <2>2, <2>3
<1>25. RunOfCalls' /\ Closed'
    BY <1>1, <1>2 DEF RunOfCalls, Closed
<1>26. Recorded'
    BY <1>17, <1>18, <1>19, <1>22, <1>23, <1>24 DEF Recorded
<1> QED BY <1>1, <1>9, <1>10, <1>11, <1>13, <1>25, <1>26, BeforeLinksNext DEF FilesInv

-----------------------------------------------------------------------------
(* The invariant and the theorems about files.                             *)

\* The runs the model starts from are runs of calls.
LEMMA RunsAreOfCalls == TreeInit => RunOfCalls
<1> SUFFICES ASSUME TreeInit PROVE RunOfCalls
    OBVIOUS
<1>1. PICK n \in 2 .. MaxSteps : \E parent, kind, creator :
         /\ parent \in Parents(n) /\ kind \in [1 .. n -> Kinds] /\ creator \in 0 .. n
         /\ \A p \in 1 .. n : parent[p] # NoStep => kind[parent[p]] = "workflow"
         /\ kind[Root] = "workflow"
         /\ creator # 0 => kind[creator] \in {"finished", "helper"}
         /\ IsRunOf(run, n, parent, kind, creator)
    BY Zenon DEF TreeInit, IsRun
<1>2. PICK parent, kind, creator :
         /\ parent \in Parents(n) /\ kind \in [1 .. n -> Kinds] /\ creator \in 0 .. n
         /\ \A p \in 1 .. n : parent[p] # NoStep => kind[parent[p]] = "workflow"
         /\ kind[Root] = "workflow"
         /\ creator # 0 => kind[creator] \in {"finished", "helper"}
         /\ IsRunOf(run, n, parent, kind, creator)
    BY <1>1
<1>3. n \in Nat /\ n >= 2
    BY TreeAssumption
<1>4. /\ run.parent = parent /\ run.kind = kind /\ run.creator = creator
      /\ run.value \in {"json", "empty", "file"}
    BY <1>2 DEF IsRunOf
<1>5. \A p \in run.readers : p \in 2 .. n /\ creator < p /\ kind[p] \in {"finished", "failed", "helper"}
    BY <1>2 DEF IsRunOf
<1>6. \A p \in 1 .. n : run.returns[p] # "no" => kind[p] = "workflow"
    BY <1>2 DEF IsRunOf
<1>7. Steps = 1 .. n
    BY <1>2, <1>4 DEF Steps
<1>8. \A p \in 1 .. n \ {Root} : kind[parent[p]] = "workflow"
    BY <1>2, <1>3 DEF Parents, Root, NoStep
<1>9. \A p \in run.readers : p \in 1 .. n /\ kind[p] # "workflow" /\ creator < p
    BY <1>3, <1>5
<1>10. creator # 0 => creator \in 1 .. n
    BY <1>2, <1>3
<1> QED BY <1>2, <1>4, <1>6, <1>7, <1>8, <1>9, <1>10 DEF RunOfCalls

\* It holds of the tree as AiiDA dumps it.
LEMMA InitEstablishesFiles == TreeInit => FilesInv
<1> SUFFICES ASSUME TreeInit PROVE FilesInv
    OBVIOUS
<1>1. /\ pc = "simplify" /\ DOMAIN folder = Steps /\ placed = {}
      /\ \A p \in Steps : folder[p] = [up |-> run.parent[p], name |-> RawName(run, p)]
      /\ files = UNION {RawFiles(run, p) : p \in Steps}
      /\ dirs = {p \in Steps : run.kind[p] \in {"finished", "failed"}} \X {"inputs", "outputs"}
      /\ CallsGoForward /\ FoldersOfSteps
    BY InitEstablishesTreeInv DEF TreeInit, TreeInv
<1>2. RunOfCalls
    BY RunsAreOfCalls
<1>3. Closed
  <2>1. Root \in Steps
    BY <1>1 DEF FoldersOfSteps
  <2>2. folder[Root].name = Nothing
    <3>1. RawName(run, Root) = Nothing
      BY Zenon DEF RawName
    <3>2. folder[Root] = [up |-> run.parent[Root], name |-> RawName(run, Root)]
      BY <1>1, <2>1, Zenon
    <3>3. PICK u : u = run.parent[Root]
      OBVIOUS
    <3>4. folder[Root] = [up |-> u, name |-> Nothing]
      BY <3>1, <3>2, <3>3, Zenon
    <3> QED BY <3>4
  <2>3. Nothing.park = 0 /\ Nothing.num = 0
    BY DEF Nothing
  <2>4. \A f \in Steps \ {Root} : run.parent[f] \in Steps
    <3>1. PICK n \in 1 .. MaxSteps : Steps = 1 .. n
      BY <1>1 DEF CallsGoForward
    <3> QED BY <1>1, <3>1, TreeAssumption DEF CallsGoForward
  <2> QED BY <1>1, <2>2, <2>3, <2>4 DEF Closed
<1>4. AsDumped
    BY <1>1 DEF AsDumped
<1>5. OwnFilesStay
  <2> SUFFICES ASSUME NEW p \in Steps, NEW f \in RawFiles(run, p), f.node = "own"
               PROVE  /\ Home(p) \in DOMAIN folder
                      /\ \E g \in files : /\ g.at = Home(p) /\ g.dir = f.dir /\ g.entry = f.entry
                                          /\ g.node = "own"
    BY DEF OwnFilesStay
  <2>1. AsWritten(run, p, f)
    BY RawFilesAre
  <2>2. f.at = p
    BY <2>1 DEF AsWritten
  <2>3. Home(p) = p /\ f \in files
    BY <1>1 DEF Home
  <2> QED BY <1>1, <2>2, <2>3
<1>6. HoistedOnly
    BY <1>1 DEF HoistedOnly
<1> QED BY <1>1, <1>2, <1>3, <1>4, <1>5, <1>6 DEF FilesInv, Listed, LinksResolve, ValuesSurvive

\* A step that changes nothing keeps it.
LEMMA StutterKeepsFiles == FilesInv /\ UNCHANGED treeVars => FilesInv'
<1> SUFFICES ASSUME FilesInv, UNCHANGED treeVars PROVE FilesInv'
    OBVIOUS
<1>1. UNCHANGED <<run, pc, todo, folder, files, dirs, placed>>
    BY DEF treeVars
<1>2. FilesStand
    BY <1>1 DEF FilesStand
<1>3. /\ Steps' = Steps /\ (RunOfCalls => RunOfCalls')
      /\ \A f : Home(f)' = Home(f) /\ Own(f)' = Own(f)
      /\ OwnFilesStay => OwnFilesStay'
      /\ HoistedOnly => HoistedOnly'
      /\ \A f : Raised(f)' = Raised(f)
      /\ Tidy => Tidy'
    BY <1>2, StandingFiles
<1>4. Closed => Closed'
    BY <1>1 DEF Closed
<1>5. AsDumped => AsDumped'
    BY <1>1, <1>3 DEF AsDumped, Kept
<1>6. Lifting => Lifting'
    BY <1>1, <1>3 DEF Lifting, Beneath, Awaited
<1>7. Recorded => Recorded'
    BY <1>1, <1>3 DEF Recorded, RecordsHaveFiles, FilesHaveRecords, MadeAtHome, MakerRecorded,
       ValuesAlike, ValueWritten, Of, HasFolder, Lists, Content, IsCalcJob, NonContent, Echoed
<1>8. LinksResolve => LinksResolve'
    BY <1>1, <1>3 DEF LinksResolve, Where, IsCalcJob
<1>9. ValuesSurvive => ValuesSurvive'
    BY <1>1, <1>3 DEF ValuesSurvive, IsCalcJob
<1> QED BY <1>1, <1>3, <1>4, <1>5, <1>6, <1>7, <1>8, <1>9 DEF FilesInv

\* The passes keep the files, and the record of placed files (_PlacedFiles) tells
\* where each listed file is, through every renaming and lifting of folders.
THEOREM FilesInvHolds == TreeSpec => []FilesInv
<1>1. TreeInit => FilesInv
    BY InitEstablishesFiles
<1>2. TreeInv /\ TreeInv' /\ FilesInv /\ [TreeNext]_treeVars => FilesInv'
    BY SimplifyKeepsFiles, ListKeepsFiles, PruneKeepsFiles, ParkKeepsFiles, RenumberKeepsFiles,
       StripKeepsFiles, HoistKeepsFiles, NextPassKeepsFiles, LinkKeepsFiles, StutterKeepsFiles
       DEF TreeNext
<1> QED BY <1>1, <1>2, TreeInvHolds, PTL DEF TreeSpec

\* At every step of the tidying, the files that a calculation wrote itself are
\* under the folder that stands for it and have the names it gave them: neither
\* the pruning (_prune_engine_bookkeeping) nor the lifting of a lone calculation
\* (_hoist_lone_calculations) nor a link (_link_duplicate_files) replaces them.
\* And when all is done, a value that a calculation made or a workflow returns
\* still has a file that is no link, for all the listings (_write_step_io) that
\* _link_duplicate_files turned into links to one another's copies.
THEOREM ContentIsKept == TreeSpec => []ContentSurvives
<1>1. FilesInv => ContentSurvives
    BY DEF FilesInv, ContentSurvives
<1> QED BY <1>1, FilesInvHolds, PTL

\* When all is done, every link that _link_duplicate_files made leads to a real
\* file with the same content, the one of who made it if there is one: the paths
\* in the record followed every folder that was renamed or lifted after the
\* listing (_PlacedFiles.moved).
THEOREM LinksLead == TreeSpec => []LinksResolve
<1>1. FilesInv => LinksResolve
    BY DEF FilesInv
<1> QED BY <1>1, FilesInvHolds, PTL
=============================================================================
