---------------------------- MODULE FamilyOrder ------------------------------
(***************************************************************************)
(* The reading order of sibling steps, which the results folder            *)
(* (koopmans/aiida/dumping.py, _display_order) and the progress table      *)
(* (koopmans/aiida/progress.py, _ordered_children) both follow, each with  *)
(* a copy of the rule. A label is its text with the digit runs masked, the *)
(* family, and the numbers that stood there, of which one is kept here.    *)
(***************************************************************************)
EXTENDS Naturals, Sequences, FiniteSets, FiniteSetsExt

\* The positions that a family takes among the labels.
Positions(labels, family) == {i \in DOMAIN labels : labels[i].family = family}

\* Mutant: a family is brought together wherever its members stand.
IsFamily(labels, family) == Cardinality(Positions(labels, family)) > 1

\* A family whose members stand side by side was a fan-out.
IsFanOut(labels, family) ==
    LET p == Positions(labels, family) IN Cardinality(p) > 1 /\ p = Min(p) .. Max(p)

\* _natural_key: numbers compare as numbers; the sort is stable.
Precedes(labels, i, j) ==
    \/ labels[i].index < labels[j].index
    \/ labels[i].index = labels[j].index /\ i < j

\* The member of the fan-out that is read at position i.
MemberAt(labels, i) ==
    LET p == Positions(labels, labels[i].family) IN
    CHOOSE m \in p : Cardinality({k \in p : Precedes(labels, k, m)}) =
                     Cardinality({k \in p : k < i})

\* The position, in the order of creation, of the step that is read i-th.
DisplayOrder(labels) ==
    [i \in DOMAIN labels |->
        IF IsFanOut(labels, labels[i].family) THEN MemberAt(labels, i) ELSE i]
==============================================================================
