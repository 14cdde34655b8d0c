------------------------------- MODULE Blocks -------------------------------
(***************************************************************************)
(* The projection blocks a Wannierization runs (aiida/workflows/blocks.py).*)
(*                                                                         *)
(* A list of projection blocks is the sequence w of the numbers of Wannier *)
(* functions they describe; bands are counted from 1 and the lowest nocc   *)
(* of them are occupied.                                                   *)
(***************************************************************************)
EXTENDS Integers, Sequences, FiniteSets, SequencesExt

\* Bands below each block, and below the end: the blocks tile the manifold
\* in their order.
Cursor(w) ==
    LET cursor[k \in 0..Len(w)] == IF k = 0 THEN 0 ELSE cursor[k - 1] + w[k]
    IN  cursor

NumWann(w) == Cursor(w)[Len(w)]

Below(w, i) == Cursor(w)[i - 1]

\* The extra bands the last block reads, those no block Wannierises.
Extra(w, i, nbnd) == IF i = Len(w) THEN nbnd - NumWann(w) ELSE 0

\* Defined where the blocks fit into the nbnd bands (SpansTooMany).
BandRange(w, i, nbnd) ==
    [start |-> Below(w, i) + 1, end |-> Below(w, i) + w[i],
     num_wann |-> w[i], num_bands |-> w[i] + Extra(w, i, nbnd)]

SpansTooMany(w, nbnd) == NumWann(w) > nbnd

\* Where a block reads its bands from: one manifold, or both ("unsettled").
Filling(r, nbnd, nocc) ==
    LET windowEnd == IF r.num_bands > r.num_wann THEN nbnd ELSE r.end
    IN  IF windowEnd <= nocc THEN "occ"
        ELSE IF r.start > nocc THEN "emp"
        ELSE "unsettled"

\* The bands wannier90 is told to leave out: all the others, except that a
\* block that disentangles reads the ones above it.
ExcludedBands(r, nbnd) ==
    IF r.num_bands > r.num_wann THEN 1..(r.start - 1)
    ELSE (1..nbnd) \ (r.start..r.end)

\* A block's name: its place in its manifold, or in the list.
Label(fillings, i) ==
    <<fillings[i], IF fillings[i] = "unsettled" THEN i
                   ELSE Cardinality({j \in 1..i : fillings[j] = fillings[i]})>>

CreateExplicitBlocks(w, nbnd, nocc) ==
    LET ranges == [i \in DOMAIN w |-> BandRange(w, i, nbnd)]
        fillings == [i \in DOMAIN w |-> Filling(ranges[i], nbnd, nocc)]
        finalized == \A i \in DOMAIN w : fillings[i] # "unsettled"
    IN  [i \in DOMAIN w |->
            [range |-> ranges[i], label |-> Label(fillings, i),
             filled |-> IF finalized THEN fillings[i] ELSE "unsettled",
             exclude |-> ExcludedBands(ranges[i], nbnd)]]

\* The one block of the automatic projections, cut into its groups at run time.
CreateAutomaticBlocks(projectors) ==
    <<[range |-> [start |-> 1, end |-> projectors,
                  num_wann |-> projectors, num_bands |-> projectors],
       label |-> <<"unsettled", 1>>, filled |-> "unsettled", exclude |-> {}]>>

\* External: block_occupancy answers only for a block whose occupancy is
\* settled, and the kcp.x route takes no other.
SeparateOccAndEmp(blocks) == \A i \in DOMAIN blocks : blocks[i].filled # "unsettled"

CoverAllOccBands(blocks, nocc) ==
    NumWann(SelectSeq([i \in DOMAIN blocks |->
                          IF blocks[i].range.end <= nocc THEN blocks[i].range.num_wann ELSE 0],
                      LAMBDA n : n > 0)) = nocc

\* External: derive_dfpt_manifolds lays the blocks out by the same rules and
\* refuses, in this order of its typed errors, what kcw.x cannot take.
ManifoldRefusal(w, nocc, nbnd) ==
    LET bands == IF nbnd = 0 THEN NumWann(w) ELSE nbnd
        blocks == CreateExplicitBlocks(w, bands, nocc)
    IN  IF nbnd # 0 /\ SpansTooMany(w, nbnd) THEN {"nbnd: empty functions not covered"}
        ELSE IF ~SeparateOccAndEmp(blocks) THEN {"projections: a block straddles the boundary"}
        ELSE IF ~CoverAllOccBands(blocks, nocc) THEN {"projections: occupied bands not covered"}
        ELSE {}
=============================================================================
