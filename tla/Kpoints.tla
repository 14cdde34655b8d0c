------------------------------ MODULE Kpoints ------------------------------
(***************************************************************************)
(* The k-point sampling each step of a run takes from the `kpoints` block  *)
(* of an input file (aiida/conversion.py).                                 *)
(*                                                                         *)
(* k is any record with the fields of KpointsDefaults: the parsed block.   *)
(* A mesh has one dimension per direction of the cell; two directions are  *)
(* enough to tell "some direction" from "every direction". An offset is    *)
(* counted in half grid steps. A density or a spacing is a number, and 0   *)
(* one that is not stated.                                                 *)
(***************************************************************************)
EXTENDS Integers, Sequences, SequencesExt

Directions == 1..2
Unit == <<1, 1>>

\* One entry of kpoints.overrides that states a mesh: any part of it may be
\* left out, and the whole entry too.
NoEntry == [stated |-> FALSE, grid |-> <<>>, spacing |-> 0, offset |-> <<>>]

StepEntry(grid, spacing, offset) ==
    [stated |-> TRUE, grid |-> grid, spacing |-> spacing, offset |-> offset]

\* A gamma-only calculation is what a file that names no k-points asks for.
KpointsDefaults ==
    [gamma_only |-> TRUE, grid |-> Unit, offset |-> 0, path |-> FALSE,
     scf |-> NoEntry, nscf |-> NoEntry, dielectric |-> NoEntry,
     wannierize |-> 0, wannierize_smooth |-> <<>>]

\* A path with a segment to interpolate along: the zone centre has none.
NamesBandPath(k) == ~k.gamma_only /\ k.path

-----------------------------------------------------------------------------
\* What a step samples: a mesh, or whatever mesh a spacing gives on the cell.
NoSampling == [by |-> "nothing", grid |-> <<>>, offset |-> 0, spacing |-> 0]

Mesh(grid, offset) ==
    [by |-> "mesh", grid |-> grid, offset |-> offset, spacing |-> 0]

Spaced(spacing) ==
    [by |-> "spacing", grid |-> <<>>, offset |-> 0, spacing |-> spacing]

\* External: the mesh create_kpoints_from_distance builds on the cell.
SpacedGrid(spacing) == [d \in Directions |-> spacing + 2]

\* The entries a step reads, nearest first: only the dielectric step has
\* another entry to fall back to.
EntriesOf(k, step) == IF step = "dielectric" THEN <<k.dielectric, k.scf>> ELSE <<k[step]>>

\* The part of the first entry that states it, or the given default.
Nearest(entries, States(_), part(_), default) ==
    LET stating == {i \in DOMAIN entries : entries[i].stated /\ States(entries[i])}
    IN  IF stating = {} THEN default ELSE part(entries[Min(stating)])

StepGridSpacing(k, step) ==
    Nearest(EntriesOf(k, step),
            LAMBDA e : e.spacing # 0 \/ e.grid # <<>>, LAMBDA e : e.spacing, 0)

StepOffset(k, step) ==
    Nearest(EntriesOf(k, step),
            LAMBDA e : e.offset # <<>>, LAMBDA e : Head(e.offset), k.offset)

StepKpointsMesh(k, step) ==
    Mesh(Nearest(EntriesOf(k, step), LAMBDA e : e.grid # <<>>, LAMBDA e : e.grid, k.grid),
         StepOffset(k, step))

\* The mesh of a step koopmans resolves a spacing for itself.
StepSpacingMesh(k, step) ==
    Mesh(SpacedGrid(StepGridSpacing(k, step)), StepOffset(k, step))

\* A pw.x step takes a mesh, or a distance in its overrides and no mesh.
PinStepKpoints(k, step) ==
    IF StepGridSpacing(k, step) # 0 THEN Spaced(StepGridSpacing(k, step))
    ELSE StepKpointsMesh(k, step)

\* The mesh of the eps_inf: auto step, where the input states one for it.
DielectricKpoints(k) ==
    IF k.gamma_only \/ ~k.dielectric.stated THEN NoSampling
    ELSE IF StepGridSpacing(k, "dielectric") # 0 THEN StepSpacingMesh(k, "dielectric")
    ELSE StepKpointsMesh(k, "dielectric")

-----------------------------------------------------------------------------
\* The densification of the smooth Wannierization, <<>> where none runs.
SmoothFactor(k) ==
    IF k.gamma_only \/ ~\E d \in DOMAIN k.wannierize_smooth : k.wannierize_smooth[d] > 1
    THEN <<>> ELSE k.wannierize_smooth

SmoothGrid(k, factor) == [d \in Directions |-> k.grid[d] * factor[d]]

\* The density a route's own path is sampled at; 0 is no path at all.
TopDensity == 10

InterpolationPath(k, density) == IF NamesBandPath(k) THEN density ELSE 0

\* Each Wannierization interpolates at the density of its own entry; the
\* smooth one's entry is read here at the default of its density.
DefaultWannierDensity == 50

WannierizeInterpolationPath(k) ==
    InterpolationPath(k, IF k.wannierize = 0 THEN DefaultWannierDensity ELSE k.wannierize)
=============================================================================
