------------------------------- MODULE Routes -------------------------------
(***************************************************************************)
(* The graph each task builds of a parsed input (aiida/workflows/).        *)
(*                                                                         *)
(* f is a parsed file and s the site it is built on. A route is a chain of *)
(* guards, in the order the code reaches them, and the graph it builds     *)
(* when none holds; a guard is a condition and the complaint it raises.    *)
(***************************************************************************)
EXTENDS InputFile, Blocks

\* What the machine, the profile and the pseudopotential family decide.
UsualSite ==
    [nelec |-> 4, cutoffs |-> TRUE, conserving |-> TRUE, relativistic |-> FALSE,
     projectors |-> 4, projector_files |-> TRUE, unregistered |-> {},
     computers |-> {"localhost", "cluster", "workstation"}]

Sites ==
    [nelec |-> Nat, cutoffs |-> BOOLEAN, conserving |-> BOOLEAN, relativistic |-> BOOLEAN,
     projectors |-> Nat, projector_files |-> BOOLEAN, unregistered |-> SUBSET STRING,
     computers |-> SUBSET STRING]

SchedulerOf(computer) ==
    CASE computer = "cluster" -> "core.slurm"
      [] computer = "workstation" -> "core.direct"
      [] OTHER -> "hyperqueue"

\* The inputs of a graph that the properties read. scf and nscf are
\* samplings, the three densities 0 where no path is passed; channels holds
\* one list of projection blocks per spin channel; seeded is what the step
\* overrides carry of the pw.x directives, <<>> where the route writes none
\* into them, mapping what every code is told.
NoGraph ==
    [entry |-> "none", scf |-> NoSampling, nscf |-> NoSampling,
     bands |-> 0, interpolation |-> 0, smooth |-> <<>>,
     eps_inf |-> "unset", eps_kpoints |-> NoSampling, mp_correction |-> "unset",
     screened |-> FALSE, ml_mode |-> "none", group_tol |-> "unset", alpha |-> "unset",
     channels |-> <<>>, nscf_nbnd |-> 0, seeded |-> <<>>,
     mapping |-> [c \in {} |-> NoFields], needs |-> {}]

Spinor(f) == f.spin \in {"non_collinear", "spin_orbit"}

Magnetization(f) ==
    IF f.tot_magnetization = <<>> THEN 0 ELSE Head(f.tot_magnetization) \div 2

\* The electrons that fill the bands of a channel: of all of them where the
\* channels are one, and by the moment where they are two.
NumOcc(f, s, sign) == (s.nelec + sign * Magnetization(f)) \div 2

-----------------------------------------------------------------------------
(* What the routes share.                                                  *)

\* The pw.x block of the input overrides the shorthand, for the pw.x steps.
PwNbnd(f) == IF f.pw_nbnd # 0 THEN f.pw_nbnd ELSE f.nbnd

\* The count the blocks of the DFPT and the Wannierize routes are laid over.
BlockNbnd(f) == IF f.nbnd # 0 THEN f.nbnd ELSE f.pw_nbnd

PwParameterGuards(f) == When(f.smearing = "bare", "smearing: needs degauss")

FamilyGuards(f, s) ==
    When(~s.conserving, "pseudo_library: not norm-conserving")
      || When(~s.cutoffs /\ ~f.ecutwfc, "ecutwfc: the family recommends none")

PrepareGuards(f, s) == PwParameterGuards(f) || FamilyGuards(f, s)

CodeGuards(required, s) ==
    When(required \cap s.unregistered # {}, "codes: not configured")

StepOverrideGuards(f) ==
    When(f.scf.stated, "kcp: takes one mesh")
      || When(f.nscf.stated, "kcp: takes one mesh")

CorrectionGuards(f) == When(f.correction \notin {"ki", "kipz"}, "correction: not supported")

ExternalProjectorGuards(f) == When(f.atom_proj_ext, "atom_proj_ext: not wired")

ProjectorFileGuards(f, s) ==
    When(f.atom_proj_ext /\ f.atom_proj_dir = "unset", "atom_proj_dir: needed")
      || When(f.atom_proj_ext /\ ~s.projector_files, "atom_proj_dir: no such files")

-----------------------------------------------------------------------------
(* Plain DFT.                                                              *)

DftBandsGuards(f, s) == PrepareGuards(f, s) || CodeGuards({"pw"}, s)

DftBandsGraph(f) ==
    [NoGraph EXCEPT !.entry = "RunPwBands", !.scf = PinStepKpoints(f, "scf"),
        !.bands = InterpolationPath(f, TopDensity), !.nscf_nbnd = PwNbnd(f),
        !.seeded = <<CodeParallelization(f, "pw")>>, !.mapping = AsMapping(f)]

\* External: DielectricTask refuses the spinor regimes itself.
DftEpsGuards(f, s) ==
    PrepareGuards(f, s) || CodeGuards({"pw", "ph"}, s)
      || When(Spinor(f), "spin: no spinor dielectric")

DftEpsGraph(f) ==
    [NoGraph EXCEPT !.entry = "DielectricTask", !.scf = PinStepKpoints(f, "scf"),
        !.seeded = <<CodeParallelization(f, "pw")>>, !.mapping = AsMapping(f)]

-----------------------------------------------------------------------------
(* Wannierization.                                                         *)

ChannelProjections(f) == f.up # <<>> \/ f.down # <<>>

ExplicitProjections(f) == f.projections # <<>> \/ ChannelProjections(f)

ProjectionSourceGuards(f) ==
    When(ExplicitProjections(f) /\ f.auto_projections, "projections: two sources")
      || When(ExplicitProjections(f) /\ f.atom_proj_ext, "projections: external ignored")
      || When(f.atom_proj_ext /\ ~f.auto_projections,
              "atom_proj_ext: needs auto_projections")

NoProjectionGuards(f) ==
    When(~f.auto_projections /\ ~ExplicitProjections(f), "projections: none defined")

\* The whole manifold in one Wannierization, or block by block.
RunsByBlock(f) == f.threshold \/ ExplicitProjections(f)

OneManifoldGuards(f, s) ==
    NoProjectionGuards(f) || PrepareGuards(f, s) || ProjectorFileGuards(f, s)
      || CodeGuards({"pw", "pw2wannier90", "wannier90"}, s)

OneManifoldGraph(f) ==
    [NoGraph EXCEPT !.entry = "Wannierize", !.scf = PinStepKpoints(f, "scf"),
        !.nscf = StepKpointsMesh(f, "nscf"), !.bands = InterpolationPath(f, TopDensity),
        !.interpolation = WannierizeInterpolationPath(f), !.nscf_nbnd = PwNbnd(f),
        !.seeded = <<CodeParallelization(f, "pw")>>, !.mapping = AsMapping(f)]

ExplicitNbnd(f) == IF BlockNbnd(f) # 0 THEN BlockNbnd(f) ELSE NumWann(f.projections)

AutomaticBlockGuards(f, s) ==
    ProjectorFileGuards(f, s)
      || When(~f.atom_proj_ext /\ s.relativistic, "pseudo_library: fully relativistic")
      || When(s.projectors < NumOcc(f, s, 0), "auto_projections: too few projectors")
      || When(BlockNbnd(f) # 0 /\ BlockNbnd(f) < s.projectors,
              "nbnd: fewer than the projectors")
      || When(BlockNbnd(f) > s.projectors, "nbnd: more than the projectors")

BlockSourceGuards(f, s) ==
    IF f.projections # <<>>
    THEN When(SpansTooMany(f.projections, ExplicitNbnd(f)),
              "projections: span too many bands")
    ELSE NoProjectionGuards(f) || AutomaticBlockGuards(f, s)

\* The threshold asks whether a path is stated: a gamma-only run states one,
\* the zone centre, with no segment to run bands along.
NeedsPathGuards(f) ==
    When(f.threshold /\ ~f.path /\ ~f.gamma_only, "threshold: needs a path")

BlockwiseGuards(f, s) ==
    When(ChannelProjections(f), "projections: one channel only") || NeedsPathGuards(f)
      || When(s.nelec % 2 # 0, "nelec: odd")
      || BlockSourceGuards(f, s) || PrepareGuards(f, s)
      || CodeGuards({"pw", "pw2wannier90", "wannier90"}, s)

\* The nscf runs the bands the blocks were laid over, whatever the input says.
BlockwiseGraph(f, s) ==
    LET explicit == f.projections # <<>>
        nbnd == IF explicit THEN ExplicitNbnd(f) ELSE s.projectors
        blocks == IF explicit THEN CreateExplicitBlocks(f.projections, nbnd, NumOcc(f, s, 0))
                  ELSE CreateAutomaticBlocks(nbnd)
    IN  [NoGraph EXCEPT !.entry = "WannierizeBlocks", !.scf = PinStepKpoints(f, "scf"),
            !.nscf = StepKpointsMesh(f, "nscf"), !.bands = InterpolationPath(f, TopDensity),
            !.interpolation = WannierizeInterpolationPath(f),
            !.channels = <<blocks>>, !.nscf_nbnd = nbnd, !.mapping = AsMapping(f),
            !.needs = IF f.threshold THEN {"wannierjl"} ELSE {}]

WannierizeGuards(f, s) ==
    When(f.spin # "none", "spin: none only") || ProjectionSourceGuards(f)
      || (IF RunsByBlock(f) THEN BlockwiseGuards(f, s) ELSE OneManifoldGuards(f, s))

WannierizeGraph(f, s) == IF RunsByBlock(f) THEN BlockwiseGraph(f, s) ELSE OneManifoldGraph(f)

-----------------------------------------------------------------------------
(* Koopmans on kcp.x.                                                      *)

OrbitalGroupGuards(f) == When(f.orbital_groups # 0, "orbital_groups: not threaded")

\* Either route knows one criterion; the other's is refused, never ignored.
GroupingTol(f, criterion) == IF f.group_by = criterion THEN f.group_tol ELSE "unset"

KcpGuards(f) ==
    When(~f.ecutwfc, "ecutwfc: needed")
      || When(f.nbnd = 0 /\ f.kcp_nbnd = 0, "nbnd: needed")
      || When(f.alpha_guess = "distinct", "alpha_guess: one value only")
      || OrbitalGroupGuards(f)
      || When(f.group_by = "spread", "group_orbitals_by: not on kcp.x")

\* Mutant: the shorthand wins over the pw.x block.
NscfNbndOfShorthand(f) == IF f.nbnd # 0 THEN f.nbnd ELSE PwNbnd(f)

\* The bands the Wannier functions of the supercell are taken from.
NscfNbnd(f) ==
    IF PwNbnd(f) # 0 THEN PwNbnd(f) ELSE f.kcp_nbnd

CoverageGuards(w, nocc) ==
    When(NumWann(w) < nocc, "projections: fewer than the occupied bands")

KcpNbndGuards(f, w) ==
    When(f.kcp_nbnd # 0 /\ f.kcp_nbnd # NumWann(w), "kcp.nbnd: not the projections'")
      || When(NscfNbnd(f) < NumWann(w), "nscf: fewer bands than orbitals")

SequenceGuards(f, w, nocc) ==
    LET blocks == CreateExplicitBlocks(w, NscfNbnd(f), nocc)
    IN  When(w = <<>> \/ ~SeparateOccAndEmp(blocks),
             "projections: a block straddles the boundary")
      || When(~CoverAllOccBands(blocks, nocc), "projections: occupied bands not covered")

OneChannelGuards(f, s) ==
    LET nocc == NumOcc(f, s, 0)
    IN  When(s.nelec % 2 # 0, "nelec: odd")
          || CoverageGuards(f.projections, nocc) || KcpNbndGuards(f, f.projections)
          || SequenceGuards(f, f.projections, nocc)

MomentGuards(f, s) ==
    When((s.nelec + Magnetization(f)) % 2 # 0, "tot_magnetization: no whole occupations")

TwoChannelGuards(f, s) ==
    When(f.up = <<>> \/ f.down = <<>>, "projections: needed per channel")
      || MomentGuards(f, s)
      || CoverageGuards(f.up, NumOcc(f, s, 1)) || CoverageGuards(f.down, NumOcc(f, s, -1))
      || When(NumWann(f.up) # NumWann(f.down), "projections: unequal channels")
      || KcpNbndGuards(f, f.up)
      || SequenceGuards(f, f.up, NumOcc(f, s, 1)) || SequenceGuards(f, f.down, NumOcc(f, s, -1))

WannierInitGuards(f, s) ==
    IF ~WannierInit(f) THEN {}
    ELSE PwParameterGuards(f)
           || (IF f.spin = "collinear" THEN TwoChannelGuards(f, s) ELSE OneChannelGuards(f, s))
           || FamilyGuards(f, s)

WannierInitChannels(f, s) ==
    CASE ~WannierInit(f) -> <<>>
      [] WannierInit(f) /\ f.spin = "collinear" ->
            <<CreateExplicitBlocks(f.up, NscfNbnd(f), NumOcc(f, s, 1)),
              CreateExplicitBlocks(f.down, NscfNbnd(f), NumOcc(f, s, -1))>>
      [] OTHER -> <<CreateExplicitBlocks(f.projections, NscfNbnd(f), NumOcc(f, s, 0))>>

\* External: the codes of the folded Wannier functions, and of the
\* dielectric step where a run computes its own constant.
WannierInitCodes == {"pw", "pw2wannier90", "wannier90", "wann2kcp"}

DielectricCode(f, runs) == IF runs /\ f.eps_inf = "auto" THEN {"ph"} ELSE {}

DscfGuards(f, s) ==
    ExternalProjectorGuards(f) || StepOverrideGuards(f) || CorrectionGuards(f)
      || When(Spinor(f), "spin: no spinor kcp.x")
      || KcpGuards(f) || WannierInitGuards(f, s) || CodeGuards({"kcp"}, s)
      || When(~DscfInitializationIsSupported(f), "init_orbitals: no such kcp.x route")

\* What a Wannier-initialised kcp.x run, one structure or a frame, is given.
WannierInitGraph(f, s, g) ==
    IF ~WannierInit(f) THEN g
    ELSE [g EXCEPT !.scf = Mesh(f.grid, f.offset), !.nscf = Mesh(f.grid, f.offset),
             !.channels = WannierInitChannels(f, s), !.nscf_nbnd = PwNbnd(f),
             !.eps_inf = f.eps_inf, !.mp_correction = f.mp_correction,
             !.needs = WannierInitCodes]

\* Nothing is interpolated without a path, the smooth mesh included.
BandInterpolation(f, g) ==
    IF ~NamesBandPath(f) THEN g
    ELSE [g EXCEPT !.bands = TopDensity, !.interpolation = WannierizeInterpolationPath(f),
             !.smooth = IF SmoothFactor(f) = <<>> THEN <<>> ELSE SmoothGrid(f, SmoothFactor(f))]

DscfGraph(f, s) ==
    LET kcp == [NoGraph EXCEPT !.entry = "KoopmansDSCF", !.screened = TRUE,
                   !.group_tol = GroupingTol(f, "self_hartree"),
                   !.alpha = f.alpha_guess, !.mapping = AsMapping(f)]
        seeded == WannierInitGraph(f, s, kcp)
        sampled == IF ~WannierInit(f) THEN seeded
                   ELSE [seeded EXCEPT !.eps_kpoints = DielectricKpoints(f),
                            !.needs = @ \cup DielectricCode(f, f.mp_correction # "off")]
    IN  BandInterpolation(f, sampled)

-----------------------------------------------------------------------------
(* The fan-out of the kcp.x route over the frames of a trajectory.         *)

ModelGuards(f) ==
    When(f.ml_mode = "predict" /\ f.alpha_numsteps # 1, "alpha_numsteps: takes no effect")
      || When(f.ml_mode \in {"test", "predict"} /\ f.models = {}, "ml: needs a model")

SnapshotsGuards(f, s) ==
    When(f.task # "singlepoint", "snapshots: not this task")
      || ExternalProjectorGuards(f)
      || When(f.eps_inf = "auto", "eps_inf: one dielectric calculation per frame")
      || When(f.formalism = "dfpt", "snapshots: dscf only")
      || StepOverrideGuards(f) || CorrectionGuards(f)
      || When(Spinor(f), "spin: no spinor frames")
      || ModelGuards(f) || KcpGuards(f) || WannierInitGuards(f, s) || CodeGuards({"kcp"}, s)
      || When(/\ f.ml_mode # "none" /\ f.descriptor = "power_spectrum"
              /\ "pw2wannier90" \in s.unregistered,
              "codes: no pw2wannier90")
      || When(~DscfInitializationIsSupported(f), "init_orbitals: no such kcp.x route")

SnapshotsGraph(f, s) ==
    LET trial == ~PredictsWithoutTrial(f)
        kcp == [NoGraph EXCEPT !.entry = "Trajectory", !.screened = TRUE,
                   !.ml_mode = f.ml_mode, !.mapping = AsMapping(f),
                   !.group_tol = IF trial THEN GroupingTol(f, "self_hartree") ELSE "unset",
                   !.alpha = IF trial THEN f.alpha_guess ELSE "unset"]
    IN  WannierInitGraph(f, s, kcp)

-----------------------------------------------------------------------------
(* Koopmans on kcw.x, and the BSE spectrum composed on it.                 *)

\* A spinor manifold has two functions per projection, one electron each.
Doubled(w) == [i \in DOMAIN w |-> 2 * w[i]]

DfptManifolds(f, s) ==
    CASE f.spin = "collinear" -> <<[w |-> f.up, nocc |-> NumOcc(f, s, 1)],
                                   [w |-> f.down, nocc |-> NumOcc(f, s, -1)]>>
      [] Spinor(f) -> <<[w |-> Doubled(f.projections), nocc |-> s.nelec]>>
      [] OTHER -> <<[w |-> f.projections, nocc |-> NumOcc(f, s, 0)]>>

\* The first complaint of the first manifold that has one. External: an odd
\* count fills no closed-shell manifold.
ManifoldGuards(f, s) ==
    LET manifolds == DfptManifolds(f, s)
        Refusal(m) == ManifoldRefusal(m.w, m.nocc, BlockNbnd(f))
    IN  When(f.spin = "none" /\ s.nelec % 2 # 0, "nelec: odd")
          || Refusal(manifolds[1])
          || (IF Len(manifolds) = 2 THEN Refusal(manifolds[2]) ELSE {})

DfptChainGuards(f, s) ==
    OrbitalGroupGuards(f)
      || When(f.group_by = "self_hartree", "group_orbitals_by: not on kcw.x")
      || When(f.correction # "ki", "correction: ki only")
      || When(~WannierInit(f), "init_orbitals: Wannier functions only")
      || When(f.gamma_only, "gamma_only: not on kcw.x")
      || When(f.spin = "collinear" /\ (f.up = <<>> \/ f.down = <<>>),
              "projections: needed per channel")
      || PrepareGuards(f, s)
      || (IF f.spin = "collinear" THEN MomentGuards(f, s) ELSE {})
      || ManifoldGuards(f, s)

DfptGraph(f, s) ==
    LET manifolds == DfptManifolds(f, s)
        bands(w) == IF BlockNbnd(f) = 0 THEN NumWann(w) ELSE BlockNbnd(f)
        chain == [NoGraph EXCEPT !.entry = "SinglepointDFPT", !.scf = PinStepKpoints(f, "scf"),
                     !.nscf = StepKpointsMesh(f, "nscf"), !.eps_inf = f.eps_inf,
                     !.eps_kpoints = DielectricKpoints(f),
                     !.screened = f.calculate_alpha, !.group_tol = GroupingTol(f, "spread"),
                     !.alpha = IF f.calculate_alpha THEN "unset" ELSE f.alpha_guess,
                     !.channels = [i \in DOMAIN manifolds |->
                         CreateExplicitBlocks(manifolds[i].w, bands(manifolds[i].w),
                                              manifolds[i].nocc)],
                     !.nscf_nbnd = PwNbnd(f), !.seeded = <<CodeParallelization(f, "pw")>>,
                     !.mapping = AsMapping(f), !.needs = DielectricCode(f, f.calculate_alpha)]
    IN  BandInterpolation(f, chain)

DfptGuards(f, s) ==
    ExternalProjectorGuards(f) || DfptChainGuards(f, s) || CodeGuards({"pw", "kcw"}, s)

BseGuards(f, s) ==
    When(f.spin # "none", "spin: none only") || DfptChainGuards(f, s)
      || When(f.bse_bands > NumWann(f.projections), "BSEBands: past the manifold")
      || CodeGuards({"pw", "kcw", "p2y", "yambo"}, s)

BseGraph(f, s) == [DfptGraph(f, s) EXCEPT !.entry = "BetheSalpeter"]

-----------------------------------------------------------------------------
(* The dispatch.                                                           *)

ComputerGuards(f, s) ==
    When(f.computer # "localhost" /\ f.computer \notin s.computers,
         "computer: not configured")

SchedulerGuards(f, s) ==
    LET scheduler == SchedulerOf(f.computer)
        nobody == scheduler \in {"hyperqueue", "core.direct"}
        untimed == scheduler = "core.direct"
    IN  IF f.computer \notin s.computers THEN {}
        ELSE When(nobody /\ f.account # "unset", "computer.account: no effect")
             || When(nobody /\ f.queue # "unset", "computer.queue: no effect")
             || When(untimed /\ f.walltime # 0, "computer.walltime: no effect")
             || When(untimed /\ \E c \in AllCodes : Directive(f, c).walltime # 0,
                     "parallelization.walltime: no effect")

KeywordGuards(f) ==
    When(f.auto_projections /\ f.task # "wannierize", "auto_projections: not wired")
      || When(f.coarse_grid, "dfpt_coarse_grid: not wired")
      || When(f.ml_mode # "none" /\ f.task # "singlepoint", "ml: not this task")
      || When(f.ml_mode # "none" /\ ~HasSnapshots(f), "ml: not on one structure")

RouteGuards(f, s) ==
    CASE HasSnapshots(f) -> SnapshotsGuards(f, s)
      [] ~HasSnapshots(f) /\ f.task = "dft_bands" -> DftBandsGuards(f, s)
      [] ~HasSnapshots(f) /\ f.task = "dft_eps" -> DftEpsGuards(f, s)
      [] ~HasSnapshots(f) /\ f.task = "wannierize" -> WannierizeGuards(f, s)
      [] ~HasSnapshots(f) /\ f.task = "bse" -> BseGuards(f, s)
      [] ~HasSnapshots(f) /\ f.task = "singlepoint" ->
            IF f.formalism = "dfpt" THEN DfptGuards(f, s) ELSE DscfGuards(f, s)
      [] OTHER -> {"task: not yet implemented"}

RouteGraph(f, s) ==
    CASE HasSnapshots(f) -> SnapshotsGraph(f, s)
      [] ~HasSnapshots(f) /\ f.task = "dft_bands" -> DftBandsGraph(f)
      [] ~HasSnapshots(f) /\ f.task = "dft_eps" -> DftEpsGraph(f)
      [] ~HasSnapshots(f) /\ f.task = "wannierize" -> WannierizeGraph(f, s)
      [] ~HasSnapshots(f) /\ f.task = "bse" -> BseGraph(f, s)
      [] OTHER -> IF f.formalism = "dfpt" THEN DfptGraph(f, s) ELSE DscfGraph(f, s)

BuildRefusals(f, s) ==
    KeywordGuards(f) || ComputerGuards(f, s) || SchedulerGuards(f, s)
              || RouteGuards(f, s)

\* Defined where BuildRefusals is empty.
BuildWorkgraph(f, s) == RouteGraph(f, s)
=============================================================================
