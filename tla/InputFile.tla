----------------------------- MODULE InputFile -----------------------------
(***************************************************************************)
(* A koopmans input file and what reading it decides (input_file/).        *)
(*                                                                         *)
(* A file is one record with a field per keyword the routes and the        *)
(* notices tell apart. An optional keyword the file leaves out is "unset", *)
(* 0 (a count), <<>> (a list) or FALSE (only whether it is stated matters).*)
(* Reading resolves the grouping of the orbitals and refuses with a set of *)
(* complaints: pydantic collects those of independent blocks, and runs the *)
(* checks across blocks one by one only when no block complains.           *)
(***************************************************************************)
EXTENDS Kpoints, TLC

\* A complaint, or none, as a set of at most one.
When(condition, complaint) == IF condition THEN {complaint} ELSE {}

\* Guards in their order: what the first complains of, and where it does the
\* later ones are not reached.
first || later == IF first # {} THEN first ELSE later

-----------------------------------------------------------------------------
(* The schema: every keyword's default.                                    *)

WorkflowDefaults ==
    [task |-> "singlepoint", formalism |-> "unset", correction |-> "ki",
     init |-> "pz", spin |-> "none", calculate_alpha |-> TRUE,
     alpha_guess |-> "unset", alpha_numsteps |-> 1,
     eps_inf |-> "unset", mp_correction |-> "unset",
     group_by |-> "unset", group_tol |-> "unset", orbital_groups |-> 0,
     coarse_grid |-> FALSE, threshold |-> FALSE, auto_projections |-> FALSE]

\* periodic: along some direction of the cell.
AtomsDefaults == [positions |-> {"atomic_positions"}, periodic |-> TRUE]

\* Projections are lists of blocks, and a spin channel that is stated holds
\* such a list. The magnetization is counted in half electrons.
CalculatorDefaults ==
    [ecutwfc |-> FALSE, nbnd |-> 0, pw_nbnd |-> 0, kcp_nbnd |-> 0,
     tot_magnetization |-> <<>>, smearing |-> "no",
     projections |-> <<>>, up |-> <<>>, down |-> <<>>,
     kcw_screen |-> FALSE, bse_bands |-> 0,
     atom_proj_ext |-> FALSE, atom_proj_dir |-> "unset"]

MLDefaults == [ml_mode |-> "none", descriptor |-> "power_spectrum", models |-> {}]

ComputerDefaults ==
    [computer |-> "localhost", account |-> "unset", queue |-> "unset", walltime |-> 0]

\* One code's settings, none of them where its block is left out; roles is
\* the product of yambo's role counts.
NoDirective ==
    [ntasks |-> 0, npool |-> 0, pd |-> "unset", omp |-> 0, walltime |-> 0, roles |-> 0]

AllCodes == {"pw", "kcp", "kcw", "ph", "projwfc", "pw2wannier90", "wann2kcp",
             "wannier90", "yambo"}

PoolSupportingCodes == {"pw", "ph", "projwfc", "pw2wannier90", "kcw"}

PdSupportingCodes == {"pw", "ph", "projwfc", "pw2wannier90", "kcw"}

\* retired: a keyword that earlier versions had.
Blank ==
    WorkflowDefaults @@ AtomsDefaults @@ KpointsDefaults @@ CalculatorDefaults
      @@ MLDefaults @@ ComputerDefaults
      @@ [parallelization |-> [c \in AllCodes |-> NoDirective], retired |-> "none"]

StepEntries == [stated : BOOLEAN, grid : Seq(Nat), spacing : Nat, offset : Seq(Int)]

Directives ==
    [ntasks : Nat, npool : Nat, pd : {"unset", "on", "off"}, omp : Nat, walltime : Nat,
     roles : Nat]

\* What may be written under each keyword.
Schema ==
    [task |-> {"singlepoint", "convergence", "wannierize", "dft_bands", "dft_eps", "bse"},
     formalism |-> {"unset", "dscf", "dfpt"}, correction |-> STRING,
     init |-> STRING, spin |-> STRING, calculate_alpha |-> BOOLEAN,
     alpha_guess |-> {"unset", "one", "distinct"}, alpha_numsteps |-> Nat,
     eps_inf |-> {"unset", "number", "auto"}, mp_correction |-> {"unset", "off"},
     group_by |-> {"unset", "none", "self_hartree", "spread"},
     group_tol |-> {"unset", "stated", "default"}, orbital_groups |-> Nat,
     coarse_grid |-> BOOLEAN, threshold |-> BOOLEAN, auto_projections |-> BOOLEAN,
     positions |-> SUBSET {"atomic_positions", "snapshots"}, periodic |-> BOOLEAN,
     gamma_only |-> BOOLEAN, grid |-> Seq(Nat), offset |-> Int, path |-> BOOLEAN,
     scf |-> StepEntries, nscf |-> StepEntries, dielectric |-> StepEntries,
     wannierize |-> Nat, wannierize_smooth |-> Seq(Nat),
     ecutwfc |-> BOOLEAN, nbnd |-> Nat, pw_nbnd |-> Nat, kcp_nbnd |-> Nat,
     tot_magnetization |-> Seq(Int), smearing |-> STRING,
     projections |-> Seq(Nat), up |-> Seq(Nat), down |-> Seq(Nat),
     kcw_screen |-> BOOLEAN, bse_bands |-> Nat,
     atom_proj_ext |-> BOOLEAN, atom_proj_dir |-> STRING,
     ml_mode |-> STRING, descriptor |-> STRING, models |-> SUBSET {"model", "model_file"},
     computer |-> STRING, account |-> {"unset", "stated"}, queue |-> {"unset", "stated"},
     walltime |-> Nat,
     parallelization |-> [AllCodes -> Directives],
     retired |-> STRING]

\* A file the schema accepts, as far as one keyword at a time goes.
WellFormed(f) ==
    /\ f = [keyword \in DOMAIN Schema |-> f[keyword]]
    /\ \A keyword \in DOMAIN Schema : f[keyword] \in Schema[keyword]

-----------------------------------------------------------------------------
(* Resolution, on the raw file.                                            *)

WannierInit(f) == f.init \in {"mlwfs", "projwfs"}

\* A prediction from power spectra runs no trial calculation to group in.
PredictsWithoutTrial(f) == f.ml_mode = "predict" /\ f.descriptor = "power_spectrum"

DefaultGroupingToNone(f) ==
    IF PredictsWithoutTrial(f) /\ f.group_by = "unset" /\ f.group_tol = "unset"
    THEN [f EXCEPT !.group_by = "none"]
    ELSE f

ResolveGroupOrbitalsBy(f) ==
    LET by == IF f.group_by # "unset" THEN f.group_by
              ELSE IF WannierInit(f) /\ f.formalism = "dscf" THEN "self_hartree"
              ELSE "none"
        tol == IF f.group_tol = "unset" /\ by # "none" THEN "default" ELSE f.group_tol
    IN  [f EXCEPT !.group_by = by, !.group_tol = tol]

Parse(f) == ResolveGroupOrbitalsBy(DefaultGroupingToNone(f))

-----------------------------------------------------------------------------
(* What reading refuses, block by block.                                   *)

WorkflowRefusals(f) ==
    When(DefaultGroupingToNone(f).group_by = "none" /\ f.group_tol # "unset",
         "group_orbitals_tol: contradicts none")
      || When(f.retired = "calculate_bands", "workflow: retired keyword")
      || When(f.task = "singlepoint" /\ f.formalism = "unset", "formalism: needed")
      || When(f.task = "bse" /\ f.formalism = "dscf", "formalism: bse is dfpt")
      || When(/\ f.orbital_groups # 0
              /\ f.orbital_groups # (IF f.spin = "collinear" THEN 2 ELSE 1),
              "orbital_groups: one list per channel")

AtomsRefusals(f) ==
    When(~(\E source \in f.positions : f.positions = {source}),
         "atoms: exactly one source of positions")

DscfInitializationIsSupported(f) ==
    IF WannierInit(f) THEN f.periodic ELSE f.init = "kohn-sham" /\ ~f.periodic

HasSnapshots(f) == "snapshots" \in f.positions

\* Mutant: only the tasks on one structure are weighed.
BandPathRefusalOfTasks(f) ==
    When(~HasSnapshots(f) /\ f.task = "dft_eps", "path: no bands of ph.x")

\* What a task that cannot interpolate along a path tells an input, if the
\* path is what stands in its way.
BandPathRefusal(f) ==
    When(HasSnapshots(f) /\ f.task = "singlepoint" /\ f.formalism # "dfpt",
         "path: no bands of a frame")
      || When(~HasSnapshots(f) /\ f.task = "dft_eps", "path: no bands of ph.x")
      || When(/\ ~HasSnapshots(f) /\ f.task = "singlepoint" /\ f.formalism = "dscf"
              /\ DscfInitializationIsSupported(f) /\ ~WannierInit(f),
              "path: no bands of a molecule")

StepEntryRefused(e) == e.spacing # 0 /\ e.grid # <<>>

\* Keywords retired from the block, and an offset no spacing can carry.
FormerKpointsKeywords(f) ==
    When(f.retired = "eps_inf_factor", "kpoints: retired keyword")
      || When(f.scf.spacing # 0 /\ f.scf.offset # <<>>, "scf: a spacing takes no offset")
      || When(f.retired = "density", "kpoints: retired keyword")

OverridesRefusals(f) ==
    When(\E e \in {f.scf, f.nscf, f.dielectric} : StepEntryRefused(e),
         "overrides: grid and spacing")
      || When(f.nscf.spacing # 0, "nscf: states a spacing")
      || When(f.nscf.offset # <<>>, "nscf: states an offset")

GammaOnlyRefusals(f) ==
    When(f.gamma_only /\ f.grid # Unit, "gamma_only: takes no grid")
      || When(f.gamma_only /\ f.offset # 0, "gamma_only: takes no offset")
      || When(f.gamma_only /\ f.path, "gamma_only: takes no path")
      || When(f.gamma_only /\ (f.scf.stated \/ f.nscf.stated),
              "gamma_only: a step states a mesh")

\* The path is weighed only when the blocks it is weighed against are valid.
KpointsRefusals(f) ==
    FormerKpointsKeywords(f) || OverridesRefusals(f) || GammaOnlyRefusals(f)
      || (IF WorkflowRefusals(f) = {} /\ AtomsRefusals(f) = {} /\ NamesBandPath(f)
          THEN BandPathRefusal(f) ELSE {})

CalculatorRefusals(f) ==
    When(f.retired = "unfold_and_interpolate", "calculators: retired keyword")
    \cup When(f.tot_magnetization # <<>> /\ Head(f.tot_magnetization) % 2 # 0,
              "tot_magnetization: not whole")
    \cup When((f.up = <<>>) # (f.down = <<>>), "w90: one channel only")

MLRefusals(f) ==
    When(f.models = {"model", "model_file"}, "ml: two models")

Directive(f, code) == f.parallelization[code]

RoleSplitRefusals(f) ==
    LET yambo == Directive(f, "yambo")
    IN  When(yambo.roles # 0 /\ yambo.ntasks = 0, "yambo: roles without ntasks")
          || When(yambo.roles # 0 /\ yambo.roles # yambo.ntasks, "yambo: roles discarded")

ParallelizationRefusals(f) ==
    RoleSplitRefusals(f)
      || When(\/ \E c \in AllCodes \ PoolSupportingCodes : Directive(f, c).npool # 0
              \/ \E c \in AllCodes \ PdSupportingCodes : Directive(f, c).pd # "unset",
              "parallelization: the code has no such flag")

-----------------------------------------------------------------------------
(* What reading refuses across blocks: the first of these alone.           *)

CollinearRefusal(f) ==
    When(f.spin = "collinear" /\ f.tot_magnetization = <<>>, "tot_magnetization: needed")

ScreenRefusal(f) ==
    When(~f.calculate_alpha /\ f.kcw_screen, "kcw.screen: no step reads it")

MLStructuresRefusal(f) ==
    When(f.task = "singlepoint" /\ f.ml_mode \in {"train", "test"} /\ ~HasSnapshots(f),
         "ml: needs snapshots")

YamboRefusals(f) ==
    When(f.task = "bse" /\ f.bse_bands = 0, "yambo: needed")
      || When(f.task # "bse" /\ f.bse_bands # 0, "yambo: no step reads it")

ParseRefusals(f) ==
    LET fields == WorkflowRefusals(f) \cup AtomsRefusals(f) \cup KpointsRefusals(f)
                    \cup CalculatorRefusals(f) \cup MLRefusals(f)
                    \cup ParallelizationRefusals(f)
    IN  fields || CollinearRefusal(f) || ScreenRefusal(f) || MLStructuresRefusal(f)
          || YamboRefusals(f)

-----------------------------------------------------------------------------
(* The directives of the run's codes, as the graphs take them: two         *)
(* translations of the same blocks, in two vocabularies.                   *)

EffectiveWalltime(f, code) ==
    IF Directive(f, code).walltime # 0 THEN Directive(f, code).walltime ELSE f.walltime

\* The fields a code's entry in the mapping may have.
NoFields ==
    [ntasks |-> 0, npool |-> 0, pd |-> "unset", omp |-> 0, roles |-> 0,
     max_wallclock_seconds |-> 0, account |-> "unset", queue_name |-> "unset"]

\* A code's own fields as they are, its wall time in seconds, and the run's.
MappingEntry(f, code) ==
    LET fields == Directive(f, code)
    IN  [ntasks |-> fields.ntasks, npool |-> fields.npool, pd |-> fields.pd,
         omp |-> fields.omp, roles |-> fields.roles,
         max_wallclock_seconds |-> EffectiveWalltime(f, code),
         account |-> f.account, queue_name |-> f.queue]

AsMapping(f) ==
    [code \in {c \in AllCodes : MappingEntry(f, c) # NoFields} |-> MappingEntry(f, code)]

\* Mutant: the run's wall time is left out.
CodeParallelizationAlone(f, code) ==
    LET config == Directive(f, code)
    IN  [resources |-> config.ntasks,
         cmdline |-> [npool |-> config.npool, pd |-> config.pd = "on"],
         max_wallclock_seconds |-> config.walltime,
         account |-> f.account, queue_name |-> f.queue]

\* What the pw.x steps' own overrides are seeded with: the scheduler's
\* options and the flags of the command line, of which -pd is only ever
\* turned on. The threads ride the mapping alone: the graphs append exports.
CodeParallelization(f, code) ==
    LET config == Directive(f, code)
    IN  [resources |-> config.ntasks,
         cmdline |-> [npool |-> config.npool, pd |-> config.pd = "on"],
         max_wallclock_seconds |-> EffectiveWalltime(f, code),
         account |-> f.account, queue_name |-> f.queue]
=============================================================================
