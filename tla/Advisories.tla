----------------------------- MODULE Advisories -----------------------------
(***************************************************************************)
(* The notices a run prints before it is launched: the keywords that are   *)
(* stated and have no effect, and two meshes that may be too coarse        *)
(* (advisories_for and its helpers, aiida/workflows/__init__.py).          *)
(*                                                                         *)
(* f is a parsed file. A notice says what it is about, why, and, where it  *)
(* names one, which mesh.                                                  *)
(***************************************************************************)
EXTENDS Routes

Notice(about, why) == [about |-> about, why |-> why, mesh |-> NoSampling]

TasksWithoutKoopmansStep == {"dft_bands", "wannierize", "dft_eps"}

RunsWannierization(f) ==
    f.task \in {"wannierize", "bse"} \/ (f.task = "singlepoint" /\ WannierInit(f))

PathIsRefused(f) == BandPathRefusal(f) # {}

-----------------------------------------------------------------------------
\* Mutant: the correction of the periodic images weighs on every route.
EpsInfInertOffEverywhere(f) ==
    IF f.eps_inf = "unset" \/ f.task # "singlepoint" THEN {}
    ELSE When(~f.calculate_alpha, "no screening step")
      || When(f.mp_correction = "off", "no Makov-Payne correction")

\* Why nothing consumes the dielectric constant, {} where something does.
EpsInfInert(f) ==
    IF f.eps_inf = "unset" \/ f.task # "singlepoint" THEN {}
    ELSE When(~f.calculate_alpha, "no screening step")
      || When(f.formalism = "dscf" /\ ~WannierInit(f), "isolated molecule")
      || When(f.formalism = "dscf" /\ f.mp_correction = "off", "no Makov-Payne correction")
      || When(f.formalism = "dscf" /\ f.ml_mode = "predict", "a model replaces it")

DielectricInertReason(f) ==
    When(f.task = "dft_eps", "its scf has an entry of its own")
      || When(f.task \notin {"singlepoint", "bse"}, "no dielectric step")
      || When(f.eps_inf # "auto", "eps_inf is not auto")
      || When(EpsInfInert(f) # {}, "nothing consumes eps_inf")

\* Mutant: a path is asked for where the task would refuse it.
WithoutPathReasonAlways(f) == When(~NamesBandPath(f), "add a path")

WithoutPathReason(f) ==
    When(~NamesBandPath(f) /\ PathIsRefused(f), "a path is refused")
      || When(~NamesBandPath(f), "add a path")

WannierizeInertReason(f) ==
    IF ~RunsWannierization(f) THEN {"no Wannierization"} ELSE WithoutPathReason(f)

WannierizeSmoothInertReason(f) ==
    IF f.task \notin {"singlepoint", "bse"} \/ ~RunsWannierization(f)
    THEN {"no smooth Wannierization"}
    ELSE IF WithoutPathReason(f) # {} THEN WithoutPathReason(f)
    ELSE When(SmoothFactor(f) = <<>>, "raise the factor")

\* The mesh of the main Wannierization, which the smooth one must exceed in
\* every direction it densifies.
MainMesh(f) == IF f.nscf.grid # <<>> THEN f.nscf.grid ELSE f.grid

SmoothMeshAdvisory(f) ==
    LET factor == SmoothFactor(f)
    IN  IF factor = <<>> \/ WannierizeSmoothInertReason(f) # {} THEN {}
        ELSE IF \A d \in Directions :
                   factor[d] > 1 => SmoothGrid(f, factor)[d] > MainMesh(f)[d] THEN {}
        ELSE {Notice("smooth mesh", "no denser")}

StatesEntry(f, step) ==
    CASE step = "wannierize" -> f.wannierize # 0
      [] step = "wannierize_smooth" -> f.wannierize_smooth # <<>>
      [] OTHER -> f[step].stated

InertReason(f, step) ==
    CASE step = "wannierize" -> WannierizeInertReason(f)
      [] step = "wannierize_smooth" -> WannierizeSmoothInertReason(f)
      [] step = "dielectric" -> DielectricInertReason(f)

InertSteps == {"wannierize", "wannierize_smooth", "dielectric"}

\* Mutant: the dielectric task is forgotten, which has no nscf step either.
NscfAdvisoriesOfBands(f) ==
    IF f.nscf.stated /\ f.task = "dft_bands" THEN {Notice("nscf", "no nscf step")} ELSE {}

NscfAdvisories(f) ==
    IF f.nscf.stated /\ f.task \in {"dft_bands", "dft_eps"}
    THEN {Notice("nscf", "no nscf step")} ELSE {}

GammaOnlyOverrideAdvisories(f) ==
    {Notice(step, "gamma only") : step \in {st \in InertSteps : StatesEntry(f, st)}}

KpointOverrideAdvisories(f) ==
    IF f.gamma_only THEN GammaOnlyOverrideAdvisories(f)
    ELSE NscfAdvisories(f)
           \cup (UNION {{Notice(step, why) : why \in InertReason(f, step)} :
                          step \in {st \in InertSteps : StatesEntry(f, st)}})
           \cup SmoothMeshAdvisory(f)

-----------------------------------------------------------------------------
\* Mutant: a spacing of the scf entry is forgotten.
DefaultDielectricMeshOfGrids(f) ==
    IF f.formalism # "dscf" /\ f.scf.grid # <<>> THEN Mesh(f.scf.grid, f.offset)
    ELSE Mesh(f.grid, f.offset)

\* The mesh the dielectric step samples where the input states none for it.
DefaultDielectricMesh(f) ==
    IF f.formalism = "dscf" THEN Mesh(f.grid, f.offset)
    ELSE IF f.scf.stated /\ f.scf.grid # <<>> THEN Mesh(f.scf.grid, f.offset)
    ELSE IF f.scf.stated /\ f.scf.spacing # 0 THEN Spaced(f.scf.spacing)
    ELSE Mesh(f.grid, f.offset)

EpsInfAdvisories(f) ==
    IF EpsInfInert(f) # {} THEN {Notice("eps_inf", why) : why \in EpsInfInert(f)}
    ELSE IF f.task \in {"singlepoint", "bse"} /\ f.eps_inf = "auto" /\ ~f.dielectric.stated
    THEN {[Notice("eps mesh", "add an entry") EXCEPT !.mesh = DefaultDielectricMesh(f)]}
    ELSE {}

FormalismAdvisories(f) ==
    IF f.formalism # "unset" /\ f.task \in TasksWithoutKoopmansStep
    THEN {Notice("formalism", "no Koopmans step")} ELSE {}

GroupingAdvisories(f) ==
    IF f.group_by = "none" /\ f.group_tol # "unset"
    THEN {Notice("group_tol", IF f.task \in TasksWithoutKoopmansStep THEN "no Koopmans step"
                              ELSE "resolved to none")}
    ELSE {}

\* The keys a prediction without a trial calculation cannot apply: one
\* notice names all that are written.
PredictNoTrialAdvisories(f) ==
    LET explicit == {key \in {"group_by", "group_tol", "alpha_guess"} :
                        CASE key = "group_by" -> f.group_by # "none"
                          [] key = "group_tol" -> f.group_tol # "unset"
                          [] key = "alpha_guess" -> f.alpha_guess # "unset"}
    IN  {Notice(key, "no trial calculation") : key \in explicit}

AdvisoriesFor(f) ==
    FormalismAdvisories(f) \cup KpointOverrideAdvisories(f) \cup EpsInfAdvisories(f)
      \cup GroupingAdvisories(f)
      \cup IF f.task = "singlepoint" /\ HasSnapshots(f) /\ PredictsWithoutTrial(f)
           THEN PredictNoTrialAdvisories(f) ELSE {}
=============================================================================
