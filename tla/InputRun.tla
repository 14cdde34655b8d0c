------------------------------ MODULE InputRun ------------------------------
(***************************************************************************)
(* An input file edited and run again: koopmans run, koopmans submit and   *)
(* koopmans.api (cli.py, api.py) from the file to the launched graph.      *)
(*                                                                         *)
(* A command reads the file, builds its graph, prints the notices and      *)
(* launches. It may refuse on reading, on building and on launching. Its   *)
(* user edits the file and the site between commands, and may do what a    *)
(* refusal or a notice says and run the file again.                        *)
(***************************************************************************)
EXTENDS Advisories

CONSTANTS Drafts,       \* the files the user starts from
          Values,         \* by keyword of a file, values the user may write
          SiteValues,     \* by property of the site, values it may change to
          MaxEdits        \* edits before the first command

ASSUME EditsAssumption ==
    /\ MaxEdits \in Nat
    /\ \A draft \in Drafts : WellFormed(draft)
    /\ DOMAIN Values \subseteq DOMAIN Schema
    /\ \A keyword \in DOMAIN Values : Values[keyword] \subseteq Schema[keyword]
    /\ DOMAIN SiteValues \subseteq DOMAIN Sites
    /\ \A property \in DOMAIN SiteValues : SiteValues[property] \subseteq Sites[property]

VARIABLES
    file,       \* the input file
    site,       \* where it is run
    edits,      \* edits so far
    stage,      \* how far the command is
    graph,      \* the built graph
    notices,    \* what the command printed
    refusals,   \* what it refused with
    heeded      \* the complaint the user has done as told by, at most one

vars == <<file, site, edits, stage, graph, notices, refusals, heeded>>

Init ==
    /\ file \in Drafts
    /\ site = UsualSite
    /\ edits = 0
    /\ stage = "editing"
    /\ graph = NoGraph
    /\ notices = {}
    /\ refusals = {}
    /\ heeded = {}

Refuse(complaints) ==
    /\ stage' = "refused"
    /\ refusals' = complaints

-----------------------------------------------------------------------------
(* The user.                                                               *)

MayEdit == stage = "editing" /\ heeded = {} /\ edits < MaxEdits

Edit(keyword) ==
    /\ MayEdit
    /\ \E value \in Values[keyword] :
         /\ file[keyword] # value
         /\ file' = [file EXCEPT ![keyword] = value]
    /\ edits' = edits + 1
    /\ UNCHANGED <<site, stage, graph, notices, refusals, heeded>>

Change(property) ==
    /\ MayEdit
    /\ \E value \in SiteValues[property] :
         /\ site[property] # value
         /\ site' = [site EXCEPT ![property] = value]
    /\ edits' = edits + 1
    /\ UNCHANGED <<file, stage, graph, notices, refusals, heeded>>

-----------------------------------------------------------------------------
(* The command.                                                            *)

Read ==
    /\ stage = "editing"
    /\ IF ParseRefusals(file) = {}
       THEN stage' = "parsed" /\ refusals' = {}
       ELSE Refuse(ParseRefusals(file))
    /\ UNCHANGED <<file, site, edits, graph, notices, heeded>>

Build ==
    /\ stage = "parsed"
    /\ LET parsed == Parse(file)
           complaints == BuildRefusals(parsed, site)
       IN  IF complaints = {}
           THEN /\ stage' = "built"
                /\ graph' = BuildWorkgraph(parsed, site)
                /\ UNCHANGED refusals
           ELSE Refuse(complaints) /\ UNCHANGED graph
    /\ UNCHANGED <<file, site, edits, notices, heeded>>

\* The command line's; the Python API prints no notices.
Advise ==
    /\ stage = "built"
    /\ notices' = AdvisoriesFor(Parse(file))
    /\ stage' = "advised"
    /\ UNCHANGED <<file, site, edits, graph, refusals, heeded>>

\* The graph's own validation names the codes it needs and was not given.
Launch ==
    /\ stage \in {"built", "advised"}
    /\ IF graph.needs \cap site.unregistered = {}
       THEN stage' = "launched" /\ UNCHANGED refusals
       ELSE Refuse({"codes: needed by the graph"})
    /\ UNCHANGED <<file, site, edits, graph, notices, heeded>>

-----------------------------------------------------------------------------
(* Doing as told: the file after the edit the message spells out, for the  *)
(* messages that spell one out.                                            *)

\* A remedy: what is complained of, the keyword to write and what under it.
ReadingRemedies ==
    {<<"group_orbitals_tol: contradicts none", "group_tol", "unset">>,
     <<"formalism: bse is dfpt", "formalism", "dfpt">>,
     <<"path: no bands of a frame", "path", FALSE>>,
     <<"path: no bands of ph.x", "path", FALSE>>,
     <<"path: no bands of a molecule", "path", FALSE>>,
     <<"nscf: states a spacing", "nscf", NoEntry>>,
     <<"gamma_only: takes no grid", "gamma_only", FALSE>>,
     <<"tot_magnetization: needed", "tot_magnetization", <<4>>>>,
     <<"kcw.screen: no step reads it", "kcw_screen", FALSE>>,
     <<"yambo: no step reads it", "bse_bands", 0>>}

SharedRemedies ==
    {<<"computer.account: no effect", "account", "unset">>,
     <<"computer.walltime: no effect", "walltime", 0>>,
     <<"ecutwfc: the family recommends none", "ecutwfc", TRUE>>,
     <<"threshold: needs a path", "path", TRUE>>}

KcpRemedies(f) ==
    {<<"ecutwfc: needed", "ecutwfc", TRUE>>,
     <<"kcp.nbnd: not the projections'", "kcp_nbnd", 0>>,
     <<"nscf: fewer bands than orbitals", "pw_nbnd",
       NumWann(IF f.spin = "collinear" THEN f.up ELSE f.projections)>>,
     <<"eps_inf: one dielectric calculation per frame", "eps_inf", "number">>,
     <<"alpha_numsteps: takes no effect", "alpha_numsteps", 1>>,
     <<"spin: no spinor kcp.x", "formalism", "dfpt">>}

KcwRemedies(f) ==
    {<<"nbnd: empty functions not covered", "nbnd", NumWann(DfptManifolds(f, site)[1].w)>>,
     <<"correction: ki only", "formalism", "dscf">>,
     <<"group_orbitals_by: not on kcw.x", "group_by", "spread">>,
     <<"BSEBands: past the manifold", "bse_bands", NumWann(f.projections)>>}

RefusalRemedies(f) ==
    ReadingRemedies \cup SharedRemedies \cup KcpRemedies(f) \cup KcwRemedies(f)

NoticeRemedies ==
    {<<"add a path", "path", TRUE>>,
     <<"raise the factor", "wannierize_smooth", <<2, 2>>>>,
     <<"add an entry", "dielectric", StepEntry(<<4, 4>>, 0, <<>>)>>}

Told(remedies) == {remedy[1] : remedy \in remedies}

HeedAs(remedy) ==
    /\ heeded = {}
    /\ heeded' = {remedy[1]}
    /\ file' = [file EXCEPT ![remedy[2]] = remedy[3]]
    /\ stage' = "editing"
    /\ graph' = NoGraph
    /\ notices' = {}
    /\ refusals' = {}
    /\ UNCHANGED <<site, edits>>

HeedRefusal ==
    /\ stage = "refused"
    /\ \E remedy \in RefusalRemedies(file) :
         remedy[1] \in refusals /\ HeedAs(remedy)

HeedNotice ==
    /\ stage = "advised"
    /\ \E n \in notices, remedy \in NoticeRemedies :
         remedy[1] = n.why /\ HeedAs(remedy)

Next ==
    \/ \E keyword \in DOMAIN Values : Edit(keyword)
    \/ \E property \in DOMAIN SiteValues : Change(property)
    \/ Read
    \/ Build
    \/ Advise
    \/ Launch
    \/ HeedRefusal
    \/ HeedNotice

Spec == Init /\ [][Next]_vars

-----------------------------------------------------------------------------
(* What of a graph's inputs its calculation uses. External: what the       *)
(* messages and the docstrings of the routes say the graphs do.            *)

ConsumesEpsInf(g) ==
    IF g.entry \in {"KoopmansDSCF", "Trajectory"}
    THEN g.channels # <<>> /\ g.mp_correction # "off" /\ g.ml_mode # "predict"
    ELSE g.screened

RunsDielectricStep(g) == ConsumesEpsInf(g) /\ g.eps_inf = "auto"

\* External: what a pw.x step that is assembled inside a graph, with no
\* overrides to begin with, is told by the mapping but for its threads.
DirectivesOfMapping(mapping, code) ==
    LET entry == IF code \in DOMAIN mapping THEN mapping[code] ELSE NoFields
    IN  [resources |-> entry.ntasks,
         cmdline |-> [npool |-> entry.npool, pd |-> entry.pd = "on"],
         max_wallclock_seconds |-> entry.max_wallclock_seconds,
         account |-> entry.account, queue_name |-> entry.queue_name]

Calculation(g) ==
    [g EXCEPT !.eps_inf = IF ConsumesEpsInf(g) THEN @ ELSE "unset",
              !.eps_kpoints = IF RunsDielectricStep(g) THEN @ ELSE NoSampling]

\* The calculation a file runs, as a set of at most one.
CalculationOf(f) ==
    IF ParseRefusals(f) # {} \/ BuildRefusals(Parse(f), site) # {} THEN {}
    ELSE {Calculation(BuildWorkgraph(Parse(f), site))}

\* The file without the keywords a notice is about.
Without(f, n) ==
    IF n.why = "no trial calculation"
    THEN [f EXCEPT !.group_by = "unset", !.group_tol = "unset", !.alpha_guess = "unset"]
    ELSE CASE n.about \in {"formalism", "eps_inf", "group_tol"} -> [f EXCEPT ![n.about] = "unset"]
           [] n.about \in {"scf", "nscf", "dielectric"} -> [f EXCEPT ![n.about] = NoEntry]
           [] n.about = "wannierize" -> [f EXCEPT !.wannierize = 0]
           [] n.about = "wannierize_smooth" -> [f EXCEPT !.wannierize_smooth = <<>>]

SaysNoEffect(n) == n.about \notin {"smooth mesh", "eps mesh"}

\* A singlepoint on kcp.x with calculate_alpha off, which is off in words
\* only: no part of that route reads the keyword, and the notices go by it.
ScreensRegardless(f) == f.formalism = "dscf" /\ f.task = "singlepoint" /\ ~f.calculate_alpha

-----------------------------------------------------------------------------
(* Properties.                                                             *)

\* A keyword a notice calls without effect has none: the same file without
\* it runs the same calculation, where the parse-time resolution of the
\* keywords that depend on it, every route's guards and the meshes each step
\* falls back to are all taken again.
\* (advisories_for against the routes. What a kcp.x singlepoint with
\* calculate_alpha off is told of eps_inf and of a dielectric entry is left
\* out, as the code gets it wrong: EpsInfNoticeIsTrue.)
NoticesAreTrue ==
    stage = "advised" =>
        \A n \in notices :
            \/ ~SaysNoEffect(n)
            \/ /\ n.about \in {"eps_inf", "dielectric"}
               /\ ScreensRegardless(file)
            \/ CalculationOf(Without(file, n)) = {Calculation(graph)}

\* "Return a notice for each kpoints.overrides entry naming a step the run
\* lacks" (_kpoint_override_advisories): an entry whose absence changes
\* nothing in the calculation is one a notice names.
\* (A bse run with calculate_alpha off is left out: see the README.)
InertEntriesAreNoticed ==
    stage = "advised" =>
        \A step \in {"scf", "nscf", "dielectric", "wannierize", "wannierize_smooth"} :
            \/ ~StatesEntry(file, step)
            \/ /\ step = "dielectric"
               /\ file.task = "bse" /\ ~file.calculate_alpha
            \/ \E n \in notices : n.about = step
            \/ CalculationOf(Without(file, Notice(step, "nothing"))) # {Calculation(graph)}

\* A run that computes the dielectric constant on a mesh nobody stated for it
\* names that mesh: the description is read off the input file alone, the
\* step samples whatever the route passes (_default_dielectric_mesh_description
\* against dielectric_kpoints and pin_step_kpoints). A kcp.x singlepoint with
\* calculate_alpha off is left out, as the code gets it wrong: it runs the
\* step, is told that eps_inf has no effect, and hears of no mesh.
DielectricMeshIsNamed ==
    (stage = "advised" /\ RunsDielectricStep(graph) /\ graph.eps_kpoints = NoSampling
        /\ ~ScreensRegardless(file)) =>
        \E n \in notices :
            \/ n.about = "dielectric" /\ n.why = "gamma only"
            \/ /\ n.about = "eps mesh"
               /\ n.mesh.grid = graph.scf.grid
               /\ n.mesh.spacing = graph.scf.spacing

\* A path that survives reading is served: every graph built of a file that
\* names one is given it, and each Wannierization of that graph interpolates
\* along it, the one of a single manifold, which has no blocks, as well
\* (band_path_refusal, applied on reading, against every route).
PathIsServed ==
    (stage \in {"built", "advised", "launched"} /\ NamesBandPath(file)) =>
        /\ graph.bands # 0
        /\ graph.channels # <<>> \/ graph.entry = "Wannierize" => graph.interpolation # 0

\* The bands a block reads.
Reads(block) == block.range.start..(block.range.start + block.range.num_bands - 1)

\* The blocks of a channel follow one another from the lowest band up, under
\* names of their own, and only the last disentangles.
InOrder(blocks) ==
    /\ \A i \in DOMAIN blocks :
          blocks[i].range.start = IF i = 1 THEN 1 ELSE blocks[i - 1].range.end + 1
    /\ \A i, j \in DOMAIN blocks :
          /\ i # j => blocks[i].label # blocks[j].label
          /\ i < j => blocks[i].range.num_bands = blocks[i].range.num_wann

\* Every band is one a block reads or one it excludes.
Accounted(blocks, nbnd) ==
    \A i \in DOMAIN blocks :
        /\ blocks[i].exclude \cup Reads(blocks[i]) = 1..nbnd
        /\ blocks[i].exclude \cap Reads(blocks[i]) = {}

\* The blocks of a channel know of the same bands.
LaidOverOneCount(blocks) ==
    \A i, j \in DOMAIN blocks :
        blocks[i].exclude \cup Reads(blocks[i]) = blocks[j].exclude \cup Reads(blocks[j])

\* The blocks of every channel tile the bands they are laid over, of which
\* each block knows all, and those are the bands the nscf runs: wannier90
\* rejects any other. The last is claimed where the graph is told how many
\* the nscf runs, which a route that finds no count for pw.x leaves to
\* pw.x, and not of the DFPT routes with two counts stated, which the code
\* gets wrong (see the README).
\* (create_explicit_blocks and _assign_band_ranges against the band count
\* each route gives its nscf.)
BlocksTileTheBands ==
    \A c \in DOMAIN graph.channels :
        /\ InOrder(graph.channels[c])
        /\ LaidOverOneCount(graph.channels[c])
        /\ \/ graph.nscf_nbnd = 0
           \/ /\ graph.entry \in {"SinglepointDFPT", "BetheSalpeter"}
              /\ file.nbnd # 0 /\ file.pw_nbnd # 0
           \/ Accounted(graph.channels[c], graph.nscf_nbnd)

\* A pw.x step whose overrides were seeded is told what a step assembled
\* inside the graph reads off the mapping ("pick up the same directive",
\* prepare_common_inputs; "re-merging rewrites them to the same value",
\* code_parallelization), and no route loses a directive: what the file says
\* of a code is in its entry, and of the run in the entry of every code that
\* says nothing else. (code_parallelization and as_mapping, two translations
\* into two vocabularies, against each other and against the file.)
DirectivesAreHonoured ==
    stage \in {"built", "advised", "launched"} =>
        /\ \A i \in DOMAIN graph.seeded :
              graph.seeded[i] = DirectivesOfMapping(graph.mapping, "pw")
        /\ \A code \in AllCodes :
              LET stated == file.parallelization[code]
                  told == DirectivesOfMapping(graph.mapping, code)
              IN  /\ stated.ntasks = told.resources
                  /\ stated.npool = told.cmdline.npool
                  /\ stated.pd = "on" <=> told.cmdline.pd
                  /\ stated.walltime # 0 => told.max_wallclock_seconds = stated.walltime
                  /\ stated.walltime = 0 => told.max_wallclock_seconds = file.walltime
                  /\ told.account = file.account /\ told.queue_name = file.queue
                  /\ stated.omp # 0 \/ stated.roles # 0 =>
                        /\ code \in DOMAIN graph.mapping
                        /\ graph.mapping[code].omp = stated.omp
                        /\ graph.mapping[code].roles = stated.roles

MissingCodes ==
    {"codes: not configured", "codes: no pw2wannier90", "codes: needed by the graph"}

\* Doing what a refusal or a notice says silences it, and a notice never
\* sends its reader into a refusal. What refuses is the first guard in the
\* order of the reading, the dispatch and the route; what its message has
\* the user change is read by other guards, and resolved again on reading.
HeedingRetires ==
    /\ stage = "refused" =>
          /\ heeded \cap refusals = {}
          /\ heeded \cap Told(NoticeRemedies) # {} => refusals \subseteq MissingCodes
    /\ stage = "advised" => \A n \in notices : n.why \notin heeded

\* "workflow.eps_inf has no effect with workflow.calculate_alpha: false"
\* (_eps_inf_inert_advisory): without the keyword, a kcp.x run that is told
\* so would run the same calculation.
EpsInfNoticeIsTrue ==
    stage = "advised" =>
        \A n \in notices :
            n.about = "eps_inf" => CalculationOf(Without(file, n)) = {Calculation(graph)}
=============================================================================
