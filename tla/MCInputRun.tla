----------------------------- MODULE MCInputRun -----------------------------
(* One draft per route and regime, and every keyword the notices or the    *)
(* guards read with the values they tell apart.                            *)
EXTENDS InputRun

Bands == [gamma_only |-> FALSE, grid |-> <<2, 2>>, path |-> TRUE]
Wannier == [init |-> "mlwfs", ecutwfc |-> TRUE, nbnd |-> 4, projections |-> <<2, 2>>]
Collinear == [spin |-> "collinear", tot_magnetization |-> <<4>>, projections |-> <<>>,
              up |-> <<3, 1>>, down |-> <<1, 3>>]
Frames == [positions |-> {"snapshots"}, path |-> FALSE, ml_mode |-> "predict",
           models |-> {"model"}, formalism |-> "dscf"]

Directed(code, directive) == code :> directive @@ Blank.parallelization

MCDrafts ==
    {d @@ Blank : d \in
      {[task |-> "dft_bands"] @@ Bands,
       [task |-> "dft_eps"] @@ [path |-> FALSE] @@ Bands,
       [task |-> "wannierize", auto_projections |-> TRUE] @@ Bands,
       [task |-> "wannierize", projections |-> <<2, 2>>] @@ Bands,
       [task |-> "wannierize", auto_projections |-> TRUE, threshold |-> TRUE] @@ Bands,
       [formalism |-> "dscf", init |-> "kohn-sham", periodic |-> FALSE,
        ecutwfc |-> TRUE, nbnd |-> 4],
       [formalism |-> "dscf", eps_inf |-> "auto"] @@ Bands @@ Wannier,
       [formalism |-> "dscf"] @@ Collinear @@ Bands @@ Wannier,
       [formalism |-> "dscf", eps_inf |-> "auto"] @@ Wannier,
       [formalism |-> "dfpt", eps_inf |-> "auto"] @@ Bands @@ Wannier,
       [formalism |-> "dfpt"] @@ Collinear @@ Bands @@ Wannier,
       [formalism |-> "dfpt", spin |-> "non_collinear", nbnd |-> 8] @@ Bands @@ Wannier,
       [task |-> "bse", bse_bands |-> 4, eps_inf |-> "auto"] @@ Bands @@ Wannier,
       Frames @@ Bands @@ Wannier,
       [task |-> "wannierize", projections |-> <<4>>, threshold |-> TRUE,
        wannierize |-> 30] @@ Bands,
       [formalism |-> "dscf", path |-> FALSE, wannierize_smooth |-> <<2, 1>>] @@ Bands @@ Wannier,
       [formalism |-> "dscf", pw_nbnd |-> 3, projections |-> <<2, 1>>] @@ Bands @@ Wannier,
       [formalism |-> "dfpt", wannierize_smooth |-> <<2, 2>>,
        nscf |-> StepEntry(<<4, 4>>, 0, <<>>)] @@ Bands @@ Wannier,
       [task |-> "bse", bse_bands |-> 4, calculate_alpha |-> FALSE] @@ Bands @@ Wannier,
       [ml_mode |-> "train", wannierize |-> 30] @@ Frames @@ Bands @@ Wannier,
       [formalism |-> "dfpt", computer |-> "cluster", walltime |-> 1, account |-> "stated",
        parallelization |-> Directed("pw", [NoDirective EXCEPT !.ntasks = 4, !.omp = 2])]
          @@ Bands @@ Wannier}}

MCValues ==
    [task |-> {"singlepoint", "wannierize", "dft_bands", "dft_eps", "bse", "convergence"},
     formalism |-> {"unset", "dscf", "dfpt"}, correction |-> {"ki", "kipz", "pkipz"},
     init |-> {"mlwfs", "kohn-sham"}, spin |-> {"none", "collinear", "non_collinear"},
     calculate_alpha |-> BOOLEAN, alpha_guess |-> {"unset", "one", "distinct"},
     alpha_numsteps |-> {1, 2}, eps_inf |-> {"unset", "number", "auto"},
     mp_correction |-> {"unset", "off"},
     group_by |-> {"unset", "none", "self_hartree", "spread"}, group_tol |-> {"unset", "stated"},
     orbital_groups |-> {1, 2}, coarse_grid |-> {TRUE}, threshold |-> BOOLEAN,
     auto_projections |-> BOOLEAN,
     positions |-> {{"atomic_positions"}, {"snapshots"}, {"atomic_positions", "snapshots"}},
     periodic |-> BOOLEAN, gamma_only |-> BOOLEAN, grid |-> {Unit, <<2, 2>>, <<4, 2>>},
     path |-> BOOLEAN,
     scf |-> {StepEntry(<<3, 3>>, 0, <<>>), StepEntry(<<>>, 3, <<>>), StepEntry(<<>>, 0, <<1>>)},
     nscf |-> {StepEntry(<<4, 4>>, 0, <<>>), StepEntry(<<>>, 3, <<>>)},
     dielectric |-> {StepEntry(<<5, 5>>, 0, <<>>), StepEntry(<<>>, 2, <<>>)},
     wannierize |-> {30}, wannierize_smooth |-> {<<1, 1>>, <<2, 1>>, <<2, 2>>},
     ecutwfc |-> {FALSE}, nbnd |-> {0, 4, 5}, pw_nbnd |-> {3, 5}, kcp_nbnd |-> {3, 4},
     tot_magnetization |-> {<<>>, <<2>>, <<3>>}, smearing |-> {"bare", "with_degauss"},
     projections |-> {<<>>, <<2>>, <<4>>, <<2, 1>>, <<2, 2>>}, up |-> {<<>>}, down |-> {<<1, 2>>},
     kcw_screen |-> {TRUE}, bse_bands |-> {0, 4, 5}, atom_proj_ext |-> {TRUE},
     atom_proj_dir |-> {"dir"}, ml_mode |-> {"none", "train", "predict"},
     descriptor |-> {"self_hartree", "power_spectrum"}, models |-> {{}, {"model", "model_file"}},
     computer |-> {"cluster", "workstation", "elsewhere"}, account |-> {"stated"},
     queue |-> {"stated"}, walltime |-> {1},
     parallelization |->
        {Directed("pw", [NoDirective EXCEPT !.ntasks = 4, !.npool = 2, !.omp = 2]),
         Directed("kcp", [NoDirective EXCEPT !.npool = 2]),
         Directed("wannier90", [NoDirective EXCEPT !.pd = "off"]),
         Directed("pw", [NoDirective EXCEPT !.walltime = 2, !.pd = "on"]),
         Directed("pw", [NoDirective EXCEPT !.pd = "off"]),
         Directed("yambo", [NoDirective EXCEPT !.roles = 4])},
     retired |-> {"calculate_bands"}]

MCSiteValues ==
    [nelec |-> {3}, cutoffs |-> {FALSE}, conserving |-> {FALSE}, relativistic |-> {TRUE},
     projectors |-> {1, 5}, projector_files |-> {FALSE},
     unregistered |-> {{"pw"}, {"kcp"}, {"ph"}, {"wannierjl"}}, computers |-> {{"localhost"}}]
=============================================================================
