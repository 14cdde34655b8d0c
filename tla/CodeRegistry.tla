---------------------------- MODULE CodeRegistry -----------------------------
(***************************************************************************)
(* One code label (pw@localhost, say) in AiiDA's database, and the         *)
(* `koopmans install` commands that register, replace and retire the code  *)
(* nodes that carry it (koopmans/aiida/setup/codes.py, setup_computers).   *)
(* Code nodes are immutable but for label and extras: correcting one means *)
(* storing another under the same label and relabelling the first, in      *)
(* several database operations that can fail or be cut short one by one.   *)
(***************************************************************************)
EXTENDS Naturals, Sequences, FiniteSets

CONSTANTS Install,         \* `koopmans install` commands that may overlap
          MaxCodes,        \* bound on the code nodes ever stored
          Options,         \* the options and findings an instance considers
          Faults           \* which of "kill", "discard" and "lookup" may happen

ASSUME MaxCodesAssumption == MaxCodes \in Nat \ {0}
ASSUME FaultsAssumption == Faults \subseteq {"kill", "discard", "lookup"}

VARIABLES
    codes,     \* the code nodes in the database, by pk
    stored,    \* how many were ever stored: the last pk
    pc,        \* where each install is
    args,      \* its options and what it finds in the binary
    old,       \* the pk of the code it supersedes, or 0
    new,       \* the pk of the code it stored, or 0
    retired,   \* the label it found free for the superseded code
    blind      \* a lookup failed where a code was, and one was stored beside it

regVars == <<codes, stored, pc, args, old, new, retired, blind>>

\* A label is the original one followed by the suffixes it was retired with;
\* a suffix is "_old" or "_mpi_pre" and the counter that makes it free.
Suffix == {"_old", "_mpi_pre"} \X (1 .. MaxCodes)
Original == <<>>

\* How a code runs: effective_with_mpi, undecidable for a code that stores no
\* flag and has no plugin to take one from.
Mode == {"mpi", "serial", "undecidable"}

\* --code was given; --migrate; what decide_with_mpi says of the binary; and
\* whether there is one, on PATH or where the registered code points.
Args == [explicit : BOOLEAN, migrate : BOOLEAN, mode : {"mpi", "serial"}, binary : BOOLEAN]

ASSUME OptionsAssumption == Options \subseteq Args /\ Options # {}

Labelled(label) == {n \in DOMAIN codes : codes[n].label = label}

Live == Labelled(Original)

\* What code_exists says of a label: two nodes raise MultipleObjectsError, and
\* any other error of the lookup is taken for the absence of a code.
CodeExists(label) ==
    {answer \in {"absent", "one", "raises"} :
        \/ answer = "absent" /\ (Labelled(label) = {} \/ "lookup" \in Faults)
        \/ answer = "one" /\ Cardinality(Labelled(label)) = 1
        \/ answer = "raises" /\ Cardinality(Labelled(label)) > 1}

Ended == {"done", "failed", "killed"}

\* The profile is new, or holds a code an earlier release registered.
RegInit ==
    /\ \/ codes = [n \in {} |-> 0] /\ stored = 0
       \/ \E mode \in Mode :
             /\ codes = [n \in {1} |-> [label |-> Original, mode |-> mode, replaced |-> FALSE]]
             /\ stored = 1
    /\ pc = [i \in Install |-> "idle"]
    /\ args \in [Install -> {CHOOSE a \in Options : TRUE}]
    /\ old = [i \in Install |-> 0]
    /\ new = [i \in Install |-> 0]
    /\ retired = [i \in Install |-> Original]
    /\ blind = FALSE

Goto(i, step) == pc' = [pc EXCEPT ![i] = step]

------------------------------------------------------------------------------

\* An install starts; a later one may be given other options.
Begin(i) ==
    /\ pc[i] \in {"idle"} \cup Ended
    /\ Goto(i, "scan")
    /\ \E a \in Options : args' = [args EXCEPT ![i] = a]
    /\ old' = [old EXCEPT ![i] = 0]
    /\ new' = [new EXCEPT ![i] = 0]
    /\ UNCHANGED <<codes, stored, retired, blind>>

\* get_codes_to_register: a label that resolves is migrated, or registered again
\* if --code names it; one that does not is registered if there is a binary.
Scan(i) ==
    /\ pc[i] = "scan"
    /\ \E answer \in CodeExists(Original) :
          Goto(i, CASE answer = "raises" -> "failed"
                    [] answer = "one" /\ args[i].explicit -> "register"
                    [] answer = "one" /\ args[i].migrate -> "migrate"
                    [] answer = "absent" /\ (args[i].explicit \/ args[i].binary) -> "register"
                    [] OTHER -> "done")
    /\ UNCHANGED <<codes, stored, args, old, new, retired, blind>>

\* The registered code runs the wrong way, and that can be told.
RunsWrong(n, i) ==
    /\ args[i].binary
    /\ codes[n].mode # "undecidable"
    /\ codes[n].mode # args[i].mode

\* Mutant: a code whose mode is undecidable is taken to run the wrong way.
MigrateUndecidable(i) ==
    /\ pc[i] = "migrate"
    /\ \E n \in Live :
          LET wrong == args[i].binary /\ codes[n].mode # args[i].mode
          IN /\ Goto(i, IF wrong THEN "store" ELSE "done")
             /\ old' = [old EXCEPT ![i] = IF wrong THEN n ELSE 0]
    /\ UNCHANGED <<codes, stored, args, new, retired, blind>>

\* migrate_code_mpi_flags: load_code raises unless the label resolves.
Migrate(i) ==
    /\ pc[i] = "migrate"
    /\ \/ /\ Cardinality(Live) # 1 \/ "lookup" \in Faults
          /\ Goto(i, "failed")
          /\ UNCHANGED old
       \/ \E n \in Live :
             /\ Live = {n}
             /\ Goto(i, IF RunsWrong(n, i) THEN "store" ELSE "done")
             /\ old' = [old EXCEPT ![i] = IF RunsWrong(n, i) THEN n ELSE 0]
    /\ UNCHANGED <<codes, stored, args, new, retired, blind>>

\* setup_code looks again before it stores, and a third time, with load_code, for
\* the code to replace; only --code forces a replacement.
Register(i) ==
    /\ pc[i] = "register"
    /\ \/ /\ "raises" \in CodeExists(Original) \/ "lookup" \in Faults
          /\ Goto(i, "failed")
          /\ UNCHANGED <<old, blind>>
       \/ /\ "absent" \in CodeExists(Original)
          /\ Goto(i, "store")
          /\ blind' = (blind \/ Live # {})
          /\ UNCHANGED old
       \/ \E n \in Live :
             /\ Live = {n}
             /\ Goto(i, IF args[i].explicit THEN "store" ELSE "done")
             /\ old' = [old EXCEPT ![i] = IF args[i].explicit THEN n ELSE 0]
             /\ UNCHANGED blind
    /\ UNCHANGED <<codes, stored, args, new, retired>>

\* _store_code: the new node takes the label, whoever else has it.
Store(i) ==
    /\ pc[i] = "store"
    /\ stored < MaxCodes
    /\ stored' = stored + 1
    /\ codes' = [n \in DOMAIN codes \cup {stored'} |->
                    IF n = stored'
                    THEN [label |-> Original, mode |-> args[i].mode, replaced |-> FALSE]
                    ELSE codes[n]]
    /\ new' = [new EXCEPT ![i] = stored']
    /\ Goto(i, IF old[i] = 0 THEN "done" ELSE "mark")
    /\ UNCHANGED <<args, old, retired, blind>>

\* The database refuses, or the bound on code nodes is reached.
StoreFails(i) ==
    /\ pc[i] = "store"
    /\ Goto(i, "failed")
    /\ UNCHANGED <<codes, stored, args, old, new, retired, blind>>

\* retire_code: the extra first ...
Mark(i) ==
    /\ pc[i] = "mark"
    /\ codes' = [codes EXCEPT ![old[i]].replaced = TRUE]
    /\ Goto(i, "pick")
    /\ UNCHANGED <<stored, args, old, new, retired, blind>>

\* ... then the first label that is free ...
Candidate(i, k) ==
    Append(codes[old[i]].label, <<IF args[i].explicit THEN "_old" ELSE "_mpi_pre", k>>)

\* Mutant: the counter does not count.
PickWithoutCounting(i) ==
    /\ pc[i] = "pick"
    /\ Labelled(Candidate(i, 1)) = {}
    /\ Goto(i, "relabel")
    /\ retired' = [retired EXCEPT ![i] = Candidate(i, 1)]
    /\ UNCHANGED <<codes, stored, args, old, new, blind>>

\* One candidate after the other while code_exists finds a code of that label; it
\* raises where it finds two, and a label it cannot look up counts as free.
Pick(i) ==
    /\ pc[i] = "pick"
    /\ \E k \in 1 .. MaxCodes :
          /\ \A tried \in 1 .. k - 1 : "one" \in CodeExists(Candidate(i, tried))
          /\ \/ /\ "raises" \in CodeExists(Candidate(i, k))
                /\ Goto(i, "discard")
                /\ UNCHANGED retired
             \/ /\ "absent" \in CodeExists(Candidate(i, k))
                /\ Goto(i, "relabel")
                /\ retired' = [retired EXCEPT ![i] = Candidate(i, k)]
    /\ UNCHANGED <<codes, stored, args, old, new, blind>>

\* Mutant: the superseded code keeps its label.
RelabelForgotten(i) ==
    /\ pc[i] = "relabel"
    /\ Goto(i, "done")
    /\ UNCHANGED <<codes, stored, args, old, new, retired, blind>>

\* ... and the relabelling, which leaves the label to the replacement.
Relabel(i) ==
    /\ pc[i] = "relabel"
    /\ codes' = [codes EXCEPT ![old[i]].label = retired[i]]
    /\ Goto(i, "done")
    /\ UNCHANGED <<stored, args, old, new, retired, blind>>

\* Mutant: the replacement is not discarded.
RetireFailsUndone(i) ==
    /\ pc[i] \in {"mark", "pick", "relabel"}
    /\ Goto(i, "failed")
    /\ UNCHANGED <<codes, stored, args, old, new, retired, blind>>

\* A database operation of retire_code raises: the replacement is to go.
RetireFails(i) ==
    /\ pc[i] \in {"mark", "pick", "relabel"}
    /\ Goto(i, "discard")
    /\ UNCHANGED <<codes, stored, args, old, new, retired, blind>>

\* Mutants: the superseded code is deleted; all codes with the label are.
DiscardOld(i) ==
    /\ pc[i] = "discard"
    /\ codes' = [n \in DOMAIN codes \ {old[i]} |-> codes[n]]
    /\ Goto(i, "failed")
    /\ UNCHANGED <<stored, args, old, new, retired, blind>>

DiscardLabel(i) ==
    /\ pc[i] = "discard"
    /\ codes' = [n \in DOMAIN codes \ Live |-> codes[n]]
    /\ Goto(i, "failed")
    /\ UNCHANGED <<stored, args, old, new, retired, blind>>

\* _discard_code deletes the replacement; the error is raised again.
Discard(i) ==
    /\ pc[i] = "discard"
    /\ codes' = [n \in DOMAIN codes \ {new[i]} |-> codes[n]]
    /\ Goto(i, "failed")
    /\ UNCHANGED <<stored, args, old, new, retired, blind>>

\* _discard_code logs a deletion that fails, and goes on.
DiscardFails(i) ==
    /\ "discard" \in Faults
    /\ pc[i] = "discard"
    /\ Goto(i, "failed")
    /\ UNCHANGED <<codes, stored, args, old, new, retired, blind>>

Kill(i) ==
    /\ "kill" \in Faults
    /\ pc[i] \notin {"idle"} \cup Ended
    /\ Goto(i, "killed")
    /\ UNCHANGED <<codes, stored, args, old, new, retired, blind>>

\* The steps of an install that is scheduled and meets no error.
InstallStep(i) ==
    \/ Scan(i) \/ Migrate(i) \/ Register(i) \/ Store(i) \/ StoreFails(i)
    \/ Mark(i) \/ Pick(i) \/ Relabel(i) \/ Discard(i)

RegNext ==
    \E i \in Install : \/ Begin(i) \/ InstallStep(i) \/ RetireFails(i)
                       \/ DiscardFails(i) \/ Kill(i)

RegSpec == RegInit /\ [][RegNext]_regVars

RegFairSpec == RegSpec /\ \A i \in Install : WF_regVars(InstallStep(i))

------------------------------------------------------------------------------
(* Properties *)

\* A label that names a code names one ever after: whatever fails, overlaps or
\* is killed, no install leaves the calculations without their code.
LabelNeverVanishes == [][Live # {} => Live' # {}]_regVars

InstallsOver == \A i \in Install : pc[i] \in {"idle"} \cup Ended

\* Unless an error of the database was taken for the absence of a code that was
\* there, an install that is over, one way or the other, left at most one node
\* with the label: the next load_code resolves, and the next install can run.
OneLiveCode == InstallsOver /\ ~blind => Cardinality(Live) <= 1

\* "A force replacement that fails at either step leaves exactly one node
\* holding the label", and so does the replacement of a migrated code.
FailedReplacementLeavesOne ==
    \A i \in Install : pc[i] = "failed" /\ old[i] # 0 => Cardinality(Live) = 1

\* If a step takes the label from a code, an install has a reason to replace it.
LabelTakenForCause ==
    \A n \in Live : n \in DOMAIN codes' /\ codes'[n].label # Original =>
       \E i \in Install : args[i].explicit \/ RunsWrong(n, i)

\* Replacing a code orphans its cached results: it happens only to a code that
\* runs otherwise than its binary wants, or that the user named with --code.
NoNeedlessReplacement == [][LabelTakenForCause]_regVars

\* A node is deleted only while an older one holds the label: it never was the
\* code that load_code found, so no calculation's provenance goes with it.
OnlyUnusedCodesDeleted ==
    [][\A n \in DOMAIN codes : n \notin DOMAIN codes' =>
          codes[n].label = Original /\ \E m \in Live : m < n]_regVars

\* Every install ends: no lookup waits, and a free label is always found.
InstallEnds == \A i \in Install : pc[i] = "scan" ~> pc[i] \in Ended
==============================================================================
