----------------------------- MODULE DumpFolder ------------------------------
(***************************************************************************)
(* The results folder <stem>/ that dump_workgraph (koopmans/aiida/         *)
(* dumping.py) writes for `run`, `attach` and `fetch`. It is made anew     *)
(* each time: an earlier dump is deleted, AiiDA writes the raw tree, and   *)
(* the tree is tidied in place. Nothing is atomic, the command may be      *)
(* killed at any step, and the user may have files of that name.           *)
(*                                                                         *)
(* One dump at a time writes to the folder: two commands that dump to the  *)
(* same folder together are not modelled.                                  *)
(***************************************************************************)
EXTENDS Naturals, FiniteSets

CONSTANTS Process,         \* the processes whose results go to this folder
          NoProcess        \* not a process

ASSUME NoProcessAssumption == NoProcess \notin Process

VARIABLES
    folder,    \* what the folder holds; {} if it is absent or empty
    theirs,    \* did the user make the folder, with files of their own?
    pc,        \* where the dump in progress is
    process,   \* the process it dumps
    outcome    \* how the last dump ended

dumpVars == <<folder, theirs, pc, process, outcome>>

\* NODE_METADATA_FILE at the root, which tells a dump from a stranger's folder.
Marker == <<NoProcess, "metadata">>
UserFiles == <<NoProcess, "user">>

\* The step folders of a process: as AiiDA writes them, and once tidied.
Raw(p) == <<p, "raw">>
Tidied(p) == <<p, "tidied">>

Item == {Marker, UserFiles} \cup {Raw(p) : p \in Process} \cup {Tidied(p) : p \in Process}

DumpTypeOK ==
    /\ folder \subseteq Item
    /\ theirs \in BOOLEAN
    /\ pc \in {"idle", "deleting", "writing", "tidying"}
    /\ process \in Process \cup {NoProcess}
    /\ outcome \in {"none", "written", "refused", "killed"}

DumpInit ==
    /\ folder = {}
    /\ theirs = FALSE
    /\ pc = "idle"
    /\ process = NoProcess
    /\ outcome = "none"

\* Mutants: any folder is accepted; an accepted one is not deleted.
AcceptAny(p) ==
    /\ pc = "idle"
    /\ process' = p
    /\ pc' = "deleting"
    /\ outcome' = "none"
    /\ UNCHANGED <<folder, theirs>>

AcceptAsIs(p) ==
    /\ pc = "idle"
    /\ folder = {} \/ Marker \in folder
    /\ process' = p
    /\ pc' = "writing"
    /\ outcome' = "none"
    /\ UNCHANGED <<folder, theirs>>

\* A command asks for the results of a process: an existing folder is accepted
\* if it is empty or carries the marker.
Accept(p) ==
    /\ pc = "idle"
    /\ folder = {} \/ Marker \in folder
    /\ process' = p
    /\ pc' = "deleting"
    /\ outcome' = "none"
    /\ UNCHANGED <<folder, theirs>>

\* ValueError: "exists and was not written by koopmans".
Refuse(p) ==
    /\ pc = "idle"
    /\ folder # {} /\ Marker \notin folder
    /\ process' = p
    /\ outcome' = "refused"
    /\ UNCHANGED <<folder, theirs, pc>>

\* shutil.rmtree deletes one thing after another, in the order it finds them.
DeleteOne ==
    /\ pc = "deleting"
    /\ \E item \in folder : folder' = folder \ {item}
    /\ UNCHANGED <<theirs, pc, process, outcome>>

\* rmtree returns only once nothing is left.
Deleted ==
    /\ pc = "deleting"
    /\ folder = {}
    /\ pc' = "writing"
    /\ UNCHANGED <<folder, theirs, process, outcome>>

\* process.dump writes the step folders and the metadata file of the root.
WriteOne ==
    /\ pc = "writing"
    /\ \E item \in {Marker, Raw(process)} \ folder : folder' = folder \cup {item}
    /\ UNCHANGED <<theirs, pc, process, outcome>>

Written ==
    /\ pc = "writing"
    /\ {Marker, Raw(process)} \subseteq folder
    /\ pc' = "tidying"
    /\ UNCHANGED <<folder, theirs, process, outcome>>

\* The passes from _simplify_folder_names to _dump_model_json rename, move and
\* delete below the root; _prune_workflow_metadata spares the root's marker.
Tidy ==
    /\ pc = "tidying"
    /\ folder' = (folder \ {Raw(process)}) \cup {Tidied(process)}
    /\ pc' = "idle"
    /\ outcome' = "written"
    /\ UNCHANGED <<theirs, process>>

\* Ctrl-C, SIGKILL, or an OSError anywhere in the dump. Half-way through the
\* tidying the tree is partly raw and partly tidied.
Killed ==
    /\ pc # "idle"
    /\ folder' \in {folder} \cup
                   (IF pc = "tidying" THEN {folder \cup {Tidied(process)}} ELSE {})
    /\ pc' = "idle"
    /\ outcome' = "killed"
    /\ UNCHANGED <<theirs, process>>

\* The user makes a folder of that name or puts files into the one that is there,
\* or deletes the folder. None of it during a dump.
UserAddsFiles ==
    /\ pc = "idle"
    /\ UserFiles \notin folder
    /\ folder' = folder \cup {UserFiles}
    /\ theirs' = (folder = {})
    /\ UNCHANGED <<pc, process, outcome>>

UserDeletesFolder ==
    /\ pc = "idle"
    /\ folder # {}
    /\ folder' = {}
    /\ theirs' = FALSE
    /\ outcome' = "none"
    /\ UNCHANGED <<pc, process>>

DumpStep == DeleteOne \/ Deleted \/ WriteOne \/ Written \/ Tidy

DumpNext ==
    \/ \E p \in Process : Accept(p) \/ Refuse(p)
    \/ DumpStep
    \/ Killed
    \/ UserAddsFiles
    \/ UserDeletesFolder

DumpSpec == DumpInit /\ [][DumpNext]_dumpVars

------------------------------------------------------------------------------
(* Properties *)

\* "overwriting it would delete a directory this call did not write": a folder
\* the user made is left alone by every dump, killed or not.
UserFolderUntouched ==
    [][theirs /\ theirs' => folder' = folder]_dumpVars

\* "A tree already there is overwritten": a dump that succeeded leaves the tree
\* of its process and nothing of an earlier one, whatever a killed dump left.
WrittenTreeIsWhole ==
    outcome = "written" => folder \ {UserFiles} = {Marker, Tidied(process)}

\* The folder never shows one process's files under another's metadata: it holds
\* the files of one process, also while it is written and after a kill.
OneProcessAtATime ==
    \A p, q \in Process : p # q =>
       {Raw(p), Tidied(p)} \cap folder = {} \/ {Raw(q), Tidied(q)} \cap folder = {}
==============================================================================
