------------------------------ MODULE DumpTree -------------------------------
(***************************************************************************)
(* What dump_workgraph makes of the tree AiiDA writes                      *)
(* (koopmans/aiida/dumping.py): folder names lose their pk, each step gets *)
(* its values and files listed, steps that hold nothing go, the others are *)
(* renumbered, renamed and folded, and repeated content becomes links. A   *)
(* record of what was placed where is kept by path through all of it.      *)
(*                                                                         *)
(* A folder is the process it was dumped for. One data node runs through   *)
(* the tree: a process makes it or the user gives it, calculations and     *)
(* functions read it, workflows return it. The model.json copy and the     *)
(* refusal of a foreign folder (see DumpFolder) are left out.              *)
(***************************************************************************)
EXTENDS Naturals, Sequences, FiniteSets, SequencesExt, FamilyOrder

CONSTANTS MaxSteps,   \* bound on the processes of a run
          Labels,     \* the labels of steps, [family, index]
          FlatOrNested \* how a workflow labels what it returns, "flat", "nested"

ASSUME TreeAssumption ==
    /\ MaxSteps \in Nat \ {0}
    /\ Labels # {} /\ \A label \in Labels : label.index \in Nat
    /\ FlatOrNested \subseteq {"flat", "nested"}

VARIABLES
    run,      \* the run that is dumped, as the database has it
    pc,       \* the pass that is under way
    todo,     \* what is left of it, [op, folder, num]
    folder,   \* for the folders that exist, the folder above and the name
    files,    \* the files, [at, dir, entry, node, content, to]
    dirs,     \* the directories inputs and outputs there are, <<folder, dir>>
    placed    \* _PlacedFiles: what was listed, by path

treeVars == <<run, pc, todo, folder, files, dirs, placed>>

Root == 1
NoStep == 0

\* Workflows call the others. A calculation ended well, failed, or was killed
\* before it had any file; a helper is a python function or PythonJob.
Kinds == {"workflow", "finished", "failed", "unstarted", "helper"}
IsCalcJob(p) == run.kind[p] \in {"finished", "failed", "unstarted"}
Steps == DOMAIN run.kind
Below(p) == {q \in Steps : run.parent[q] = p}

\* <pk> and the label of the process stay in a name until they are taken off;
\* `park` is the number of a `.tidy-` name.
Name == [park : 0 .. MaxSteps, num : 0 .. MaxSteps, label : Labels,
         tail : {"", "WorkGraph", "PwCalculation"}, pk : 0 .. MaxSteps]

Passes == {"simplify", "list", "prune", "renumber", "strip", "hoist", "link", "done"}

------------------------------------------------------------------------------
(* Paths and moves *)

\* The names that lead from the root to a folder.
PathOf(tree, f) ==
    LET path[g \in DOMAIN tree] ==
          IF g = Root THEN <<>> ELSE Append(path[tree[g].up], tree[g].name)
    IN path[f]

InFolder(tree, f) == {g \in DOMAIN tree : tree[g].up = f}
Exists(tree, up, name) == \E g \in InFolder(tree, up) : tree[g].name = name

\* shutil.move: a folder that is moved to a name that is taken ends up inside.
Moved(tree, f, name) ==
    IF Exists(tree, tree[f].up, name)
    THEN LET g == CHOOSE h \in InFolder(tree, tree[f].up) : tree[h].name = name
         IN [tree EXCEPT ![f].up = g]
    ELSE [tree EXCEPT ![f].name = name]

Rebased(path, source, target) ==
    IF IsPrefix(source, path) THEN target \o SubSeq(path, Len(source) + 1, Len(path)) ELSE path

\* _PlacedFiles.moved
PlacedMoved(source, target) ==
    {[p EXCEPT !.path = Rebased(@, source, target)] : p \in placed}

\* Mutant: a move is not reported to the record.
MoveUnreported(f, name) ==
    /\ folder' = Moved(folder, f, name)
    /\ UNCHANGED placed

\* _move
Move(f, name) ==
    /\ folder' = Moved(folder, f, name)
    /\ placed' = PlacedMoved(PathOf(folder, f),
                             Append(PathOf(folder, folder[f].up), name))

\* _step_folders: by number.
StepFolders(f) ==
    LET kids == InFolder(folder, f) IN
    CHOOSE s \in [1 .. Cardinality(kids) -> kids] :
       \A i, j \in 1 .. Cardinality(kids) :
          i < j => folder[s[i]].name.num < folder[s[j]].name.num

------------------------------------------------------------------------------
(* The run, and the tree AiiDA writes of it *)

Nothing == [park |-> 0, num |-> 0, label |-> CHOOSE l \in Labels : TRUE,
            tail |-> "", pk |-> 0]

\* The class of the process, which AiiDA appends to the label of the call.
TailOf(kind) == CASE kind = "workflow" -> "WorkGraph"
                  [] kind = "helper" -> ""
                  [] OTHER -> "PwCalculation"

RawName(r, p) ==
    IF p = Root THEN Nothing
    ELSE [park |-> 0, pk |-> p, label |-> r.label[p],
          num |-> Cardinality({q \in 1 .. p : r.parent[q] = r.parent[p]}),
          tail |-> TailOf(r.kind[p])]

\* An entry of inputs or outputs, in a directory of its own or not.
Named(under, name) == [under |-> under, name |-> name]

File(at, dir, entry, node, content) ==
    [at |-> at, dir |-> dir, entry |-> entry, node |-> node, content |-> content, to |-> <<>>]

\* Every process has its metadata, a helper its source; a calculation that got
\* so far has its input and what it retrieved, a scheduler log among it. What it
\* retrieved may have the name of the data node it made.
RawFiles(r, p) ==
    {File(p, "", Named("", "aiida_node_metadata.yaml"), "metadata", r.kind[p])}
    \cup (IF r.kind[p] = "helper" THEN {File(p, "", Named("", "source_file"), "source", "text")} ELSE {})
    \cup (IF r.kind[p] \in {"finished", "failed"}
          THEN {File(p, "inputs", Named("", "aiida.in"), "own", "file"),
                File(p, "outputs", Named("", "_scheduler-stderr.txt"), "own", "log")} ELSE {})
    \cup (IF r.kind[p] = "finished"
          THEN {File(p, "outputs", Named("", IF r.clash THEN "out.json" ELSE "aiida.out"),
                     "own", "file")} ELSE {})

Parents(n) == {f \in [1 .. n -> 0 .. n - 1] : f[Root] = NoStep /\ \A p \in 2 .. n : f[p] \in 1 .. p - 1}

\* The processes that called a process, by way of others or not.
CalledBy(parent, p) ==
    LET up[q \in 0 .. MaxSteps] == IF q = 0 THEN {} ELSE {parent[q]} \cup up[parent[q]]
    IN IF p = 0 THEN DOMAIN parent ELSE up[p]

\* The way of the data node through a tree of processes. Who reads it comes
\* after who made it, and who returns it called who made it.
IsRunOf(r, n, parent, kind, creator) ==
    \E label \in [{p \in 2 .. n : kind[p] # "helper"} -> Labels] :
    \E readers \in SUBSET {p \in 2 .. n : creator < p
                                          /\ kind[p] \in {"finished", "failed", "helper"}},
       returning \in SUBSET {p \in CalledBy(parent, creator) \cap 1 .. n : kind[p] = "workflow"},
       how \in FlatOrNested,
       value \in {"json", "empty", "file"},
       clash \in BOOLEAN :
    /\ clash => creator # 0 /\ kind[creator] = "finished"
    /\ r = [parent |-> parent, kind |-> kind, creator |-> creator, readers |-> readers,
            returns |-> [p \in 1 .. n |-> IF p \in returning THEN how ELSE "no"],
            label |-> [p \in 1 .. n |-> IF p \in DOMAIN label THEN label[p]
                                        ELSE CHOOSE l \in Labels : TRUE],
            value |-> value, clash |-> clash]

\* The runs: workflows call the others.
IsRun(r) ==
    \E n \in 2 .. MaxSteps :
    \E parent \in Parents(n), kind \in [1 .. n -> Kinds], creator \in 0 .. n :
       /\ \A p \in 1 .. n : parent[p] # NoStep => kind[parent[p]] = "workflow"
       /\ kind[Root] = "workflow"
       /\ creator # 0 => kind[creator] \in {"finished", "helper"}
       /\ IsRunOf(r, n, parent, kind, creator)

TreeInit ==
    /\ IsRun(run)
    /\ pc = "simplify"
    /\ todo = <<>>
    /\ folder = [p \in Steps |-> [up |-> run.parent[p], name |-> RawName(run, p)]]
    /\ files = UNION {RawFiles(run, p) : p \in Steps}
    /\ dirs = {p \in Steps : run.kind[p] \in {"finished", "failed"}} \X {"inputs", "outputs"}
    /\ placed = {}

------------------------------------------------------------------------------
(* Simplifying names, and the engine's own files *)

SimpleTail(tail) == IF tail = "WorkGraph" THEN "" ELSE tail
Simple(name) == [name EXCEPT !.pk = 0, !.tail = SimpleTail(@)]

\* _prune_engine_bookkeeping: a log stays if it says something and its
\* calculation did not end well.
Kept(file) == file.content = "log" => run.kind[file.at] # "finished"

\* _simplify_folder_names, and the files of the dump and of the engine.
Simplify ==
    /\ pc = "simplify"
    /\ folder' = [f \in DOMAIN folder |->
                    IF Exists(folder, folder[f].up, Simple(folder[f].name))
                    THEN folder[f] ELSE [folder[f] EXCEPT !.name = Simple(@)]]
    /\ files' = {f \in files : Kept(f)}
    /\ pc' = "list"
    /\ UNCHANGED <<run, todo, dirs, placed>>

------------------------------------------------------------------------------
(* Listing every step's inputs and outputs *)

\* _direct_calculation_created_pks
OwnCalculationMade(p) == run.creator # 0 /\ run.parent[run.creator] = p /\ IsCalcJob(run.creator)

\* _repeats_its_producers_listing
RepeatsListing(p) ==
    run.returns[p] = "nested" /\ run.value = "json" /\ run.creator # 0 /\ IsCalcJob(run.creator)

\* Mutant: a namespaced value is not echoed, whoever made it.
EchoesFlat(p) == run.returns[p] = "flat" /\ ~OwnCalculationMade(p)

Echoes(p) == run.returns[p] # "no" /\ ~OwnCalculationMade(p) /\ ~RepeatsListing(p)

\* A value that is empty is not written, and a helper lists files only.
Lists(p) == run.value = "file" \/ (run.value = "json" /\ run.kind[p] # "helper")

\* The name that a link gives to its entry. Mutant: whatever has it already.
EntryOver(p, dir, label, nested) ==
    CASE run.value = "file" -> Named(IF nested THEN "ns" ELSE "", label \o ".dat")
      [] nested -> Named("", "ns.json")
      [] OTHER -> Named("", label \o ".json")

\* _write_flat_io_listing, _place_repository: the entry is named for the link; a
\* name that a retrieved file has makes it go into a directory. Under a
\* namespace, values share a file and files a directory.
Entry(p, dir, label, nested) ==
    LET entry == EntryOver(p, dir, label, nested) IN
    IF \E f \in files : f.at = p /\ f.dir = dir /\ f.entry = entry
    THEN Named(label, entry.name) ELSE entry

Content(nested) == CASE run.value = "file" -> "file"
                     [] nested -> "nested"
                     [] OTHER -> "bare"

Listing(p, dir, label, nested) ==
    File(p, dir, Entry(p, dir, label, nested), "data", Content(nested))

\* _write_step_io
Inputs(p) == IF p \in run.readers /\ Lists(p) THEN {Listing(p, "inputs", "in", FALSE)} ELSE {}

Outputs(p) ==
    IF ~Lists(p) THEN {}
    ELSE IF run.kind[p] = "workflow"
         THEN IF Echoes(p) THEN {Listing(p, "outputs", "out", run.returns[p] = "nested")} ELSE {}
         ELSE IF run.creator = p THEN {Listing(p, "outputs", "out", FALSE)} ELSE {}

Listings == UNION {Inputs(p) \cup Outputs(p) : p \in Steps}

\* _prune_workflow_metadata
WorkflowMetadata == {f \in files : f.content = "workflow" /\ f.at # Root}

PlacedAt(f) ==
    [path |-> PathOf(folder, f.at), dir |-> f.dir, entry |-> f.entry, node |-> f.node,
     content |-> f.content, created |-> f.dir = "outputs" /\ run.kind[f.at] # "workflow"]

SameName(f, g) == f.at = g.at /\ f.dir = g.dir /\ f.entry = g.entry

\* _dump_step_io, _record_task_sources, _prune_workflow_metadata
List ==
    /\ pc = "list"
    /\ files' = {f \in files \ WorkflowMetadata : \A g \in Listings : ~SameName(f, g)}
                \cup Listings
    /\ dirs' = dirs \cup {<<f.at, f.dir>> : f \in Listings}
    /\ placed' = {PlacedAt(f) : f \in Listings \cup {g \in files : g.node = "source"}}
    /\ pc' = "prune"
    /\ UNCHANGED <<run, todo, folder>>

------------------------------------------------------------------------------
(* Tidying: _tidy_dumped_tree *)

\* The values a step was given, listed back at it, count as nothing produced.
Echoed(f) == f.node = "data" /\ f.dir = "inputs" /\ f.content # "file"
NonContent(f) == f.node \in {"metadata", "source"} \/ Echoed(f)

\* A folder has content if it or a folder below it has.
Holds(tree, f) ==
    LET holds[g \in Steps] ==
          \/ \E h \in files : h.at = g /\ ~NonContent(h)
          \/ \E h \in InFolder(tree, g) : holds[h]
    IN holds[f]

Do(op, f, num) == [op |-> op, folder |-> f, num |-> num]
Start(op) == <<Do(op, Root, 0)>>

\* _prune_source_only_step_folders
Prune ==
    /\ pc = "prune"
    /\ LET kept == {f \in DOMAIN folder : f = Root \/ Holds(folder, f)}
           gone == {PathOf(folder, f) : f \in DOMAIN folder \ kept}
       IN /\ folder' = [f \in kept |-> folder[f]]
          /\ files' = {f \in files : f.at \in kept}
          /\ dirs' = {d \in dirs : d[1] \in kept}
          /\ placed' = {p \in placed : \A g \in gone : ~IsPrefix(g, p.path)}
    /\ pc' = "renumber"
    /\ todo' = Start("renumber")
    /\ UNCHANGED run

\* What _display_order reads of a name: the class is part of it at this point,
\* so that steps of one label and two classes are of two families.
LabelRead(name) == [family |-> <<name.label.family, name.tail>>, index |-> name.label.index]

\* The folders in a folder in the order in which they are numbered.
Ordered(f) ==
    LET kids == StepFolders(f)
        order == DisplayOrder([i \in DOMAIN kids |-> LabelRead(folder[kids[i]].name)])
    IN [i \in DOMAIN kids |-> kids[order[i]]]

\* Mutant: folders are renamed one after the other, without parking.
LevelUnparked(f) == [i \in DOMAIN Ordered(f) |-> Do("renumber", Ordered(f)[i], i)]

\* _renumber_step_folders: what is to be done for the folders in a folder. All
\* are parked before any takes its new name.
Level(f) == [i \in DOMAIN Ordered(f) |-> Do("park", Ordered(f)[i], i)]
            \o [i \in DOMAIN Ordered(f) |-> Do("renumber", Ordered(f)[i], i)]

Final(f, num) == [folder[f].name EXCEPT !.park = 0, !.num = num]

\* A folder that changes its name goes to one that no step folder can have.
Park ==
    /\ pc = "renumber" /\ todo # <<>> /\ Head(todo).op = "park"
    /\ LET f == Head(todo).folder
           num == Head(todo).num
       IN IF folder[f].name = Final(f, num)
          THEN UNCHANGED <<folder, placed>>
          ELSE Move(f, [folder[f].name EXCEPT !.park = num])
    /\ todo' = Tail(todo)
    /\ UNCHANGED <<run, pc, files, dirs>>

\* It takes its final name, and the folders in it are next.
Renumber ==
    /\ pc = "renumber" /\ todo # <<>> /\ Head(todo).op = "renumber"
    /\ LET f == Head(todo).folder
           num == Head(todo).num
       IN /\ todo' = Level(f) \o Tail(todo)
          /\ IF folder[f].name = Final(f, num)
             THEN UNCHANGED <<folder, placed>>
             ELSE Move(f, Final(f, num))
    /\ UNCHANGED <<run, pc, files, dirs>>

Stripped(f) == [folder[f].name EXCEPT !.tail = ""]

\* _strip_process_label_suffixes
Strip ==
    /\ pc = "strip" /\ todo # <<>>
    /\ LET f == Head(todo).folder
           kids == StepFolders(f)
       IN /\ todo' = [i \in DOMAIN kids |-> Do("strip", kids[i], 0)] \o Tail(todo)
          /\ IF f = Root \/ Exists(folder, folder[f].up, Stripped(f))
             THEN UNCHANGED <<folder, placed>>
             ELSE Move(f, Stripped(f))
    /\ UNCHANGED <<run, pc, files, dirs>>

\* _is_calculation_folder
IsCalculationFolder(f) == {<<f, "inputs">>, <<f, "outputs">>} \subseteq dirs

\* The calculation that is everything a folder holds, if there is one.
Lone(f) == {g \in InFolder(folder, f) :
               /\ InFolder(folder, f) = {g}
               /\ IsCalculationFolder(g)
               /\ \A h \in files : h.at # f
               /\ \A d \in dirs : d[1] # f}

\* _hoist_lone_calculations: by one layer only.
Hoist ==
    /\ pc = "hoist" /\ todo # <<>>
    /\ LET f == Head(todo).folder
           kids == StepFolders(f)
       IN IF Lone(f) = {}
          THEN /\ todo' = [i \in DOMAIN kids |-> Do("hoist", kids[i], 0)] \o Tail(todo)
               /\ UNCHANGED <<folder, files, dirs, placed>>
          ELSE \E g \in Lone(f) :
               /\ todo' = Tail(todo)
               /\ folder' = [h \in DOMAIN folder \ {g} |-> folder[h]]
               /\ files' = {IF h.at = g THEN [h EXCEPT !.at = f] ELSE h : h \in files}
               /\ dirs' = {<<IF d[1] = g THEN f ELSE d[1], d[2]>> : d \in dirs}
               /\ placed' = PlacedMoved(PathOf(folder, g), PathOf(folder, f))
    /\ UNCHANGED <<run, pc>>

\* One pass over, the next begins.
NextPass ==
    /\ todo = <<>>
    /\ \/ pc = "renumber" /\ pc' = "strip" /\ todo' = Start("strip")
       \/ pc = "strip" /\ pc' = "hoist" /\ todo' = Start("hoist")
       \/ pc = "hoist" /\ pc' = "link" /\ todo' = <<>>
    /\ UNCHANGED <<run, folder, files, dirs, placed>>

Where(f) == [path |-> PathOf(folder, f.at), dir |-> f.dir, entry |-> f.entry]
Place(p) == [path |-> p.path, dir |-> p.dir, entry |-> p.entry]

\* _PlacedFiles.duplicate_groups: the records of one node's same content, as far
\* as they name a file.
Group(p) == {q \in placed : q.node = p.node /\ q.content = p.content
                            /\ \E f \in files : Where(f) = Place(q)}

Key(p) == <<p.node, p.content>>

\* Mutant: tree order settles every time which copy is kept.
CanonicalByPath(p) == Group(p)

\* The copy that is kept is the one its creator placed, if there is one, or else
\* the one that tree order settles on.
Canonical(p) ==
    LET here == {q \in Group(p) : q.created} IN IF here # {} THEN here ELSE Group(p)

\* _link_duplicate_files
Link ==
    /\ pc = "link"
    /\ \E choice \in [{Key(p) : p \in {q \in placed : Group(q) # {}}} -> placed] :
          /\ \A p \in placed : Group(p) # {} => choice[Key(p)] \in Canonical(p)
          /\ files' = {LET p == {q \in placed : Place(q) = Where(f)} IN
                       IF p = {} \/ Place(choice[Key(CHOOSE q \in p : TRUE)]) = Where(f) THEN f
                       ELSE [f EXCEPT !.to = Place(choice[Key(CHOOSE q \in p : TRUE)])]
                       : f \in files}
    /\ pc' = "done"
    /\ UNCHANGED <<run, todo, folder, dirs, placed>>

TreeNext == Simplify \/ List \/ Prune \/ Park \/ Renumber \/ Strip \/ Hoist \/ NextPass \/ Link

TreeSpec == TreeInit /\ [][TreeNext]_treeVars

------------------------------------------------------------------------------
(* Properties *)

Renumbered == {"strip", "hoist", "link", "done"}

\* Renaming sends folders to names that others still have; no folder ever ends
\* up inside another that way, and no two have one name.
FoldersKeepTheirPlace ==
    \A f, g \in DOMAIN folder :
       /\ folder[f].up = run.parent[f]
       /\ f # g /\ folder[f].up = folder[g].up => folder[f].name # folder[g].name

\* Steps called for one label, numbers aside, that run one kind of process.
FamilyOf(p) == <<run.label[p].family, SimpleTail(TailOf(run.kind[p]))>>

\* Nothing else was called between the members of a family.
SideBySide(kids, family) ==
    \A f, g \in kids : FamilyOf(f) = family /\ FamilyOf(g) = family =>
       \A k \in kids \cap (f .. g) : FamilyOf(k) = family

\* The folders in a folder are numbered without a gap, as the steps were called,
\* but for the fan-outs: those are numbered by the numbers of their labels. It
\* stays so when the names lose the class that told two families apart.
FoldersReadAsRun ==
    pc \in Renumbered =>
       \A p \in DOMAIN folder :
          LET kids == InFolder(folder, p)
              Num(f) == folder[f].name.num
          IN /\ {Num(f) : f \in kids} = 1 .. Cardinality(kids)
             /\ \A f, g \in kids : f < g =>
                   (Num(f) > Num(g) <=> /\ FamilyOf(f) = FamilyOf(g)
                                        /\ SideBySide(kids, FamilyOf(f))
                                        /\ run.label[f].index > run.label[g].index)

\* The folder of a process, or the one it was lifted into.
Home(p) == IF p \in DOMAIN folder THEN p ELSE run.parent[p]

\* At every step of the tidying, what a calculation wrote itself is under the
\* folder that stands for it, under the name it gave it.
OwnFilesStay ==
    \A p \in Steps : \A f \in RawFiles(run, p) :
       f.node = "own" /\ (f.content = "log" => run.kind[p] = "failed") =>
          Home(p) \in DOMAIN folder /\ \E g \in files :
             g.at = Home(p) /\ g.dir = f.dir /\ g.entry = f.entry /\ g.node = "own"

\* In the end every value that a calculation made or a workflow returns has a
\* file that is no link, unless it is empty.
ValuesSurvive ==
    pc = "done" /\ run.value # "empty"
    /\ ((run.creator # 0 /\ IsCalcJob(run.creator)) \/ \E p \in Steps : run.returns[p] # "no")
    => \E f \in files : f.node = "data" /\ f.to = <<>>

\* Nothing with content is lost: not what a calculation wrote, nor a value.
ContentSurvives == OwnFilesStay /\ ValuesSurvive

\* Every link leads to a real file with the same content of the same node, and
\* to the one under the outputs of who made it if there is one there.
LinksResolve ==
    pc = "done" => \A f \in files : f.to # <<>> =>
       \E g \in files :
          /\ Where(g) = f.to /\ g.to = <<>> /\ g.node = f.node /\ g.content = f.content
          /\ f.node = "data" /\ f.content # "nested" /\ run.creator # 0
             /\ (run.creator \in DOMAIN folder \/ IsCalcJob(run.creator))
             => g.dir = "outputs" /\ g.at = Home(run.creator)
==============================================================================
