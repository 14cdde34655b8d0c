# TLA+ models of koopmans

koopmans drives Koopmans-functional calculations through AiiDA. This directory
holds TLA+ models of the parts of it where order, concurrency and failure
matter, the TLC runs that check them on small instances, and TLAPS proofs of
what holds for every instance. Paths below are relative to
`src/src/koopmans/`.

`PROJECT.json` lists the components, the runs, for each property a mutated
definition that breaks it, the source lines of each definition, the findings,
the hazards and the theorems.

## The system

koopmans is a set of short-lived commands around long-lived things: the AiiDA
database and daemon, a HyperQueue server and worker, and files next to the
user's input file. Commands do not talk to one another. They meet in those
things, from separate operating-system processes, each of which can be killed
at any step.

| Component | State | Operations | What is hard | What makes it correct |
|---|---|---|---|---|
| Anchor file (`aiida/anchor.py`) | `<stem>.run.yaml`, its lock file, temporary files | `record_submission`, `append_anchor_entry`, `read_anchor_entries` | whole-file read-modify-write by racing processes; a lock that survives its holder; hand edits | no entry lost or doubled; an error means no entry; append only; every append ends |
| Following commands (`cli.py`, `api.py`) | the process a command resolved, what it said, what it wrote | `run`, `submit`, `status`, `attach`, `fetch` | state read before and after a long wait; the daemon going its own way | a launched run can be found again; attach tells the whole outcome; fetch says what is partial |
| Results folder (`aiida/dumping.py`) | the folder `<stem>/` | `dump_workgraph` and its tidying passes | nothing is atomic; the user's own files; remains of a killed dump | the user's folder is left alone; a written tree is whole and of one process |
| Tidying passes (`aiida/dumping.py`) | names and places of step folders, the record of what was placed where | simplify, list, prune, renumber, hoist, link | renaming onto names in use; a record that goes stale with every move | no content lost; no folder lands in another; numbers dense and in the order of the run; links lead to the maker's copy |
| Code registry (`aiida/setup/codes.py`, `orchestrate.py`) | code nodes, their labels and extras | register, force, migrate, retire, discard | several database operations per replacement; overlapping installs | a label resolves to one code; nothing in use is deleted; no needless replacement |
| HyperQueue (`aiida/setup/hq.py`) | server, workers, pid files, server directory | start, stop, restart, ensure | a timeout read as "not running"; late registration | at most one worker; a running server keeps its directory; a restart keeps the pool |
| Daemon (`aiida/setup/daemon.py`) | daemon on or off, its options | start, stop, ensure | options stored for a daemon already running | a launch finds a daemon |
| Install, profile, computer (`aiida/setup/orchestrate.py`, `profile.py`, `computer.py`) | profile, computer, codes, pseudopotentials | install, uninstall | a step that fails half-way | a second install finishes the first; uninstall leaves nothing behind |
| Progress table (`aiida/progress.py`, `labels.py`) | the rows on the screen | build rows, watch | a tree read node by node while it grows | rows do not vanish; numbers are unique; a paused descendant shows; the last table is final |
| Dispatch and advisories (`aiida/workflows/__init__.py`) | none | `build_workgraph`, `advisories_for`, `advice_for` | two readings of one input, by different rules | what a notice says is true of the graph that is built; doing as told helps |
| Workflows (`aiida/workflows/*.py`) | a task graph and its inputs | build a graph | guards and defaults spread over the routes | a path is served; the mesh of each step is the announced one |
| Blocks, projectors, grouping | none | band ranges, groups | off-by-one in ranges; two sources for the number of bands | blocks tile the bands the nscf runs |
| Input schema, conversion | none | validate, resolve, convert | keywords that interact; several readings of one directive | codes get what was stated, once, and only what their computer takes |
| Pseudopotentials (`aiida/setup/pseudos/`) | families in the database | install | one of several failing | a family is whole or absent |
| Plot commands and plotting | none | pair options with folders, resolve, draw | options bound by position | each folder gets its own options |
| Generated keyword models, debugging, version | none | | | |

## Modules

| Module | Stands for |
|---|---|
| `SubmissionLog` | what the anchor promises: an atomic append and a truthful answer |
| `Anchor` | the anchor file and the commands that append to it |
| `Tracking` | `run`, `submit`, `status`, `attach`, `fetch` around the anchor; EXTENDS `Anchor` |
| `DumpFolder` | the life cycle of the results folder |
| `CodeRegistry` | one code label and the installs that replace the code behind it |
| `HqBackend` | the HyperQueue server and worker and the commands that start and stop them |
| `FamilyOrder` | the rule by which siblings are put in reading order, which the folder and the table both follow |
| `ProgressTable` | the live table, built from a tree that grows while it is read; EXTENDS `FamilyOrder` |
| `DumpTree` | the passes that tidy a dumped tree, move by move; EXTENDS `FamilyOrder` |
| `Kpoints` | the k-point sampling of each step |
| `Blocks` | the band ranges of projection blocks |
| `InputFile` | the keywords, their resolution and what reading refuses; EXTENDS `Kpoints` |
| `Routes` | the guards of each task and the graph it builds; EXTENDS `InputFile`, `Blocks` |
| `Advisories` | the notices; EXTENDS `Routes` |
| `InputRun` | an input file edited, read, built, advised, launched, and run again; EXTENDS `Advisories` |
| `MC...` | constants for TLC |
| `TrackingProofs` | proofs about `Anchor` and `Tracking` |
| `DumpFolderProofs`, `CodeRegistryProofs`, `HqBackendProofs`, `ProgressTableProofs`, `DumpTreeProofs`, `InputRunProofs` | proofs about the module of that name |
| `FiniteOrders` | facts about numbers, finite orders and the reading order that several proofs need |

`Mutant:` in a comment marks a definition that no specification uses: it is a
definition as a plausible mistake would have it, kept to show that the property
named in `PROJECT.json` notices the mistake.

### Anchor

A `Submission` is one invocation of `run` or `submit`. Its `pc` walks through
the calls: `build` (not launched), `launched` (`launch` has returned), `waiting`
(in `_acquire_lock`), `locked`, `read` (the list is in `entries`), `temp` (the
temporary file is written), `releasing` (the `finally`), and an end: `done`,
`failed` (with the exception in `error`) or `killed`. `Critical` is the stretch
under the lock file. The anchor is a sequence of submissions and a flag that
says whether the file parses; the clock of `_acquire_lock` is abstracted to the
choice between `Acquire` and `TimeOut` whenever the lock is there. `Interrupt`
is Ctrl-C inside the critical stretch, where the `except BaseException` and the
`finally` run; anywhere else Ctrl-C is a `Kill`. The user may edit the file and
may delete the lock, which the TimeoutError tells them to do "if an earlier
`koopmans submit` crashed while holding it". `CarefulUser` says whether they
check that condition first.

With `CarefulUser = FALSE` mutual exclusion fails, as anyone would expect: a
second writer takes the lock, and the first one's `finally` then removes it.
That is the user's doing and not listed as a finding.

### Tracking

Adds the daemon, the state of each root process in the database, and what each
command resolved (`target`), last read (`view`), wrote (`tree`) and said
(`said`). Commands that read resolve the newest entry once, without the lock.
The results folder belongs to all commands: `foreign` says that it holds something
and not the marker of a dump, which the user may bring about and undo at any time,
and `_dump_results` then ends the command with an error (`RefuseFolder`).
`Observe` lets a read return the state seen before, since AiiDA's session cache
may lag (`progress._reload` says so); `watch_process` reloads, so its loop ends
on the true state. A process the daemon has accepted finishes only while the
daemon is on; nothing forces it to. Targets given by `--uuid` or `--pk` read no
anchor and are left out.

### DumpFolder

The folder is a set of items: the root's metadata file (the marker by which
`dump_workgraph` knows its own folders), the step folders of a process as AiiDA
writes them or as tidied, and files of the user. Deletion and writing take one
item at a time in any order; a kill may come at any point and, while tidying,
leave a mixture. Two dumps to one folder at the same time are not modelled.

### CodeRegistry

Code nodes are numbered by pk and carry a label, a mode (what
`effective_with_mpi` says) and the extra `replaced`. A label is the original one
with the list of suffixes it was retired with. Each install chooses its options
and what it finds (`Args`), scans, and then registers, migrates or replaces in
the separate database operations of `_replace_code`: store, mark, find a free
label, relabel; any of the last three may fail and lead to the discard. Two
commands may overlap, may be killed, the discard may fail, and a lookup may fail,
where a run's `Faults` say so. A lookup that fails is an answer: `code_exists` says
"absent" (`CodeExists`), and the caller goes on from there. `blind` remembers, for a
property only, that a code was stored after such an answer beside one that was
there.

### HqBackend

A command knows what runs by asking `hq`, one call per step. The states are the
server processes, the server directory with the record of one of them, the
server's pid file (a SIGTERM goes to the process it names), and the worker
processes: `starting`, `up`, `stopping`, each with the server it found through
the directory and its CPU pool. All of these come up, fail, ignore a stop and
die on their own; a server takes its workers with it, as HyperQueue's workers do
when they lose theirs. The user may start servers and workers by hand between
commands. `had` and `missed` serve properties only: the pool a bare restart began
with, and the running servers that a command has asked without an answer, or told
to end in vain. Polling is a look that may be repeated until the
process has come up or failed. `Faults` are what the commands do not withstand: a
call that times out and counts as "nothing there" (`timeout`), a server that does
not end when told to (`deaf`), a process that comes up after the polling is over
(`late`), a command killed before what it started has come up (`kill`), a user who
starts servers and workers during a command (`hand`), and, with two members in
`Command`, commands at the same time. `ServerKeepsItsDirectory` holds under the first
two, which is proved (and TLC, given those faults and two workers, agrees over 1.0
million states). The other safety properties need a run without any: with one fault
of any kind TLC refutes each of them. A list
that fails hides the pool of a worker, a server that does not answer or does not end
is taken for none, and the smallest case is a start that gives up on a slow worker,
and the start that follows it.

### ProgressTable

The daemon creates processes under running workflows and moves them on at any
time. `watch_process` loads the root (`load`), reads the tree one node per step
(`read`), parents before children and the children of a node as they are at that
moment, builds the table from what it has `seen`, and stops after the table it
draws once the root it loaded had ended. A process has a role, which is what
`describe_label` makes of its label: `plain`, `transparent` (a container that
has no row), `numbered`, `leaf` (a calculation) or `function`. A label is its
text with the digits masked, the family, and one number. Failing reads of the
database, the drawing, and what is printed after the last table are left out.

`FamilyOrder` holds the one rule both copies of the code follow:
`DisplayOrder` sorts a fan-out (siblings of one family with distinct numbers and
nothing else called between them) by number and leaves the rest as created. What
a family is differs: the table goes by the label of a step, the renumbering by what
is in the folder's name at that point, which is the label and the class of the
process (`LabelRead`). A fan-out of one label and two classes is one family in the
table and two in the folder.

### DumpTree

The initial states are all runs of up to `MaxSteps` processes with one data node
and every way it can be made, read and returned, dumped the way AiiDA dumps them.
A folder is identified by the process it was dumped for and has a place and a
name; files say where they are and what they hold. Each pass fills `todo` with
visits in the order of the code, one step does one of them, and
`placed` is the record that every pass has to keep current. `Moved` is
`shutil.move`, which puts a folder inside another of the target's name. One data
node is enough to tell the copies of a value apart, since the passes treat nodes
separately.

### InputFile, Kpoints, Blocks, Routes, Advisories, InputRun

A file is a record with the keywords that the routes, guards and notices tell
apart, abstracted to the values that matter. `ParseRefusals` are the complaints
of reading: those of the blocks together, as pydantic collects them, then the
first of those across blocks. `Parse` resolves what depends on other keywords.
`Schema` is the set of values each keyword may have, and a file is `WellFormed`
if its keywords are the ones of the schema with such values. A route of `Routes`
is a chain of its guards in the order the code reaches them (`When(condition,
complaint)`, joined by `||`, which keeps the first complaint), and the graph it
passes to `aiida-koopmans` when none holds: its entry
point, its meshes, paths, bands, blocks, codes and the keywords it forwards. The
site is what the user's installation adds: codes, computers, pseudopotentials
and the electron count. `Advisories` translates each notice from the parsed file
alone, as the code does.

`InputRun` is the user and one command at a time: edits, reading, building,
advising (the command line only; the Python API goes from `built` to `launched`),
launching. `HeedRefusal` and `HeedNotice` do what a message spells out and run
the file again; the remedies are triples `<<complaint, keyword, value>>`, read
off the messages. `ConsumesEpsInf` and `RunsDielectricStep` are external: they say
what the graphs do with the inputs, in the words of the code that builds them.

The two readings of the parallelization directives are two definitions: `AsMapping`
is the mapping every graph is given, `CodeParallelization` what the overrides of
the pw.x steps are seeded with. What a graph makes of the mapping for a pw.x step
that it assembles itself is `DirectivesOfMapping`, external.

What the properties leave out, since the code does not keep it (see Findings):

- `NoticesAreTrue`: what a kcp.x singlepoint with `calculate_alpha` off is told of
  `eps_inf` and of a `dielectric` entry, which is false (`EpsInfNoticeIsTrue`).
- `DielectricMeshIsNamed`: the same files (`ScreensRegardless`). With
  `eps_inf: auto` the code runs the dielectric step for them (`dscf.py:123`, `354`)
  and names no mesh, because it takes the step for skipped.
- `InertEntriesAreNoticed`: a `dielectric` entry of a bse run with
  `calculate_alpha` off.
- `BlocksTileTheBands`: the DFPT and bse routes with two band counts stated; and a
  graph that is told no band count for its nscf is held to blocks laid over one
  count, since there is none to compare it with.
- `HeedingRetires` follows one message. Refusals that send the user to and fro need
  two, and one such pair exists (dscf with non-collinear spin and kipz, under Findings).

## Runs

| Run | Instance | Shows |
|---|---|---|
| `anchor_appends` | 3 submissions, one of which may have no stored node, careful user | all safety properties of `Anchor`, the refinement of `SubmissionLog`, and that every append ends; the only run with a type invariant |
| `tracking_safety` | 2 submissions of either verb, 1 reader of any command, a folder that may be foreign | a run is findable; attach tells the whole outcome, or that it was refused the folder |
| `tracking_liveness` | 1 submission, 1 reader | whoever watches a terminated process ends |
| `tracking_submit_uuid` | 2 submissions, 1 reader | finding: `submit` swallows the uuid when the anchor is malformed |
| `dump_folder_writes` | 3 processes, kills, a user with files | a written tree is whole; the user's folder survives |
| `code_registry_alone` | successive installs, 5 code nodes, failures of lookups and of the retirement | one live code after each install, exact undoing, no needless replacement, nothing in use deleted |
| `code_registry_overlap` | 2 overlapping installs, 3 code nodes, kills, failing undo | the label never loses its last code |
| `hq_backend_commands` | 1 terminal, 2 servers, 3 workers, pools of 2, 5 and by default 4 CPUs, no faults | koopmans runs one worker, keeps its pool and the directory of its server, leaves nothing behind; its commands end |
| `progress_table` | trees of 4 processes of every role, 3 labels (two of one family), pauses and failures | rows stay, are told apart, read as the run went and show a pause; the last table is final |
| `dump_tree` | every run of 4 processes, 2 labels that differ in their number and steps of three classes (so siblings of up to three families), both ways of returning the value | folders keep their place and read as the run went; no content is lost; links resolve |
| `input_routes` | 21 drafts over all routes, any 2 keywords or site properties changed, one message heeded | notices and graphs agree; the graph is coherent; doing as told helps |
| `eps_inf_notice` | the same | finding: the notice on `eps_inf` is false on kcp.x with `calculate_alpha` off |

Bounds. Two submissions make every race of a read-modify-write; the third
adds a writer that comes after a lost update or a stale lock, and a list long
enough for order and position to matter. One reader suffices for properties of
one reader's view, since readers change nothing the others see but their own
folder. Five code nodes allow two retirements with each suffix, so the counter
of `retire_code` reaches 2; two installs overlap with three nodes, which is one
registered code and a replacement by each. In the overlapping run all binaries
want MPI, because the mode only decides whether a migration replaces. A store
beyond `MaxCodes` fails like a database that refuses. Symmetry over submissions
and installs is used only in runs without liveness.

Two servers are one that runs and one that replaces it; three workers are two
that somebody arranged and one more, and a bare restart is told from a resized
one by pools that differ from the default.

Four processes are a workflow, two siblings and something between or beneath them,
which is the least that a fan-out, an interruption of it, a nested container and a
hoist need; the third label of `progress_table` is the sibling that breaks a
fan-out. In `dump_tree` a sibling of another class does, since there the class of a
step is part of its family. In `input_routes`, `MaxEdits = 2` reaches every pair of
keywords around each draft, and every notice and all but a few of the refusals read
at most two keywords beyond those of the draft that leads to them; meshes have two
directions, so that "some" differs from "every". The values in `MCInputRun` are
those the conditions of the code tell apart.

Type invariants: `TypeOK` is checked in `anchor_appends` and proved.
`DumpTypeOK` is proved, and no longer checked. The others would say that a
variable has its type and nothing more, so no run spends time on them.

Deadlock is checked in the runs of `HqBackend`, `CodeRegistry` and `DumpFolder`,
where there is always something to do. It is off where the system really stops:
around the anchor, when all commands have ended; in `progress_table` and
`dump_tree`, after the last table and the last pass; in `input_routes`, once the
calculation is launched or the command has refused in a way no message helps.

Fairness. `Anchor!FairSpec` and `TrackFairSpec` assume that a command that is not
killed is scheduled. Nothing is assumed of the user, of the daemon or of the process
it computes: `AppendReturns` holds because of the deadline alone, `WatchersEnd`
starts only once the process has terminated. `RegFairSpec` assumes the same of an
install, which waits for nothing. `HqFairSpec` assumes it of each command, and that
a process that is starting comes up or fails; this is what not being late means.

## Findings

Two runs show a disagreement between the code and what it says of itself:

- `tracking_submit_uuid`. `submit` (`cli.py:248`): on a malformed anchor file
  the job is in the daemon, nothing is recorded, and the message is the
  parser's. `run`, and `submit` on an OSError, print the uuid.
- `eps_inf_notice`. `advisories_for` (`workflows/__init__.py:908`): with
  `calculate_alpha: false` a singlepoint is told that `eps_inf` has no effect
  because screening is skipped. Only the DFPT route reads `calculate_alpha`; the
  kcp.x route screens all the same, with that constant. With `eps_inf: auto` it
  also runs the dielectric step, on a mesh no notice names.

Observations made while modelling, without a run of their own:

- `append_anchor_entry` (`anchor.py:195`): "newest last" holds only for
  submissions that do not overlap.
- `fetch` (`cli.py:440`): the state that decides the message is read after the
  dump it describes.
- `dump_workgraph` (`dumping.py:1199`) knows its own folders by the root's metadata
  file, which `rmtree` may delete first and a dump may write last. Killed in either,
  a dump leaves a folder that all later ones refuse: it "exists and was not written
  by koopmans".
- `code_exists` (`codes.py:378`) answers "absent" for every error but that of two
  codes, although its docstring says that "every caller here answers "absent" by
  storing another code under that label": with `"lookup"` among the `Faults`, a label
  may end with two codes, which is the case `OneLiveCode` exempts (`blind`).
- `start_hq_server` (`hq.py:314`) removes "stale state from a prior crashed server";
  a call that times out after five seconds makes a busy server such a one. It goes on
  running where nobody finds it: the case `ServerKeepsItsDirectory` exempts (`missed`).
- `hq stop` and `hq restart` "will not" act on "several at once" (`cli.py:743`), but
  the count and the stop are two calls, and the second names no worker: one that is
  added by hand in between is stopped too, and a first list that fails does the same.
- `stop_hq_server` (`hq.py:341`) gives a server that does not end up, and the uninstall
  goes on as if it had ended.
- `start_hq_worker` (`hq.py:403`): a start that gives up does not end what it
  started, and the next start adds a second worker, which koopmans then refuses
  to stop or restart.
- `setup_code` promises exactly one node with the label after a failed
  replacement. `FailedReplacementLeavesOne` holds in `code_registry_alone`; it
  needs the deletion of the replacement to succeed, which `_discard_code` only
  tries (with `"discard"` among the `Faults` it fails).
- `wannierize.py:335`: on a gamma-only grid a threshold passes the guard that
  asks for a path, although no path is passed.
- `_band_path.py:58`: "an input the task refuses outright must hear that refusal
  instead"; with snapshots or a molecule a path is refused first, and the task
  then refuses the correction or the spinors.
- `predict_no_trial_advisories` names `group_by` when only the tolerance is
  written.
- DFPT (`dfpt.py`): the manifolds take the number of bands from `nbnd` and then
  from the pw.x namelist, the pw.x parameters the other way round; with both
  stated, blocks and nscf may disagree.
- A gamma-only kcp.x run with `eps_inf: auto` is advised to add
  `kpoints.overrides.dielectric`, which gamma-only ignores.
- A bse run with `calculate_alpha: false` gets no notice for `eps_inf` or for a
  `dielectric` entry, although no screening runs.
- With snapshots, the notice on a `dielectric` entry keeps it for
  `eps_inf: auto`, which snapshots refuse.
- dscf with non-collinear spin and kipz: the refusals of one formalism send the
  user to the other, and back.

## Proofs

`TrackingProofs` proves, of the anchor file and for any set of submissions:

| Theorem | States |
|---|---|
| `TypeCorrect` | `Spec => []TypeOK` |
| `LockExcludes` | `Spec => []MutualExclusion` |
| `NoStaleRead` | `Spec => []FreshRead` |
| `NoEntryLost` | `Spec => []NothingLost` |
| `ErrorsWriteNothing` | `Spec => []FailureLeavesNoEntry` |
| `EntriesAppendOnly` | `Spec => AppendOnly` |
| `ImplementsLog` | `Spec => Implements` |

All but the first assume `CarefulUser`; without it they are false.

The inductive invariant is
`IInv == TypeOK /\ MutualExclusion /\ FreshRead /\ EntryMatchesStep /\ NoDuplicates`.
Mutual exclusion alone is inductive given the careful user. The freshness of a
read needs it: another's `Replace` would make the read stale. That a success
means an entry needs `EntryMatchesStep`, which ties the presence of the entry to
the step and the error of its writer: absent before `Replace`, present after a
release without error, absent after one with an error other than an interrupt.
`NoDuplicates` needs the same fact about the step before `Replace`. The
refinement maps `Replace` to `Record`, a `Release` without error to `Confirm`,
each way of failing to `Refuse`, and everything else to a stutter; the mapped
outcome of a killed or interrupted command is "none", whether its entry is in
the file or not.

On top of it, `TrackingProofs` proves, for any submissions and readers, with a careful user:

| Theorem | States |
|---|---|
| `RunsAreFindable` | `TrackSpec => []RunIsFindable` |
| `AttachIsComplete` | `TrackSpec => []AttachTellsAll` |

`TrackInv` is `IInv` of the anchor, the types, and two facts about a reader. A
step of `Tracking` is a step of `Anchor` or leaves it alone
(`TrackStepIsAnchorStep`), so `IInv` needs no second proof, and an entry once in
the file stays (`EntriesStay`), which keeps a run findable. What a reader
resolved to was launched before (`Resolved`), so its process can only end. An
attach that is refused the folder ends there, with nothing written and an error
said. Any other goes past the watching only when the process has ended
(`AttachHasSeenTheEnd`); what it reads from then on cannot be out of date.

`DumpFolderProofs` proves, for any processes, user files and user behaviour:

| Theorem | States |
|---|---|
| `DumpTypeCorrect` | `DumpSpec => []DumpTypeOK` |
| `WrittenIsWhole` | `DumpSpec => []WrittenTreeIsWhole` |
| `OneProcess` | `DumpSpec => []OneProcessAtATime` |
| `UserFolderSafe` | `DumpSpec => UserFolderUntouched` |

The invariant `DumpInv` adds to these what holds during a dump
(`DumpInProgress`: the folder is not the user's and nothing is reported yet;
once the old tree is deleted only the process being dumped is there; once the
writing is over all of it is), and that a folder the user made holds their files
and no marker (`TheirsIsForeign`). A written tree is whole because of the first;
the user's folder is untouched because a dump is never accepted into one.

`CodeRegistryProofs` proves `LabelIsKept`, that is `RegSpec =>
LabelNeverVanishes`, for any number of overlapping installs, with kills and
every fault. A discard removes a node that carries the label, and a relabelling
takes the label from one, so the invariant has to say that another node keeps
it. `RegInv` calls a replacement pending as long as its install may still
discard it, and says: a pending replacement carries the label, belongs to one
install, and is superseded by nobody (`ReplacementsAreLive`); an install
supersedes nothing before its scan is over (`NothingSupersededYet`); and as soon
as any node carries the label, or any install has found a code to supersede, a
node that is not pending carries it (`SettledCode`). `StoreStep`, `MarkStep`,
`RelabelStep` and `DiscardStep` say what each operation of `_replace_code` does
to the settled code.

Its second part proves the rest of the safety of `CodeRegistry` under the
assumptions of the run `code_registry_alone`: one install at a time
(`Install = {c}`), any number in succession, not killed and with discards that
succeed (`Faults \subseteq {"lookup"}`); any options, any bound on nodes, and any
failure of a lookup, of the store and of `retire_code`:

| Theorem | States |
|---|---|
| `LabelResolves` | `RegSpec => []OneLiveCode` |
| `FailureIsUndone` | `RegSpec => []FailedReplacementLeavesOne` |
| `NoCodeOrphaned` | `RegSpec => NoNeedlessReplacement` |
| `DeletedWasUnused` | `RegSpec => OnlyUnusedCodesDeleted` |

`AloneInv` adds to `RegInv` what holds the label at each step (`HoldersByStep`: one
node or none up to the store, unless `blind`; when one is superseded that one alone,
however many lookups have failed, since it was found; then the superseded one and a
newer one, then the newer one), and that the reason for superseding a code, given
when it was found, is still there when its label is taken (`SupersededForCause`).

`HqBackendProofs` proves the safety properties of `HqBackend` under the
faults below, for any number of servers, workers, pools and commands
in succession, one at a time (`Command = {c}`), with processes that fail to start,
die, and are added by hand between commands:

| Theorem | States | `Faults` |
|---|---|---|
| `ServerReachable` | `HqSpec => []ServerKeepsItsDirectory` | `{"timeout", "deaf"}` or fewer |
| `SingleWorker` | `HqSpec => []SeveralAreByHand` | none |
| `PoolIsKept` | `HqSpec => RestartKeepsPool` | none |
| `UninstallIsComplete` | `HqSpec => UninstallLeavesNothing` | none |

`ServersByStep` says where a server can come up: only while its command waits for
it, alone. It holds with calls that time out and servers that do not end, and
alone carries `ServerReachable`. `HqInv` adds that a worker comes up likewise and
never beyond its server (`WorkersByStep`). So what lives answers
(`WhatLivesAnswers`), a command that sees nothing is right, and between its look
and its act nothing is added. `PoolByStep` follows the one worker, and its pool,
from look to look. Counts of workers are turned into statements
about any two of them once, in `Counting`.

`ProgressTableProofs` proves what the table shows, for trees of any size, any labels
and any mixture of roles, read while the daemon goes on:

| Theorem | States |
|---|---|
| `TableInvariant` | `TableSpec => []TableInv` |
| `RowsNeverLeave` | `TableSpec => RowsStay` |
| `NumbersAlwaysTellApart` | `TableSpec => []NumbersTellApart` |
| `RowsAlwaysReadAsRun` | `TableSpec => []RowsReadAsRun` |
| `PauseAlwaysShows` | `TableSpec => []PausedShows` |
| `LastTableIsAlwaysFinal` | `TableSpec => []LastTableIsFinal` |

The first half is about one table. `_collect_rows` is recursive over the tree, so
what is true of its rows is shown by induction from the process created last to the
root: the rows for the part `U` of the tree under a process are a `Forest`, that is,
each process of `U` is on the line it should be on (`Places`), and the lines have
the depths, numbers, order and states they should (`Apart`, `Numbers`, `InRunOrder`,
`Tells`). A forest stays one when the forests of the children are put one behind the
other (`ForestsInARow`), when its siblings are numbered (`SiblingsAreNumbered`), when
a row is put above it or in the place of its only chain (`RowAboveOthers`), and when
its caller is passed over (`PassedOverIsAForest`). "Under" is the least set closed
under being called, a definition without recursion. The order is that of
`ReadingOrder` again. A pause reaches its line because nothing is lent upwards as
over (`NothingDeadIsLent`), and `paused` is the most advanced of what is
(`PausedIsMostAdvanced`).

The second half is about the walk. Which processes have a row depends on who called
whom and on the roles, neither of which changes, and with more processes it only
grows (`StayGrows`): a process that is called later has a line of its own, or is on
the line of its caller, or takes a chain apart, which gives lines to its members. So
rows stay if each walk reads at least what the table on the screen shows. That is
`Reaches` in the invariant `TableInv`: whatever is on the screen is found by the time
the children of its caller are noted, and a walk with nothing left to visit has read
all it found (`WalkReadsAll`). `Walk` adds that what was over when it was read is
over, with all that it had called, and that a walk begun after the root had ended
reads the tree as it is; hence the last table. TLC found
`TableInv` to hold for four processes and two labels (1.66 million states) before it
was proved.

`DumpTreeProofs` proves what the passes make of the folders and of the files in
them, for runs with any number of processes and any labels:

| Theorem | States |
|---|---|
| `FoldersStay` | `TreeSpec => []FoldersKeepTheirPlace` |
| `FoldersRead` | `TreeSpec => []FoldersReadAsRun` |
| `ContentIsKept` | `TreeSpec => []ContentSurvives` (`OwnFilesStay` and `ValuesSurvive`) |
| `LinksLead` | `TreeSpec => []LinksResolve` |

For the folders, the hard pass is the renumbering. A folder ends up inside another
if it is moved to a name that is taken, so each move has to go to a free name,
although most numbers are taken by folders that are themselves still to be renamed.
`Due` is the number a folder has, or is about to have if `todo` names it, and the
invariant `TreeInv` says that no two folders of a folder have the same one; that a
folder out of the way has the number it is due in its `.tidy-` name, which no other
has then; and that once none in a folder is left to be parked, each that waits is
out of the way or has its final name already (`NumbersDue`). So a `.tidy-` name is
free when a folder goes there (`ParkKeepsTreeInv`), and a final one when it comes
back (`RenumberKeepsTreeInv`). What lies beneath a folder that waits is as it was
called, and is listed in that order when its turn comes; the folders in any other
read as the run went by the numbers they are due (`Reached`). That the reading order
names each folder once, and puts one before an earlier one only within a fan-out, is
`ReadingOrder` (`FiniteOrders`): the rank of a member among the members, by number,
is what `MemberAt` asks for, and each rank is taken once. The later passes change no
number, and hoisting removes the only folder of a folder.

The files have an invariant of their own, `FilesInv` (`FilesInvHolds`), which TLC
found to hold on the instance of `DumpTree.cfg` before it was proved. The record
of placed files knows a file by its path, the model by its folder, so the first
part of the argument is about paths: where the folders form a tree and those of a
folder differ in name, as `TreeInv` has it, no two folders have the same path
(`PathsDiffer`), a path is a prefix of another just if its folder is above the
other's (`PrefixIsAbove`), and the move of a folder changes exactly the paths
beneath it, in the way `_PlacedFiles.moved` rebases its entries (`MovedPaths`,
`RecordsMove`). So a move that is reported keeps `Recorded`: every record has its
file, every listed file its record, and what is recorded as made there lies under
the outputs of who made it. Pruning drops the records of the folders that go with
the folders (`PruneKeepsFiles`), and what goes with them is no calculation's
own file and no output: of values, only those a step was given. A folder that holds
more, or is above one that does, is kept (`KeptAbove`).

Hoisting is the pass that needs most. A folder that a calculation was lifted into
has inputs and outputs like a calculation's (`Raised`), so it would be taken for one
and lifted again, into a folder that `Home` does not name. That the visits go
downwards excludes it, and `Lifting` says so: no folder is to be visited twice, and
of those that are to be visited, or are beneath one that is, none has been lifted
into. Since the folder that receives a calculation holds no file of its own, no
name is taken twice (`Tidy`). At the end
`_link_duplicate_files` meets records and files that agree (`PlacesTell`), so the
path a link is given is that of a real file of the same group, and the one of who
made the value sorts first, if it has one (`LinkKeepsFiles`).

`InputRunProofs` proves, for any drafts, any values of the keywords that the
schema allows, any site and any number of edits:

| Theorem | States |
|---|---|
| `StagesAreConsistent` | `Spec => []Inv` |
| `PathsAreServed` | `Spec => []PathIsServed` |
| `OptionsAreHonoured` | `Spec => []DirectivesAreHonoured` |
| `DielectricMeshesAreNamed` | `Spec => []DielectricMeshIsNamed` |
| `BlocksTile` | `Spec => []BlocksTileTheBands` |
| `NoticesAreAlwaysTrue` | `Spec => []NoticesAreTrue` |

The inductive invariant is `Inv == Typed /\ Staged`. `Typed` says that the file is
well-formed, which every edit keeps because it takes its value from the schema, and
every remedy because what a message tells the user to write is a value of the
keyword it names (`RemediesAreWellFormed`). `Staged` says what each stage has
established: a parsed input is `Parse` of the file on disk, a file was only parsed
when reading had no complaint, and a graph is the one `Build` makes of that input on
that site. With it each property is a statement about one well-formed file that no
guard refuses, and is proved route by route. For the directives that means field by
field: which of the two readings a field reaches, and which codes may have it. The
tiling needs an induction over the number of blocks: the band where a block begins
is a recursive function of its position (`Cursor`). The induction is stated over
sets of numbers (`Counting` of `FiniteOrders`), which the provers can use where they
cannot use a rule that takes an operator: a set of numbers that holds 0, and n + 1
with n, holds every number.

That a notice is true is a statement about two files, the one on disk and the
same without what the notice is about. `NoticeKinds` says what the file is like
when a notice of each kind is printed. `WithoutIt` says what leaving its keyword
out does: the shorter file is still read without complaint
(`NothingNewIsMisread`), and once both are parsed it is in the relation
`LacksIdle` to the first, which names, for each keyword, the routes on which the
two may disagree about it. The resolution of the grouping is taken again here,
since it reads the formalism and both grouping keywords. Two files so related are
refused alike (`NothingNewIsRefused`, guard by guard) and build graphs that are
equal but for the dielectric constant and its mesh (`AlikeElse`), in which they
may differ only where nothing of the calculation reads them
(`IdleEpsIsIgnored`, `RunsTheSame`). One case goes the other way: a notice that
a single-point run makes no Wannierization is right about a file that names a
path because no such file is left by then (`PathsAreOfWannierRuns`), its path
having been refused on reading or its initial orbitals on building.

Only model-checked: the liveness properties, which are out of the prover's
reach with their fairness; `SubmissionIsFindable` and `EpsInfNoticeIsTrue`, which
their runs refute; `InertEntriesAreNoticed` and `HeedingRetires`, which hold for
the values of their run and not for all the schema allows: an entry that states
what the step would sample anyway is inert and no notice says so, and a file may
have a second reason to be refused that no remedy lifts.

## Not modelled

Clocks (a timeout is a choice); the deletion of the anchor by the user, which
is an empty list again; a failing `unlink` of the lock; threads that share a
temporary file name, which `mkstemp` excludes; two dumps to one folder; a
process deleted from the database; in the table, the failure summary, the hint
on paused processes and the drawing; in the tidied tree, the copy of a trained
`model.json`; in the input, types and ranges of single keywords, units,
geometries and the contents of namelists that no route reads. The components
marked `not_modelled`: install and uninstall (get-or-create steps, of which
those that replace or delete are `CodeRegistry` and `HqBackend`),
pseudopotentials (downloads into a group), the plot commands and plotting
(finished results drawn, no state), the generated keyword models, the debugging
hook and the version.

## Plan

1. `Install`: the steps of install and uninstall with failures between them, the
   daemon and its caching option, using `CodeRegistry` and `HqBackend` as they
   promise to behave.
2. `Pairing`: the options of the plot commands against the folder they follow;
   `MpiDecision`: the evidence rules of `decide_with_mpi`.
3. Proofs: that a free label exists (`CodeRegistry`), which needs a counting argument.
