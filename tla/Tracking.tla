------------------------------ MODULE Tracking -------------------------------
(***************************************************************************)
(* The commands around the anchor file (koopmans/cli.py, api.launch,       *)
(* progress.watch_process): `run` and `submit` launch a calculation and    *)
(* record it; `status`, `attach` and `fetch` find the newest one again,    *)
(* show it, wait for it, and write its results. The daemon computes on its *)
(* own account, whether or not anybody watches.                            *)
(***************************************************************************)
EXTENDS Anchor

CONSTANTS Reader,          \* invocations of `status`, `attach` and `fetch`
          Verbs, Commands, \* the commands an instance considers
          NoTarget         \* not a submission

ASSUME NoTargetAssumption == NoTarget \notin Submission
ASSUME ReaderAssumption == Reader \cap Submission = {}
ASSUME CommandsAssumption ==
    Verbs \subseteq {"run", "submit"} /\ Commands \subseteq {"status", "attach", "fetch"}

VARIABLES
    verb,      \* the command of each submission: "run" or "submit"
    command,   \* the command of each reader
    daemon,    \* is the AiiDA daemon running?
    process,   \* the state of each submission's root process in the database
    told,      \* the submissions whose uuid their command printed
    at,        \* where each command is, once its submission is recorded
    target,    \* the process each command resolved to
    view,      \* the last state of it the command read
    tree,      \* what a command wrote into the results folder
    foreign,   \* has the folder something in it, and not the marker of a dump?
    said       \* what the command said last

trackVars == <<verb, command, daemon, process, told, at, target, view, tree, foreign, said>>

allVars == <<vars, trackVars>>

Actor == Submission \cup Reader

Terminated == {"ok", "failed"}

Stopped == {"exited", "killed"}

TrackInit ==
    /\ Init
    /\ verb \in [Submission -> Verbs]
    /\ command \in [Reader -> Commands]
    /\ daemon = FALSE
    /\ process = [s \in Submission |-> "absent"]
    /\ told = {}
    /\ at = [a \in Actor |-> "start"]
    /\ target = [a \in Actor |-> NoTarget]
    /\ view = [a \in Actor |-> "absent"]
    /\ tree = [a \in Actor |-> "none"]
    /\ foreign \in BOOLEAN
    /\ said = [a \in Actor |-> "nothing"]

Advance(a, place) == at' = [at EXCEPT ![a] = place]

Say(a, what) == said' = [said EXCEPT ![a] = what]

\* A command reads the state of its process. AiiDA keeps a node in a session
\* cache that the daemon's writes invalidate late: the read may be the last one.
Observe(a, state) ==
    /\ state \in {view[a], process[target[a]]}
    /\ view' = [view EXCEPT ![a] = state]

------------------------------------------------------------------------------
(* run and submit *)

\* ensure_daemon_running, then the workgraph is handed to the daemon.
LaunchProcess(s) ==
    /\ Launch(s)
    /\ daemon' = TRUE
    /\ process' = [process EXCEPT ![s] = "running"]
    /\ target' = [target EXCEPT ![s] = s]
    /\ view' = [view EXCEPT ![s] = "running"]
    /\ UNCHANGED <<verb, command, told, at, tree, foreign, said>>

\* ensure_daemon_running raises: the daemon does not start, nothing is launched.
DaemonRefuses(s) ==
    /\ pc[s] = "build"
    /\ ~daemon
    /\ Kill(s)
    /\ UNCHANGED trackVars

\* Mutant: `run` treats the errors as `submit` does.
HandsBackUuidIfOSError(s) == error[s] \in {"OSError", "TimeoutError"}

\* What is said of a submission that could not be recorded. `run` warns and
\* goes on; `submit` prints the uuid for an OSError (TimeoutError is one), and
\* for a ValueError only the error's own words.
HandsBackUuid(s) == verb[s] = "run" \/ error[s] \in {"OSError", "TimeoutError"}

\* Back from record_submission: `run` watches the process, `submit` is over.
AfterRecord(s) ==
    /\ at[s] = "start"
    /\ pc[s] \in {"done", "failed"}
    /\ told' = IF pc[s] = "failed" /\ HandsBackUuid(s) THEN told \cup {s} ELSE told
    /\ Advance(s, IF verb[s] = "run" THEN "watching" ELSE "exited")
    /\ Say(s, IF pc[s] = "failed" THEN "error" ELSE "nothing")
    /\ UNCHANGED <<vars, verb, command, daemon, process, target, view, tree, foreign>>

------------------------------------------------------------------------------
(* status, attach and fetch *)

\* resolve_run_target: a missing, empty or malformed anchor file is an error.
ResolveFails(r) ==
    /\ at[r] = "start"
    /\ anchor.entries = <<>> \/ ~anchor.valid
    /\ Advance(r, "exited")
    /\ Say(r, "error")
    /\ UNCHANGED <<vars, verb, command, daemon, process, told, target, view, tree, foreign>>

\* resolve_run_target reads the anchor once, without the lock; the newest entry
\* names the process to load. `attach` waits for it, `fetch` takes it as it is.
Resolve(r) ==
    /\ at[r] = "start"
    /\ anchor.entries # <<>> /\ anchor.valid
    /\ target' = [target EXCEPT ![r] = Last(anchor.entries)]
    /\ view' = [view EXCEPT ![r] = process[Last(anchor.entries)]]
    /\ Advance(r, CASE command[r] = "attach" -> "watching"
                    [] command[r] = "fetch" -> "dumping"
                    [] command[r] = "status" -> "exited")
    /\ Say(r, IF command[r] = "status" /\ process[Last(anchor.entries)] = "failed"
              THEN "failed" ELSE "nothing")
    /\ UNCHANGED <<vars, verb, command, daemon, process, told, tree, foreign>>

\* Mutants: one look at the process is enough; the loop needs a daemon.
WatchOnce(a) ==
    /\ at[a] = "watching"
    /\ view' = [view EXCEPT ![a] = process[target[a]]]
    /\ Advance(a, "dumping")
    /\ UNCHANGED <<vars, verb, command, daemon, process, told, target, tree, foreign, said>>

WatchEndsIfDaemon(a) ==
    /\ at[a] = "watching"
    /\ daemon
    /\ process[target[a]] \in Terminated
    /\ view' = [view EXCEPT ![a] = process[target[a]]]
    /\ Advance(a, "dumping")
    /\ UNCHANGED <<vars, verb, command, daemon, process, told, target, tree, foreign, said>>

\* watch_process: the loop ends when the process is seen to have terminated.
WatchEnds(a) ==
    /\ at[a] = "watching"
    /\ process[target[a]] \in Terminated
    /\ view' = [view EXCEPT ![a] = process[target[a]]]
    /\ Advance(a, "dumping")
    /\ UNCHANGED <<vars, verb, command, daemon, process, told, target, tree, foreign, said>>

\* dump_workgraph: everything is there only if the process had terminated.
Dump(a) ==
    /\ at[a] = "dumping"
    /\ ~foreign
    /\ tree' = [tree EXCEPT ![a] = IF process[target[a]] \in Terminated
                                   THEN "complete" ELSE "partial"]
    /\ Advance(a, "checking")
    /\ UNCHANGED <<vars, verb, command, daemon, process, told, target, view, foreign, said>>

\* dump_workgraph raises ValueError for a folder that is not a dump's, which every
\* command turns into its last word.
RefuseFolder(a) ==
    /\ at[a] = "dumping"
    /\ foreign
    /\ Advance(a, "exited")
    /\ Say(a, "error")
    /\ UNCHANGED <<vars, verb, command, daemon, process, told, target, view, tree, foreign>>

\* What is said, and the exit status, come from the state read after the dump.
\* `run` says nothing more and always exits zero.
Conclude(a) ==
    /\ at[a] = "checking"
    /\ \E state \in {"running"} \cup Terminated :
          /\ Observe(a, state)
          /\ Say(a, CASE a \in Submission -> said[a]
                      [] a \in Reader /\ state = "failed" -> "failed"
                      [] a \in Reader /\ state = "ok" -> "wrote"
                      [] OTHER -> "unfinished")
    /\ Advance(a, "exited")
    /\ UNCHANGED <<vars, verb, command, daemon, process, told, target, tree, foreign>>

\* Ctrl-C or SIGKILL after the submission is recorded, or in a reader. A dump that
\* is cut short may leave a folder that has lost its marker (see DumpFolder).
KillWatcher(a) ==
    /\ at[a] \notin Stopped
    /\ a \in Submission => at[a] # "start"
    /\ Advance(a, "killed")
    /\ foreign' \in {foreign, foreign \/ at[a] = "dumping"}
    /\ UNCHANGED <<vars, verb, command, daemon, process, told, target, view, tree, said>>

------------------------------------------------------------------------------
(* the daemon, and the rest of the world *)

\* A running daemon finishes a process, one way or the other.
DaemonFinishes(s) ==
    /\ daemon
    /\ process[s] = "running"
    /\ \E state \in Terminated : process' = [process EXCEPT ![s] = state]
    /\ UNCHANGED <<vars, verb, command, daemon, told, at, target, view, tree, foreign, said>>

\* `koopmans backend daemon stop` and `start`.
SwitchDaemon ==
    /\ daemon' = ~daemon
    /\ UNCHANGED <<vars, verb, command, process, told, at, target, view, tree, foreign, said>>

\* The part of a submission's command that Anchor models.
AnchorStep(s) ==
    /\ RecordSubmission(s) \/ WriteFails(s) \/ Interrupt(s) \/ Kill(s)
    /\ UNCHANGED trackVars

UserStep == (DeleteLock \/ EditAnchor) /\ UNCHANGED trackVars

\* The user moves the results folder away, or has one of their own of its name.
MoveFolder ==
    /\ foreign' = ~foreign
    /\ UNCHANGED <<vars, verb, command, daemon, process, told, at, target, view, tree, said>>

\* What a command does once it has its target, left to itself.
Follow(a) == WatchEnds(a) \/ Dump(a) \/ RefuseFolder(a) \/ Conclude(a)

TrackNext ==
    \/ \E s \in Submission :
          \/ LaunchProcess(s) \/ DaemonRefuses(s) \/ AnchorStep(s)
          \/ AfterRecord(s) \/ DaemonFinishes(s)
    \/ \E r \in Reader : ResolveFails(r) \/ Resolve(r)
    \/ \E a \in Actor : Follow(a) \/ KillWatcher(a)
    \/ SwitchDaemon
    \/ UserStep
    \/ MoveFolder

TrackSpec == TrackInit /\ [][TrackNext]_allVars

\* Commands are scheduled; nothing is assumed of the daemon or of the user.
TrackFairSpec == TrackSpec /\ \A a \in Actor : WF_allVars(Follow(a))

------------------------------------------------------------------------------
(* Properties *)

\* `run`: "a run interrupted (e.g. Ctrl-C) after submission can still be found".
\* Once a run is back from recording its process, the process is in the anchor
\* or the user holds its uuid, whatever became of the anchor and of the run.
RunIsFindable ==
    \A s \in Submission :
       verb[s] = "run" /\ at[s] # "start" => InAnchor(s) \/ s \in told

\* `submit`: "losing the run file only loses the *shortcut* back to it, not the
\* submission itself": whoever was told of no success was told the uuid.
SubmissionIsFindable ==
    \A s \in Submission \ Unstored :
       verb[s] = "submit" /\ at[s] # "start" => InAnchor(s) \/ s \in told

\* An attach that ends has written the whole tree and told the true outcome,
\* whether the process ended before the command began, during it, or while the
\* tree was written; or it has written nothing and ended in an error, as it does
\* when the folder is not a dump's. Commands of one input file share the folder:
\* this is of what the attach wrote, and a later command may write over it.
AttachTellsAll ==
    \A r \in Reader :
       command[r] = "attach" /\ at[r] = "exited" /\ target[r] # NoTarget =>
          \/ tree[r] = "none" /\ said[r] = "error"
          \/ /\ tree[r] = "complete"
             /\ said[r] = (IF process[target[r]] = "failed" THEN "failed" ELSE "wrote")

\* Once the process has terminated, whoever watches it stops watching, writes
\* the tree or is refused the folder, and ends, unless killed; the daemon may be
\* down by then.
WatchersEnd ==
    \A a \in Actor :
       at[a] = "watching" /\ process[target[a]] \in Terminated ~> at[a] \in Stopped
==============================================================================
