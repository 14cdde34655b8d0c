------------------------------- MODULE Anchor --------------------------------
(***************************************************************************)
(* The anchor file <stem>.run.yaml (koopmans/aiida/anchor.py): a YAML list *)
(* of the submissions made from one input file, appended to by a whole-    *)
(* file read-modify-write under a lock file, replaced atomically, and read *)
(* without the lock.                                                       *)
(*                                                                         *)
(* Every `koopmans submit` or `koopmans run` of that input is a Submission *)
(* and runs in an operating-system process of its own: it may be killed at *)
(* any step, and then leaves behind whatever files it had made.            *)
(***************************************************************************)
EXTENDS Naturals, SequencesExt

CONSTANTS Submission,      \* the submissions made from one input file
          Unstored,        \* those whose node may have no pk when it is recorded
          CarefulUser      \* does the user check before deleting the lock?

ASSUME UnstoredAssumption == Unstored \subseteq Submission
ASSUME CarefulAssumption == CarefulUser \in BOOLEAN

VARIABLES
    nodes,     \* the submissions whose process exists, in pk order
    anchor,    \* the anchor file: its entries, and whether it parses
    lock,      \* does <stem>.run.yaml.lock exist?
    temps,     \* the submissions whose temporary file exists
    pc,        \* where each submission is in its command
    entries,   \* `entries` of append_anchor_entry, per submission
    error      \* the exception that leaves append_anchor_entry, if any

vars == <<nodes, anchor, lock, temps, pc, entries, error>>

\* Between the creation of the lock file and its unlinking.
Critical == {"locked", "read", "temp", "releasing"}

Ended == {"done", "failed", "killed"}

Steps == {"build", "launched", "waiting"} \cup Critical \cup Ended

Errors == {"none", "ValueError", "OSError", "TimeoutError", "interrupt"}

Holder(s) == pc[s] \in Critical

InAnchor(s) == Contains(anchor.entries, s)

TypeOK ==
    /\ nodes \in Seq(Submission)
    /\ anchor \in [entries : Seq(Submission), valid : BOOLEAN]
    /\ lock \in BOOLEAN
    /\ temps \subseteq Submission
    /\ pc \in [Submission -> Steps]
    /\ entries \in [Submission -> Seq(Submission)]
    /\ error \in [Submission -> Errors]

Init ==
    /\ nodes = <<>>
    /\ anchor = [entries |-> <<>>, valid |-> TRUE]
    /\ lock = FALSE
    /\ temps = {}
    /\ pc = [s \in Submission |-> "build"]
    /\ entries = [s \in Submission |-> <<>>]
    /\ error = [s \in Submission |-> "none"]

Goto(s, step) == pc' = [pc EXCEPT ![s] = step]

Raise(s, e) == error' = [error EXCEPT ![s] = e]

------------------------------------------------------------------------------

\* launch hands the workgraph to the daemon and returns its process node.
Launch(s) ==
    /\ pc[s] = "build"
    /\ Goto(s, "launched")
    /\ nodes' = Append(nodes, s)
    /\ UNCHANGED <<anchor, lock, temps, entries, error>>

\* record_submission refuses a node that was never stored.
RefuseUnstored(s) ==
    /\ pc[s] = "launched"
    /\ s \in Unstored
    /\ Goto(s, "failed")
    /\ Raise(s, "ValueError")
    /\ UNCHANGED <<nodes, anchor, lock, temps, entries>>

\* record_submission finds a pk, builds the entry and calls append_anchor_entry.
BeginAppend(s) ==
    /\ pc[s] = "launched"
    /\ Goto(s, "waiting")
    /\ UNCHANGED <<nodes, anchor, lock, temps, entries, error>>

\* Mutant: the lock file is opened without O_EXCL.
AcquireShared(s) ==
    /\ pc[s] = "waiting"
    /\ lock' = TRUE
    /\ Goto(s, "locked")
    /\ UNCHANGED <<nodes, anchor, temps, entries, error>>

\* _acquire_lock: O_CREAT | O_EXCL creates the lock file.
Acquire(s) ==
    /\ pc[s] = "waiting"
    /\ ~lock
    /\ lock' = TRUE
    /\ Goto(s, "locked")
    /\ UNCHANGED <<nodes, anchor, temps, entries, error>>

\* Mutants: no deadline; the FileExistsError itself is raised.
WaitForEver(s) == FALSE /\ UNCHANGED vars

TimeOutUnnamed(s) ==
    /\ pc[s] = "waiting"
    /\ lock
    /\ Goto(s, "failed")
    /\ Raise(s, "FileExistsError")
    /\ UNCHANGED <<nodes, anchor, lock, temps, entries>>

\* _acquire_lock: FileExistsError, and the deadline has passed. The clock is
\* not modelled: any attempt that finds the file may be the last.
TimeOut(s) ==
    /\ pc[s] = "waiting"
    /\ lock
    /\ Goto(s, "failed")
    /\ Raise(s, "TimeoutError")
    /\ UNCHANGED <<nodes, anchor, lock, temps, entries>>

\* read_anchor_entries: the file is absent, empty, or a list of entries.
Read(s) ==
    /\ pc[s] = "locked"
    /\ anchor.valid
    /\ entries' = [entries EXCEPT ![s] = anchor.entries]
    /\ Goto(s, "read")
    /\ UNCHANGED <<nodes, anchor, lock, temps, error>>

\* Mutant: a malformed file counts as an empty one.
ReadMalformedAsEmpty(s) ==
    /\ pc[s] = "locked"
    /\ ~anchor.valid
    /\ entries' = [entries EXCEPT ![s] = <<>>]
    /\ Goto(s, "read")
    /\ UNCHANGED <<nodes, anchor, lock, temps, error>>

\* read_anchor_entries: anything else is a ValueError.
ReadMalformed(s) ==
    /\ pc[s] = "locked"
    /\ ~anchor.valid
    /\ Goto(s, "releasing")
    /\ Raise(s, "ValueError")
    /\ UNCHANGED <<nodes, anchor, lock, temps, entries>>

\* _write_entries: mkstemp, and the new list written to the temporary file.
WriteTemp(s) ==
    /\ pc[s] = "read"
    /\ temps' = temps \cup {s}
    /\ Goto(s, "temp")
    /\ UNCHANGED <<nodes, anchor, lock, entries, error>>

\* _write_entries: os.replace of the temporary file over the anchor.
Replace(s) ==
    /\ pc[s] = "temp"
    /\ anchor' = [entries |-> Append(entries[s], s), valid |-> TRUE]
    /\ temps' = temps \ {s}
    /\ Goto(s, "releasing")
    /\ UNCHANGED <<nodes, lock, entries, error>>

\* Mutant: an error after os.replace.
WriteFailsLate(s) ==
    /\ pc[s] \in {"read", "temp", "releasing"}
    /\ temps' = temps \ {s}
    /\ Goto(s, "releasing")
    /\ Raise(s, "OSError")
    /\ UNCHANGED <<nodes, anchor, lock, entries>>

\* The directory cannot be written or the disk is full: the temporary file is
\* unlinked and the OSError goes on its way.
WriteFails(s) ==
    /\ pc[s] \in {"read", "temp"}
    /\ temps' = temps \ {s}
    /\ Goto(s, "releasing")
    /\ Raise(s, "OSError")
    /\ UNCHANGED <<nodes, anchor, lock, entries>>

\* Ctrl-C while the lock is held: `except BaseException` and `finally` run, and
\* nothing else of the command does. The entry may be in the file by then.
Interrupt(s) ==
    /\ pc[s] \in Critical
    /\ temps' = temps \ {s}
    /\ Goto(s, "releasing")
    /\ Raise(s, "interrupt")
    /\ UNCHANGED <<nodes, anchor, lock, entries>>

\* Mutant: `finally` returns, and so swallows the exception.
ReleaseSwallows(s) ==
    /\ pc[s] = "releasing"
    /\ lock' = FALSE
    /\ Goto(s, IF error[s] = "interrupt" THEN "killed" ELSE "done")
    /\ UNCHANGED <<nodes, anchor, temps, entries, error>>

\* `finally`: the lock file goes, whoever created the one that is there now.
\* An interrupt ends the command as a kill does, with nothing said.
Release(s) ==
    /\ pc[s] = "releasing"
    /\ lock' = FALSE
    /\ Goto(s, CASE error[s] = "none" -> "done"
                 [] error[s] = "interrupt" -> "killed"
                 [] OTHER -> "failed")
    /\ UNCHANGED <<nodes, anchor, temps, entries, error>>

\* SIGKILL, or a machine that goes down: no `finally`, no `except`.
Kill(s) ==
    /\ pc[s] \notin Ended
    /\ Goto(s, "killed")
    /\ UNCHANGED <<nodes, anchor, lock, temps, entries, error>>

------------------------------------------------------------------------------

\* The user does what the TimeoutError says. A careful one first checks that
\* the submission that created the lock is really gone.
DeleteLock ==
    /\ lock
    /\ \E s \in Submission : error[s] = "TimeoutError"
    /\ CarefulUser => ~\E s \in Submission : Holder(s)
    /\ lock' = FALSE
    /\ UNCHANGED <<nodes, anchor, temps, pc, entries, error>>

\* The user edits the file by hand and leaves it malformed, or repairs it.
EditAnchor ==
    /\ anchor.entries # <<>>
    /\ anchor' = [anchor EXCEPT !.valid = ~@]
    /\ UNCHANGED <<nodes, lock, temps, pc, entries, error>>

\* What the command of submission s does, when nothing goes wrong around it.
RecordSubmission(s) ==
    \/ RefuseUnstored(s) \/ BeginAppend(s)
    \/ Acquire(s) \/ TimeOut(s)
    \/ Read(s) \/ ReadMalformed(s)
    \/ WriteTemp(s) \/ Replace(s) \/ Release(s)

Next ==
    \/ \E s \in Submission :
          Launch(s) \/ RecordSubmission(s) \/ WriteFails(s) \/ Interrupt(s) \/ Kill(s)
    \/ DeleteLock
    \/ EditAnchor

Spec == Init /\ [][Next]_vars

\* A command that is not killed is scheduled until it ends.
FairSpec == Spec /\ \A s \in Submission : WF_vars(RecordSubmission(s))

------------------------------------------------------------------------------
(* Properties *)

\* Two submissions are never both between the creation and the removal of the
\* lock file, and whoever is there finds the file in place: the promise of
\* _acquire_lock, across kills, timeouts and a lock deleted by hand.
MutualExclusion ==
    /\ \A s, t \in Submission : Holder(s) /\ Holder(t) => s = t
    /\ \A s \in Submission : Holder(s) => lock

\* The list a writer is about to append to is still the list in the file: no
\* read-modify-write works on a stale read, although nothing in the file or in
\* os.replace would notice.
FreshRead ==
    \A s \in Submission : pc[s] \in {"read", "temp"} => entries[s] = anchor.entries

\* "Racing writers on one anchor file must not lose each other's entry": a
\* submission whose command reported success is in the file, whatever other
\* submissions have done since, and exactly once.
NothingLost ==
    /\ \A s \in Submission : pc[s] = "done" => InAnchor(s)
    /\ IsInjective(anchor.entries)

\* A failed append leaves no trace: an error reported by append_anchor_entry
\* means the file does not hold the entry, so a retry cannot double it.
FailureLeavesNoEntry ==
    \A s \in Submission :
       error[s] \in {"ValueError", "OSError", "TimeoutError"} => ~InAnchor(s)

\* Earlier entries are kept, in place: each step leaves the list as it is or
\* adds one entry at its end.
GrowsByOne ==
    LET old == anchor.entries
        new == anchor'.entries
    IN \/ new = old
       \/ \E s \in Submission : ~InAnchor(s) /\ new = Append(old, s)

AppendOnly == [][GrowsByOne]_vars

\* The deadline of _acquire_lock bounds the wait, even on a lock nobody will
\* ever release: every command that starts to append ends.
AppendReturns == \A s \in Submission : pc[s] = "waiting" ~> pc[s] \in Ended

Answer ==
    [s \in Submission |-> CASE pc[s] = "done" -> "recorded"
                            [] pc[s] = "failed" -> "error"
                            [] OTHER -> "none"]

\* The lock, the temporary file and the whole-file rewrite implement an atomic
\* append: seen through the file and the commands' outcomes, every run of this
\* module is a run of SubmissionLog.
Log == INSTANCE SubmissionLog WITH log <- anchor.entries, answer <- Answer

Implements == Log!LogSpec
==============================================================================
