---------------------------- MODULE SubmissionLog ----------------------------
(***************************************************************************)
(* What koopmans/aiida/anchor.py promises the commands that use it: a      *)
(* record of submissions that only grows, one entry at a time, and an      *)
(* answer to each submission that agrees with the record for ever after.   *)
(* No lock, no temporary file, no read-modify-write.                       *)
(***************************************************************************)
EXTENDS SequencesExt

CONSTANT Submission        \* the submissions made from one input file

VARIABLES log,             \* the recorded submissions, in the order recorded
          answer           \* what each `record_submission` call returned

logVars == <<log, answer>>

Recorded(s) == Contains(log, s)

LogTypeOK ==
    /\ log \in Seq(Submission)
    /\ answer \in [Submission -> {"none", "recorded", "error"}]

LogInit ==
    /\ log = <<>>
    /\ answer = [s \in Submission |-> "none"]

\* The record gains the submission, before the call that records it returns.
Record(s) ==
    /\ answer[s] = "none"
    /\ ~Recorded(s)
    /\ log' = Append(log, s)
    /\ UNCHANGED answer

\* The call returns normally: only if the record holds the submission.
Confirm(s) ==
    /\ answer[s] = "none"
    /\ Recorded(s)
    /\ answer' = [answer EXCEPT ![s] = "recorded"]
    /\ UNCHANGED log

\* The call raises: only if the record does not hold the submission.
Refuse(s) ==
    /\ answer[s] = "none"
    /\ ~Recorded(s)
    /\ answer' = [answer EXCEPT ![s] = "error"]
    /\ UNCHANGED log

LogNext == \E s \in Submission : Record(s) \/ Confirm(s) \/ Refuse(s)

LogSpec == LogInit /\ [][LogNext]_logVars
==============================================================================
