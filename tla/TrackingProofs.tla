--------------------------- MODULE TrackingProofs ----------------------------
(***************************************************************************)
(* Proofs about the anchor file (Anchor) for any submissions, and, on top  *)
(* of its invariant, about the commands around it (Tracking) for any       *)
(* readers. All of them assume a careful user: with a lock deleted under a *)
(* live writer, entries are lost.                                          *)
(***************************************************************************)
EXTENDS Tracking, TLAPS

------------------------------------------------------------------------------
(* The anchor file.                                                        *)

\* Where a submission is, what went wrong for it, and whether the file holds
\* its entry agree: the entry is there from os.replace on, and only then.
EntryMatches(s) ==
    /\ pc[s] \in {"build", "launched", "waiting", "locked", "read", "temp"}
          => error[s] = "none" /\ ~InAnchor(s)
    /\ pc[s] \in {"releasing", "done"} /\ error[s] = "none" => InAnchor(s)
    /\ pc[s] = "done" => error[s] = "none"
    /\ pc[s] = "failed" => error[s] \in {"ValueError", "OSError", "TimeoutError"}
    /\ error[s] \in {"ValueError", "OSError", "TimeoutError"} => ~InAnchor(s)

EntryMatchesStep == \A s \in Submission : EntryMatches(s)

NoDuplicates == IsInjective(anchor.entries)

\* The inductive invariant.
IInv ==
    /\ TypeOK
    /\ MutualExclusion
    /\ FreshRead
    /\ EntryMatchesStep
    /\ NoDuplicates

------------------------------------------------------------------------------

\* No file, no lock and no submission yet: every variable has its type.
LEMMA TypeInit == Init => TypeOK
<1> SUFFICES ASSUME Init PROVE TypeOK
  OBVIOUS
<1> USE DEF Init, TypeOK, Steps, Critical, Ended, Errors
<1>1. <<>> \in Seq(Submission)
  OBVIOUS
<1>2. anchor \in [entries : Seq(Submission), valid : BOOLEAN]
  BY <1>1
<1>3. entries \in [Submission -> Seq(Submission)]
  BY <1>1
<1>4. pc \in [Submission -> Steps] /\ error \in [Submission -> Errors]
  OBVIOUS
<1>5. QED
  BY <1>1, <1>2, <1>3, <1>4

\* Each step of a command, of the user or of a crash keeps the types.
LEMMA TypeStep == TypeOK /\ [Next]_vars => TypeOK'
<1> SUFFICES ASSUME TypeOK, [Next]_vars PROVE TypeOK'
  OBVIOUS
<1> USE DEF TypeOK, Steps, Critical, Ended, Errors, Goto, Raise
<1>1. ASSUME NEW s \in Submission, Launch(s) PROVE TypeOK'
  BY <1>1 DEF Launch
<1>2. ASSUME NEW s \in Submission, RecordSubmission(s) PROVE TypeOK'
  <2>1. CASE RefuseUnstored(s)  BY <2>1 DEF RefuseUnstored
  <2>2. CASE BeginAppend(s)     BY <2>2 DEF BeginAppend
  <2>3. CASE Acquire(s)         BY <2>3 DEF Acquire
  <2>4. CASE TimeOut(s)         BY <2>4 DEF TimeOut
  <2>5. CASE Read(s)            BY <2>5 DEF Read
  <2>6. CASE ReadMalformed(s)   BY <2>6 DEF ReadMalformed
  <2>7. CASE WriteTemp(s)       BY <2>7 DEF WriteTemp
  <2>8. CASE Replace(s)         BY <2>8 DEF Replace
  <2>9. CASE Release(s)         BY <2>9 DEF Release
  <2>10. QED
    BY <1>2, <2>1, <2>2, <2>3, <2>4, <2>5, <2>6, <2>7, <2>8, <2>9
       DEF RecordSubmission
<1>3. ASSUME NEW s \in Submission, WriteFails(s) PROVE TypeOK'
  BY <1>3 DEF WriteFails
<1>4. ASSUME NEW s \in Submission, Interrupt(s) PROVE TypeOK'
  BY <1>4 DEF Interrupt
<1>5. ASSUME NEW s \in Submission, Kill(s) PROVE TypeOK'
  BY <1>5 DEF Kill
<1>6. CASE DeleteLock   BY <1>6 DEF DeleteLock
<1>7. CASE EditAnchor   BY <1>7 DEF EditAnchor
<1>8. CASE UNCHANGED vars   BY <1>8 DEF vars
<1>9. QED
  BY <1>1, <1>2, <1>3, <1>4, <1>5, <1>6, <1>7, <1>8 DEF Next

\* anchor.py: every value the commands store keeps its shape, whoever runs and
\* whatever the user deletes or edits.
THEOREM TypeCorrect == Spec => []TypeOK
BY TypeInit, TypeStep, PTL DEF Spec

------------------------------------------------------------------------------

\* Appending puts one element in a sequence and keeps the others.
LEMMA AppendContains ==
  ASSUME NEW S, NEW q \in Seq(S), NEW x \in S, NEW y
  PROVE  Contains(Append(q, x), y) <=> (y = x \/ Contains(q, y))
<1>1. /\ Len(q) \in Nat
      /\ Len(Append(q, x)) = Len(q) + 1
      /\ Append(q, x)[Len(q) + 1] = x
      /\ \A i \in 1 .. Len(q) : Append(q, x)[i] = q[i]
  OBVIOUS
<1>2. ASSUME NEW i \in 1 .. Len(q) + 1, Append(q, x)[i] = y
      PROVE  y = x \/ \E j \in 1 .. Len(q) : q[j] = y
  <2>1. CASE i = Len(q) + 1   BY <1>1, <1>2, <2>1
  <2>2. CASE i \in 1 .. Len(q)   BY <1>1, <1>2, <2>2
  <2>3. QED   BY <1>1, <2>1, <2>2
<1>3. ASSUME NEW j \in 1 .. Len(q), q[j] = y
      PROVE  \E i \in 1 .. Len(q) + 1 : Append(q, x)[i] = y
  <2>1. j \in 1 .. Len(q) + 1 /\ Append(q, x)[j] = y   BY <1>1, <1>3
  <2>2. QED   BY <2>1
<1>4. \E i \in 1 .. Len(q) + 1 : Append(q, x)[i] = x
  <2>1. Len(q) + 1 \in 1 .. Len(q) + 1   BY <1>1
  <2>2. QED   BY <1>1, <2>1
<1>5. QED   BY <1>1, <1>2, <1>3, <1>4 DEF Contains

\* Appending a new element to a sequence without duplicates makes none.
LEMMA AppendKeepsDistinct ==
  ASSUME NEW S, NEW q \in Seq(S), NEW x \in S,
         IsInjective(q), ~Contains(q, x)
  PROVE  IsInjective(Append(q, x))
<1>1. /\ DOMAIN q = 1 .. Len(q)
      /\ Len(q) \in Nat
      /\ DOMAIN Append(q, x) = 1 .. Len(q) + 1
      /\ Append(q, x)[Len(q) + 1] = x
      /\ \A i \in 1 .. Len(q) : Append(q, x)[i] = q[i]
  OBVIOUS
<1>2. SUFFICES ASSUME NEW i \in 1 .. Len(q) + 1, NEW j \in 1 .. Len(q) + 1,
                      Append(q, x)[i] = Append(q, x)[j]
               PROVE  i = j
  BY <1>1 DEF IsInjective
<1>3. CASE i \in 1 .. Len(q) /\ j \in 1 .. Len(q)   BY <1>1, <1>2, <1>3 DEF IsInjective
<1>4. CASE i = Len(q) + 1 /\ j \in 1 .. Len(q)   BY <1>1, <1>2, <1>4 DEF Contains
<1>5. CASE i \in 1 .. Len(q) /\ j = Len(q) + 1   BY <1>1, <1>2, <1>5 DEF Contains
<1>6. CASE i = Len(q) + 1 /\ j = Len(q) + 1   BY <1>6
<1>7. QED   BY <1>1, <1>2, <1>3, <1>4, <1>5, <1>6

------------------------------------------------------------------------------

\* Before the first submission there is no writer and no entry.
LEMMA InvInit == Init => IInv
<1> SUFFICES ASSUME Init PROVE IInv
  OBVIOUS
<1>1. TypeOK
  BY TypeInit
<1>2. MutualExclusion /\ FreshRead
  BY DEF Init, MutualExclusion, FreshRead, Holder, Critical
<1>3. IsInjective(anchor.entries) /\ \A s \in Submission : ~InAnchor(s)
  BY DEF Init, InAnchor, Contains, IsInjective
<1>4. EntryMatchesStep /\ NoDuplicates
  BY <1>3 DEF Init, EntryMatchesStep, EntryMatches, NoDuplicates
<1>5. QED
  BY <1>1, <1>2, <1>4 DEF IInv

\* A step that leaves the file's entries alone cannot make duplicates, and
\* keeps every writer's list fresh unless it hands a writer a new one.
LEMMA InvStep == CarefulUser /\ IInv /\ [Next]_vars => IInv'
<1> SUFFICES ASSUME CarefulUser, IInv, [Next]_vars PROVE IInv'
  OBVIOUS
<1> USE DEF IInv
<1>t. TypeOK'
  BY TypeStep
<1> USE DEF Goto, Raise, Holder, Critical, Ended
<1>1. ASSUME NEW s \in Submission, Launch(s) PROVE IInv'
  <2> USE <1>1, <1>t DEF Launch, TypeOK
  <2>1. MutualExclusion' /\ FreshRead'   BY DEF MutualExclusion, FreshRead
  <2>2. EntryMatchesStep'   BY DEF EntryMatchesStep, EntryMatches, InAnchor
  <2>3. NoDuplicates'   BY DEF NoDuplicates
  <2>4. QED   BY <2>1, <2>2, <2>3
<1>2. ASSUME NEW s \in Submission, RefuseUnstored(s) PROVE IInv'
  <2> USE <1>2, <1>t DEF RefuseUnstored, TypeOK
  <2>1. MutualExclusion' /\ FreshRead'   BY DEF MutualExclusion, FreshRead
  <2>2. EntryMatchesStep'   BY DEF EntryMatchesStep, EntryMatches, InAnchor
  <2>3. NoDuplicates'   BY DEF NoDuplicates
  <2>4. QED   BY <2>1, <2>2, <2>3
<1>3. ASSUME NEW s \in Submission, BeginAppend(s) PROVE IInv'
  <2> USE <1>3, <1>t DEF BeginAppend, TypeOK
  <2>1. MutualExclusion' /\ FreshRead'   BY DEF MutualExclusion, FreshRead
  <2>2. EntryMatchesStep'   BY DEF EntryMatchesStep, EntryMatches, InAnchor
  <2>3. NoDuplicates'   BY DEF NoDuplicates
  <2>4. QED   BY <2>1, <2>2, <2>3
<1>4. ASSUME NEW s \in Submission, Acquire(s) PROVE IInv'
  <2> USE <1>4, <1>t DEF Acquire, TypeOK
  <2>1. MutualExclusion' /\ FreshRead'   BY DEF MutualExclusion, FreshRead
  <2>2. EntryMatchesStep'   BY DEF EntryMatchesStep, EntryMatches, InAnchor
  <2>3. NoDuplicates'   BY DEF NoDuplicates
  <2>4. QED   BY <2>1, <2>2, <2>3
<1>5. ASSUME NEW s \in Submission, TimeOut(s) PROVE IInv'
  <2> USE <1>5, <1>t DEF TimeOut, TypeOK
  <2>1. MutualExclusion' /\ FreshRead'   BY DEF MutualExclusion, FreshRead
  <2>2. EntryMatchesStep'   BY DEF EntryMatchesStep, EntryMatches, InAnchor
  <2>3. NoDuplicates'   BY DEF NoDuplicates
  <2>4. QED   BY <2>1, <2>2, <2>3
<1>6. ASSUME NEW s \in Submission, Read(s) PROVE IInv'
  <2> USE <1>6, <1>t DEF Read, TypeOK
  <2>1. MutualExclusion' /\ FreshRead'   BY DEF MutualExclusion, FreshRead
  <2>2. EntryMatchesStep'   BY DEF EntryMatchesStep, EntryMatches, InAnchor
  <2>3. NoDuplicates'   BY DEF NoDuplicates
  <2>4. QED   BY <2>1, <2>2, <2>3
<1>7. ASSUME NEW s \in Submission, ReadMalformed(s) PROVE IInv'
  <2> USE <1>7, <1>t DEF ReadMalformed, TypeOK
  <2>1. MutualExclusion' /\ FreshRead'   BY DEF MutualExclusion, FreshRead
  <2>2. EntryMatchesStep'   BY DEF EntryMatchesStep, EntryMatches, InAnchor
  <2>3. NoDuplicates'   BY DEF NoDuplicates
  <2>4. QED   BY <2>1, <2>2, <2>3
<1>8. ASSUME NEW s \in Submission, WriteTemp(s) PROVE IInv'
  <2> USE <1>8, <1>t DEF WriteTemp, TypeOK
  <2>1. MutualExclusion' /\ FreshRead'   BY DEF MutualExclusion, FreshRead
  <2>2. EntryMatchesStep'   BY DEF EntryMatchesStep, EntryMatches, InAnchor
  <2>3. NoDuplicates'   BY DEF NoDuplicates
  <2>4. QED   BY <2>1, <2>2, <2>3
<1>9. ASSUME NEW s \in Submission, Replace(s) PROVE IInv'
  \* The one step that changes the list: it appends to a fresh copy of it.
  <2> USE <1>9, <1>t DEF Replace, TypeOK
  <2>1. anchor'.entries = Append(anchor.entries, s)
    BY DEF FreshRead
  <2>2. ~InAnchor(s) /\ error[s] = "none"
    BY DEF EntryMatchesStep, EntryMatches
  <2>3. \A u \in Submission : InAnchor(u)' <=> (u = s \/ InAnchor(u))
    <3>1. anchor.entries \in Seq(Submission)
      OBVIOUS
    <3>2. \A u : Contains(Append(anchor.entries, s), u)
                    <=> (u = s \/ Contains(anchor.entries, u))
      BY <3>1, AppendContains
    <3>3. QED
      BY <2>1, <3>2 DEF InAnchor
  <2>4. MutualExclusion'
    BY DEF MutualExclusion
  <2>5. FreshRead'
    BY DEF MutualExclusion, FreshRead
  <2>6. EntryMatchesStep'
    <3>1. SUFFICES ASSUME NEW u \in Submission PROVE EntryMatches(u)'
      BY DEF EntryMatchesStep
    <3>2. CASE u = s   BY <2>2, <2>3, <3>2 DEF EntryMatches
    <3>3. CASE u # s
      <4>1. InAnchor(u)' <=> InAnchor(u)   BY <2>3, <3>3
      <4>2. pc'[u] = pc[u] /\ error'[u] = error[u]   BY <3>3
      <4>3. EntryMatches(u)   BY DEF EntryMatchesStep
      <4>4. QED   BY <4>1, <4>2, <4>3 DEF EntryMatches
    <3>4. QED   BY <3>2, <3>3
  <2>7. NoDuplicates'
    BY <2>1, <2>2, AppendKeepsDistinct DEF NoDuplicates, InAnchor
  <2>8. QED
    BY <2>4, <2>5, <2>6, <2>7
<1>10. ASSUME NEW s \in Submission, Release(s) PROVE IInv'
  <2> USE <1>10, <1>t DEF Release, TypeOK, Errors
  <2>1. MutualExclusion' /\ FreshRead'   BY DEF MutualExclusion, FreshRead
  <2>2. EntryMatchesStep'   BY DEF EntryMatchesStep, EntryMatches, InAnchor
  <2>3. NoDuplicates'   BY DEF NoDuplicates
  <2>4. QED   BY <2>1, <2>2, <2>3
<1>11. ASSUME NEW s \in Submission, WriteFails(s) PROVE IInv'
  <2> USE <1>11, <1>t DEF WriteFails, TypeOK
  <2>1. MutualExclusion' /\ FreshRead'   BY DEF MutualExclusion, FreshRead
  <2>2. EntryMatchesStep'   BY DEF EntryMatchesStep, EntryMatches, InAnchor
  <2>3. NoDuplicates'   BY DEF NoDuplicates
  <2>4. QED   BY <2>1, <2>2, <2>3
<1>12. ASSUME NEW s \in Submission, Interrupt(s) PROVE IInv'
  <2> USE <1>12, <1>t DEF Interrupt, TypeOK
  <2>1. MutualExclusion' /\ FreshRead'   BY DEF MutualExclusion, FreshRead
  <2>2. EntryMatchesStep'   BY DEF EntryMatchesStep, EntryMatches, InAnchor
  <2>3. NoDuplicates'   BY DEF NoDuplicates
  <2>4. QED   BY <2>1, <2>2, <2>3
<1>13. ASSUME NEW s \in Submission, Kill(s) PROVE IInv'
  <2> USE <1>13, <1>t DEF Kill, TypeOK
  <2>1. MutualExclusion' /\ FreshRead'   BY DEF MutualExclusion, FreshRead
  <2>2. EntryMatchesStep'   BY DEF EntryMatchesStep, EntryMatches, InAnchor
  <2>3. NoDuplicates'   BY DEF NoDuplicates
  <2>4. QED   BY <2>1, <2>2, <2>3
<1>14. CASE DeleteLock
  \* Only here is the user's care needed: no live writer loses its lock.
  <2> USE <1>14, <1>t DEF DeleteLock, TypeOK
  <2>1. MutualExclusion' /\ FreshRead'   BY DEF MutualExclusion, FreshRead
  <2>2. EntryMatchesStep'   BY DEF EntryMatchesStep, EntryMatches, InAnchor
  <2>3. NoDuplicates'   BY DEF NoDuplicates
  <2>4. QED   BY <2>1, <2>2, <2>3
<1>15. CASE EditAnchor
  <2> USE <1>15, <1>t DEF EditAnchor, TypeOK
  <2>1. anchor'.entries = anchor.entries   OBVIOUS
  <2>2. MutualExclusion' /\ FreshRead'   BY <2>1 DEF MutualExclusion, FreshRead
  <2>3. EntryMatchesStep'   BY <2>1 DEF EntryMatchesStep, EntryMatches, InAnchor
  <2>4. NoDuplicates'   BY <2>1 DEF NoDuplicates
  <2>5. QED   BY <2>2, <2>3, <2>4
<1>16. CASE UNCHANGED vars
  BY <1>16 DEF vars, TypeOK, MutualExclusion, FreshRead, EntryMatchesStep, EntryMatches,
               NoDuplicates, InAnchor
<1>17. QED
  BY <1>1, <1>2, <1>3, <1>4, <1>5, <1>6, <1>7, <1>8, <1>9, <1>10, <1>11,
     <1>12, <1>13, <1>14, <1>15, <1>16 DEF Next, RecordSubmission

------------------------------------------------------------------------------

\* The inductive invariant holds of every behaviour with a careful user.
LEMMA Invariance == ASSUME CarefulUser PROVE Spec => []IInv
<1>1. IInv /\ [Next]_vars => IInv'
  BY InvStep
<1>2. QED
  BY <1>1, InvInit, PTL DEF Spec

\* _acquire_lock serializes the appends of any number of submissions.
THEOREM LockExcludes == ASSUME CarefulUser PROVE Spec => []MutualExclusion
<1>1. IInv => MutualExclusion
  BY DEF IInv
<1>2. QED
  BY <1>1, Invariance, PTL

\* append_anchor_entry never writes back a list older than the file's.
THEOREM NoStaleRead == ASSUME CarefulUser PROVE Spec => []FreshRead
<1>1. IInv => FreshRead
  BY DEF IInv
<1>2. QED
  BY <1>1, Invariance, PTL

\* An entry whose submission reported success is in the file for good, once.
THEOREM NoEntryLost == ASSUME CarefulUser PROVE Spec => []NothingLost
<1>1. IInv => NothingLost
  BY DEF IInv, EntryMatchesStep, EntryMatches, NoDuplicates, NothingLost
<1>2. QED
  BY <1>1, Invariance, PTL

\* An append that reports an error wrote nothing, so a retry cannot double it.
THEOREM ErrorsWriteNothing == ASSUME CarefulUser PROVE Spec => []FailureLeavesNoEntry
<1>1. IInv => FailureLeavesNoEntry
  BY DEF IInv, EntryMatchesStep, EntryMatches, FailureLeavesNoEntry
<1>2. QED
  BY <1>1, Invariance, PTL

------------------------------------------------------------------------------

\* The list changes only in Replace, which appends to a fresh copy.
LEMMA ReplaceAppends ==
  ASSUME IInv, NEW s \in Submission, Replace(s)
  PROVE  anchor'.entries = Append(anchor.entries, s) /\ ~InAnchor(s)
BY DEF IInv, TypeOK, FreshRead, EntryMatchesStep, EntryMatches, Replace

\* No step but os.replace in _write_entries changes the recorded list.
LEMMA OthersKeepEntries ==
  ASSUME [Next]_vars, ~\E s \in Submission : Replace(s), TypeOK
  PROVE  anchor'.entries = anchor.entries
BY DEF TypeOK, Next, RecordSubmission, Launch, RefuseUnstored, BeginAppend,
       Acquire, TimeOut, Read, ReadMalformed, WriteTemp, Release, WriteFails,
       Interrupt, Kill, DeleteLock, EditAnchor, vars

\* Resubmitting never loses or reorders the record of an earlier run.
THEOREM EntriesAppendOnly == ASSUME CarefulUser PROVE Spec => AppendOnly
<1>1. IInv /\ [Next]_vars => [GrowsByOne]_vars
  <2> SUFFICES ASSUME IInv, [Next]_vars PROVE GrowsByOne
    OBVIOUS
  <2>1. CASE \E s \in Submission : Replace(s)
    BY <2>1, ReplaceAppends DEF GrowsByOne
  <2>2. CASE ~\E s \in Submission : Replace(s)
    BY <2>2, OthersKeepEntries DEF GrowsByOne, IInv
  <2>3. QED
    BY <2>1, <2>2
<1>2. QED
  BY <1>1, Invariance, PTL DEF Spec, AppendOnly

------------------------------------------------------------------------------

\* What SubmissionLog calls recorded is what the anchor file holds.
LEMMA RecordedIsInAnchor == \A s : Log!Recorded(s) <=> InAnchor(s)
BY DEF Log!Recorded, InAnchor, Contains, Log!Contains

\* A command that ends with an error where the file lacks its entry refuses.
LEMMA FailureRefuses ==
  ASSUME TypeOK, NEW s \in Submission, pc[s] \notin Ended, ~InAnchor(s),
         Goto(s, "failed"), UNCHANGED anchor
  PROVE  Log!Refuse(s)
<1>1. Answer[s] = "none" /\ Answer' = [Answer EXCEPT ![s] = "error"]
  BY DEF Answer, TypeOK, Goto, Ended
<1>2. QED
  BY <1>1, RecordedIsInAnchor DEF Log!Refuse

\* A command that goes on, or is killed, has not answered.
LEMMA SilentStep ==
  ASSUME TypeOK, NEW s \in Submission, NEW step, pc[s] \notin {"done", "failed"},
         step \notin {"done", "failed"}, Goto(s, step),
         anchor'.entries = anchor.entries
  PROVE  UNCHANGED Log!logVars
<1>1. Answer' = Answer
  BY DEF Answer, TypeOK, Goto
<1>2. QED
  BY <1>1 DEF Log!logVars

\* Each step of append_anchor_entry is a step of SubmissionLog, or none.
LEMMA StepRefines == IInv /\ [Next]_vars => [Log!LogNext]_(Log!logVars)
<1> SUFFICES ASSUME IInv, [Next]_vars
             PROVE  Log!LogNext \/ UNCHANGED Log!logVars
  OBVIOUS
<1>t. TypeOK /\ EntryMatchesStep
  BY DEF IInv
<1>1. ASSUME NEW s \in Submission, Replace(s) PROVE Log!Record(s)
  <2>1. Answer[s] = "none" /\ Answer' = Answer
    BY <1>t, <1>1 DEF Replace, Answer, TypeOK, Goto
  <2>2. QED
    BY <1>1, <2>1, ReplaceAppends, RecordedIsInAnchor DEF Log!Record
<1>2. ASSUME NEW s \in Submission, Release(s)
      PROVE  Log!LogNext \/ UNCHANGED Log!logVars
  <2>1. CASE error[s] = "none"
    <3>1. InAnchor(s)
      BY <1>t, <1>2, <2>1 DEF EntryMatchesStep, EntryMatches, Release
    <3>2. Answer[s] = "none" /\ Answer' = [Answer EXCEPT ![s] = "recorded"]
      BY <1>t, <1>2, <2>1 DEF Release, Answer, TypeOK, Goto
    <3>3. Log!Confirm(s)
      BY <1>2, <3>1, <3>2, RecordedIsInAnchor DEF Release, Log!Confirm
    <3>4. QED
      BY <3>3 DEF Log!LogNext
  <2>2. CASE error[s] = "interrupt"
    BY <1>t, <1>2, <2>2, SilentStep DEF Release
  <2>3. CASE error[s] \notin {"none", "interrupt"}
    <3>1. ~InAnchor(s)
      BY <1>t, <2>3 DEF TypeOK, Errors, EntryMatchesStep, EntryMatches
    <3>2. Log!Refuse(s)
      BY <1>t, <1>2, <2>3, <3>1, FailureRefuses DEF Release, Ended
    <3>3. QED
      BY <3>2 DEF Log!LogNext
  <2>4. QED
    BY <2>1, <2>2, <2>3
<1>3. ASSUME NEW s \in Submission, TimeOut(s) \/ RefuseUnstored(s)
      PROVE  Log!Refuse(s)
  <2>1. ~InAnchor(s)
    BY <1>t, <1>3 DEF TimeOut, RefuseUnstored, EntryMatchesStep, EntryMatches
  <2>2. QED
    BY <1>t, <1>3, <2>1, FailureRefuses DEF TimeOut, RefuseUnstored, Ended
<1>4. ASSUME NEW s \in Submission,
             \/ Launch(s) \/ BeginAppend(s) \/ Acquire(s) \/ Read(s)
             \/ ReadMalformed(s) \/ WriteTemp(s) \/ WriteFails(s)
             \/ Interrupt(s) \/ Kill(s)
      PROVE  UNCHANGED Log!logVars
  <2>1. PICK step \in Steps \ {"done", "failed"} : Goto(s, step)
    BY <1>4 DEF Launch, BeginAppend, Acquire, Read, ReadMalformed, WriteTemp,
                WriteFails, Interrupt, Kill, Steps, Critical, Ended
  <2>2. pc[s] \notin {"done", "failed"} /\ anchor' = anchor
    BY <1>4 DEF Launch, BeginAppend, Acquire, Read, ReadMalformed, WriteTemp,
                WriteFails, Interrupt, Kill, Critical, Ended
  <2>3. QED
    BY <1>t, <2>1, <2>2, SilentStep
<1>5. CASE DeleteLock \/ EditAnchor \/ UNCHANGED vars
  <2>1. pc' = pc /\ anchor'.entries = anchor.entries
    BY <1>t, <1>5 DEF DeleteLock, EditAnchor, vars, TypeOK
  <2>2. QED
    BY <2>1 DEF Log!logVars, Answer
<1>6. QED
  BY <1>1, <1>2, <1>3, <1>4, <1>5
     DEF Next, RecordSubmission, Log!LogNext

\* The lock protocol implements the atomic append of SubmissionLog.
THEOREM ImplementsLog == ASSUME CarefulUser PROVE Spec => Implements
<1>1. Init => Log!LogInit
  BY DEF Init, Log!LogInit, Answer
<1>2. IInv /\ [Next]_vars => [Log!LogNext]_(Log!logVars)
  BY StepRefines
<1>3. QED
  BY <1>1, <1>2, Invariance, PTL DEF Spec, Implements, Log!LogSpec

------------------------------------------------------------------------------
(* The commands around the anchor file.                                    *)

States == {"absent", "running"} \cup Terminated
Places == {"start", "watching", "dumping", "checking"} \cup Stopped

TrackTypes ==
    /\ verb \in [Submission -> {"run", "submit"}]
    /\ command \in [Reader -> {"status", "attach", "fetch"}]
    /\ process \in [Submission -> States]
    /\ at \in [Actor -> Places]
    /\ target \in [Actor -> Submission \cup {NoTarget}]
    /\ view \in [Actor -> States]
    /\ tree \in [Actor -> {"none", "partial", "complete"}]
    /\ said \in [Actor -> {"nothing", "error", "failed", "wrote", "unfinished"}]

\* A reader has a target from its resolution on, and what it resolved to was
\* launched before: its process cannot be launched, only end.
Resolved(r) ==
    /\ at[r] = "start" => target[r] = NoTarget
    /\ at[r] \in {"start", "watching", "dumping"} => tree[r] = "none"
    /\ at[r] \in {"watching", "dumping", "checking"} => target[r] # NoTarget
    /\ target[r] # NoTarget => pc[target[r]] # "build"

\* An attach goes past the watching only once the process has ended, and what
\* it reads from then on cannot be out of date.
AttachHasSeenTheEnd(r) ==
    command[r] = "attach" /\ target[r] # NoTarget /\ at[r] \in {"dumping", "checking", "exited"} =>
       /\ process[target[r]] \in Terminated
       /\ at[r] # "exited" => view[r] = process[target[r]]
       /\ at[r] = "checking" => tree[r] = "complete"
       /\ at[r] = "exited" =>
             \/ tree[r] = "none" /\ said[r] = "error"
             \/ /\ tree[r] = "complete"
                /\ said[r] = (IF process[target[r]] = "failed" THEN "failed" ELSE "wrote")

\* The inductive invariant.
TrackInv ==
    /\ IInv
    /\ TrackTypes
    /\ RunIsFindable
    /\ \A r \in Reader : Resolved(r) /\ AttachHasSeenTheEnd(r)

------------------------------------------------------------------------------

\* Nothing the commands around the anchor do is new to the anchor.
LEMMA TrackStepIsAnchorStep == [TrackNext]_allVars => [Next]_vars
BY DEF TrackNext, allVars, vars, LaunchProcess, DaemonRefuses, AnchorStep, AfterRecord,
       DaemonFinishes, ResolveFails, Resolve, Follow, WatchEnds, Dump, RefuseFolder, Conclude,
       KillWatcher, SwitchDaemon, UserStep, MoveFolder, Next

\* An entry once in the file stays.
LEMMA EntriesStay ==
  ASSUME IInv, [Next]_vars, NEW s \in Submission, InAnchor(s)
  PROVE  InAnchor(s)'
<1>1. CASE \E u \in Submission : Replace(u)
  <2>1. PICK u \in Submission : Replace(u)
    BY <1>1
  <2>2. anchor'.entries = Append(anchor.entries, u)
    BY <2>1, ReplaceAppends
  <2>3. anchor.entries \in Seq(Submission)
    BY DEF IInv, TypeOK
  <2>4. Contains(Append(anchor.entries, u), s) <=> (s = u \/ Contains(anchor.entries, s))
    BY <2>3, AppendContains
  <2>5. QED
    BY <2>2, <2>4 DEF InAnchor
<1>2. CASE ~\E u \in Submission : Replace(u)
  BY <1>2, OthersKeepEntries DEF IInv, InAnchor
<1>3. QED
  BY <1>1, <1>2

\* A submission that was launched stays so.
LEMMA LaunchedForGood ==
  ASSUME TypeOK, [Next]_vars, NEW s \in Submission, pc[s] # "build"
  PROVE  pc'[s] # "build"
BY DEF TypeOK, Next, RecordSubmission, Launch, RefuseUnstored, BeginAppend,
       Acquire, TimeOut, Read, ReadMalformed, WriteTemp, Replace, Release, WriteFails,
       Interrupt, Kill, DeleteLock, EditAnchor, vars, Goto

\* The newest entry is a submission that was launched.
LEMMA NewestWasLaunched ==
  ASSUME IInv, anchor.entries # <<>>
  PROVE  /\ Last(anchor.entries) \in Submission
         /\ pc[Last(anchor.entries)] # "build"
<1>1. anchor.entries \in Seq(Submission)
  BY DEF IInv, TypeOK
<1>2. Len(anchor.entries) \in 1 .. Len(anchor.entries)
  BY <1>1
<1>3. Last(anchor.entries) \in Submission /\ InAnchor(Last(anchor.entries))
  BY <1>1, <1>2 DEF Last, InAnchor, Contains
<1>4. QED
  BY <1>3 DEF IInv, EntryMatchesStep, EntryMatches

------------------------------------------------------------------------------

\* At first nothing was launched, and nobody follows anything.
LEMMA TrackInvInit == TrackInit => TrackInv
<1> SUFFICES ASSUME TrackInit PROVE TrackInv
  OBVIOUS
<1>1. IInv
  BY InvInit DEF TrackInit
<1>2. TrackTypes
  BY CommandsAssumption DEF TrackInit, TrackTypes, Actor, States, Places, Stopped
<1>3. RunIsFindable /\ \A r \in Reader : Resolved(r) /\ AttachHasSeenTheEnd(r)
  BY DEF TrackInit, RunIsFindable, Resolved, AttachHasSeenTheEnd, Actor
<1>4. QED
  BY <1>1, <1>2, <1>3 DEF TrackInv

\* Each step of a command, of the daemon or of the user keeps the types.
LEMMA TrackTypeStep == TrackInv /\ [TrackNext]_allVars => TrackTypes'
<1> SUFFICES ASSUME TrackInv, [TrackNext]_allVars PROVE TrackTypes'
  OBVIOUS
<1> USE DEF TrackInv, TrackTypes, Actor, States, Places, Stopped, Terminated, Advance, Say
<1>1. ASSUME NEW s \in Submission, LaunchProcess(s) PROVE TrackTypes'
  BY <1>1 DEF LaunchProcess
<1>2. ASSUME NEW s \in Submission, AfterRecord(s) PROVE TrackTypes'
  BY <1>2 DEF AfterRecord
<1>3. ASSUME NEW s \in Submission, DaemonFinishes(s) PROVE TrackTypes'
  BY <1>3 DEF DaemonFinishes
<1>4. ASSUME NEW r \in Reader, ResolveFails(r) PROVE TrackTypes'
  BY <1>4 DEF ResolveFails
<1>5. ASSUME NEW r \in Reader, Resolve(r) PROVE TrackTypes'
  BY <1>5, NewestWasLaunched DEF Resolve
<1>6. ASSUME NEW a \in Actor, WatchEnds(a) PROVE TrackTypes'
  BY <1>6 DEF WatchEnds
<1>7. ASSUME NEW a \in Actor, Dump(a) PROVE TrackTypes'
  BY <1>7 DEF Dump
<1>8. ASSUME NEW a \in Actor, Conclude(a) PROVE TrackTypes'
  BY <1>8 DEF Conclude, Observe
<1>9. ASSUME NEW a \in Actor, KillWatcher(a) PROVE TrackTypes'
  BY <1>9 DEF KillWatcher
<1>10. CASE SwitchDaemon \/ MoveFolder
  BY <1>10 DEF SwitchDaemon, MoveFolder
<1>11. CASE UNCHANGED trackVars
  BY <1>11 DEF trackVars
<1>12. ASSUME NEW a \in Actor, RefuseFolder(a) PROVE TrackTypes'
  BY <1>12 DEF RefuseFolder
<1>13. QED
  BY <1>1, <1>2, <1>3, <1>4, <1>5, <1>6, <1>7, <1>8, <1>9, <1>10, <1>11, <1>12
     DEF TrackNext, Follow, DaemonRefuses, AnchorStep, UserStep, allVars

------------------------------------------------------------------------------

\* Once `run` is back from recording, the entry or the printed uuid stays.
LEMMA FindableStep ==
  ASSUME TrackInv, IInv', [TrackNext]_allVars
  PROVE  RunIsFindable'
<1> SUFFICES ASSUME NEW s \in Submission, verb'[s] = "run", at'[s] # "start"
             PROVE  InAnchor(s)' \/ s \in told'
  BY DEF RunIsFindable
<1> USE DEF TrackInv, TrackTypes, Actor
<1>1. [Next]_vars
  BY TrackStepIsAnchorStep
<1>2. verb' = verb /\ told \subseteq told'
  BY DEF TrackNext, allVars, trackVars, LaunchProcess, DaemonRefuses, AnchorStep,
         AfterRecord, DaemonFinishes, ResolveFails, Resolve, Follow, WatchEnds, Dump, RefuseFolder,
         Conclude, KillWatcher, SwitchDaemon, UserStep, MoveFolder
<1>3. CASE at[s] # "start"
  <2>1. InAnchor(s) \/ s \in told
    BY <1>2, <1>3 DEF RunIsFindable
  <2>2. QED
    BY <1>1, <1>2, <2>1, EntriesStay
<1>4. CASE at[s] = "start"
  <2>1. AfterRecord(s)
    BY <1>4, ReaderAssumption
       DEF TrackNext, allVars, trackVars, LaunchProcess, DaemonRefuses, AnchorStep,
           AfterRecord, DaemonFinishes, ResolveFails, Resolve, Follow, WatchEnds, Dump, RefuseFolder,
           Conclude, KillWatcher, SwitchDaemon, UserStep, MoveFolder, Advance
  <2>2. CASE pc[s] = "done"
    <3>1. InAnchor(s)
      BY <2>2 DEF IInv, EntryMatchesStep, EntryMatches
    <3>2. QED
      BY <1>1, <3>1, EntriesStay
  <2>3. CASE pc[s] = "failed"
    BY <1>2, <2>1, <2>3 DEF AfterRecord, HandsBackUuid
  <2>4. QED
    BY <2>1, <2>2, <2>3 DEF AfterRecord
<1>5. QED
  BY <1>3, <1>4

\* What a reader resolved to stays launched, whoever takes the step.
LEMMA ResolvedStep ==
  ASSUME TrackInv, [TrackNext]_allVars, NEW r \in Reader
  PROVE  Resolved(r)'
<1> USE ReaderAssumption DEF TrackInv, TrackTypes, Actor, Resolved, Advance
<1>1. [Next]_vars /\ TypeOK
  BY TrackStepIsAnchorStep DEF IInv
<1>2. \A s \in Submission : pc[s] # "build" => pc'[s] # "build"
  BY <1>1, LaunchedForGood
<1>3. target[r] # NoTarget => pc'[target[r]] # "build"
  BY <1>2
<1>4. ASSUME NEW s \in Submission, LaunchProcess(s) PROVE Resolved(r)'
  BY <1>3, <1>4 DEF LaunchProcess
<1>5. ASSUME NEW s \in Submission, AfterRecord(s) PROVE Resolved(r)'
  BY <1>3, <1>5 DEF AfterRecord
<1>6. ASSUME NEW s \in Submission, DaemonFinishes(s) PROVE Resolved(r)'
  BY <1>3, <1>6 DEF DaemonFinishes
<1>7. ASSUME NEW q \in Reader, ResolveFails(q) PROVE Resolved(r)'
  BY <1>3, <1>7 DEF ResolveFails
<1>8. ASSUME NEW q \in Reader, Resolve(q) PROVE Resolved(r)'
  <2>1. /\ Last(anchor.entries) \in Submission
        /\ pc'[Last(anchor.entries)] # "build"
    BY <1>2, <1>8, NewestWasLaunched DEF Resolve
  <2>2. CASE q = r
    BY <1>8, <2>1, <2>2, NoTargetAssumption DEF Resolve
  <2>3. CASE q # r
    BY <1>3, <1>8, <2>3 DEF Resolve
  <2>4. QED
    BY <2>2, <2>3
<1>9. ASSUME NEW a \in Actor, Follow(a) PROVE Resolved(r)'
  BY <1>3, <1>9 DEF Follow, WatchEnds, Dump, RefuseFolder, Conclude
<1>10. ASSUME NEW a \in Actor, KillWatcher(a) PROVE Resolved(r)'
  BY <1>3, <1>10 DEF KillWatcher
<1>11. CASE SwitchDaemon \/ MoveFolder
  BY <1>3, <1>11 DEF SwitchDaemon, MoveFolder
<1>12. CASE UNCHANGED trackVars
  BY <1>3, <1>12 DEF trackVars
<1>13. QED
  BY <1>4, <1>5, <1>6, <1>7, <1>8, <1>9, <1>10, <1>11, <1>12
     DEF TrackNext, DaemonRefuses, AnchorStep, UserStep, allVars

\* What an attach has seen to end has ended, and the tree it writes and the
\* words it says after that are those of the end.
LEMMA AttachStep ==
  ASSUME TrackInv, [TrackNext]_allVars, NEW r \in Reader
  PROVE  AttachHasSeenTheEnd(r)'
<1> USE ReaderAssumption
    DEF TrackInv, TrackTypes, Actor, Resolved, AttachHasSeenTheEnd, Advance, Say, Stopped
<1>1. ASSUME NEW s \in Submission, LaunchProcess(s) PROVE AttachHasSeenTheEnd(r)'
  <2>1. target[r] # s /\ pc[s] = "build"
    BY <1>1, NoTargetAssumption DEF LaunchProcess, Launch
  <2>2. QED
    BY <1>1, <2>1 DEF LaunchProcess
<1>2. ASSUME NEW s \in Submission, AfterRecord(s) PROVE AttachHasSeenTheEnd(r)'
  BY <1>2 DEF AfterRecord
<1>3. ASSUME NEW s \in Submission, DaemonFinishes(s) PROVE AttachHasSeenTheEnd(r)'
  BY <1>3 DEF DaemonFinishes, Terminated
<1>4. ASSUME NEW q \in Reader, ResolveFails(q) PROVE AttachHasSeenTheEnd(r)'
  BY <1>4 DEF ResolveFails
<1>5. ASSUME NEW q \in Reader, Resolve(q) PROVE AttachHasSeenTheEnd(r)'
  <2>1. CASE q = r
    <3>1. command[r] = "attach" => at'[r] = "watching"
      BY <1>5, <2>1 DEF Resolve
    <3>2. command' = command
      BY <1>5 DEF Resolve
    <3>3. QED
      BY <3>1, <3>2
  <2>2. CASE q # r
    BY <1>5, <2>2 DEF Resolve
  <2>3. QED
    BY <2>1, <2>2
<1>6. ASSUME NEW a \in Actor, WatchEnds(a) PROVE AttachHasSeenTheEnd(r)'
  BY <1>6 DEF WatchEnds
<1>7. ASSUME NEW a \in Actor, Dump(a) PROVE AttachHasSeenTheEnd(r)'
  BY <1>7 DEF Dump
<1>8. ASSUME NEW a \in Actor, Conclude(a) PROVE AttachHasSeenTheEnd(r)'
  <2>1. CASE a = r
    <3>1. PICK state \in {"running"} \cup Terminated :
             /\ Observe(r, state)
             /\ said' = [said EXCEPT ![r] =
                           CASE r \in Submission -> said[r]
                             [] r \in Reader /\ state = "failed" -> "failed"
                             [] r \in Reader /\ state = "ok" -> "wrote"
                             [] OTHER -> "unfinished"]
      BY <1>8, <2>1 DEF Conclude
    <3>2. ASSUME command[r] = "attach", target[r] # NoTarget
          PROVE  state = process[target[r]] /\ process[target[r]] \in {"ok", "failed"}
      BY <1>8, <2>1, <3>1, <3>2 DEF Conclude, Observe, Terminated
    <3>3. ASSUME command[r] = "attach", target[r] # NoTarget
          PROVE  said'[r] = (IF process[target[r]] = "failed" THEN "failed" ELSE "wrote")
      BY <3>1, <3>2, <3>3
    <3>4. QED
      BY <1>8, <2>1, <3>2, <3>3 DEF Conclude, Terminated
  <2>2. CASE a # r
    BY <1>8, <2>2 DEF Conclude, Observe
  <2>3. QED
    BY <2>1, <2>2
<1>9. ASSUME NEW a \in Actor, KillWatcher(a) PROVE AttachHasSeenTheEnd(r)'
  BY <1>9 DEF KillWatcher
<1>10. CASE SwitchDaemon \/ MoveFolder
  BY <1>10 DEF SwitchDaemon, MoveFolder
<1>11. CASE UNCHANGED trackVars
  BY <1>11 DEF trackVars
<1>12. ASSUME NEW a \in Actor, RefuseFolder(a) PROVE AttachHasSeenTheEnd(r)'
  BY <1>12 DEF RefuseFolder
<1>13. QED
  BY <1>1, <1>2, <1>3, <1>4, <1>5, <1>6, <1>7, <1>8, <1>9, <1>10, <1>11, <1>12
     DEF TrackNext, Follow, DaemonRefuses, AnchorStep, UserStep, allVars

------------------------------------------------------------------------------

\* The inductive invariant holds of every behaviour with a careful user.
LEMMA TrackInvariance == ASSUME CarefulUser PROVE TrackSpec => []TrackInv
<1>1. TrackInv /\ [TrackNext]_allVars => TrackInv'
  <2> SUFFICES ASSUME TrackInv, [TrackNext]_allVars PROVE TrackInv'
    OBVIOUS
  <2>1. IInv'
    BY TrackStepIsAnchorStep, InvStep DEF TrackInv
  <2>2. QED
    BY <2>1, TrackTypeStep, FindableStep, ResolvedStep, AttachStep DEF TrackInv
<1>2. QED
  BY <1>1, TrackInvInit, PTL DEF TrackSpec

\* `run`: "a run interrupted (e.g. Ctrl-C) after submission can still be found",
\* through the anchor or the uuid it printed, for any number of submissions.
THEOREM RunsAreFindable == ASSUME CarefulUser PROVE TrackSpec => []RunIsFindable
<1>1. TrackInv => RunIsFindable
  BY DEF TrackInv
<1>2. QED
  BY <1>1, TrackInvariance, PTL

\* `attach` ends with the whole tree written and the true outcome told, or with
\* an error and nothing written if the folder is not a dump's, however many
\* readers and submissions there are, and whatever the daemon does meanwhile.
THEOREM AttachIsComplete == ASSUME CarefulUser PROVE TrackSpec => []AttachTellsAll
<1>1. TrackInv => AttachTellsAll
  BY DEF TrackInv, AttachHasSeenTheEnd, AttachTellsAll
<1>2. QED
  BY <1>1, TrackInvariance, PTL
==============================================================================
