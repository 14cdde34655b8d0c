-------------------------- MODULE DumpFolderProofs ---------------------------
(***************************************************************************)
(* Proofs about DumpFolder, for any set of processes: what dump_workgraph  *)
(* reports written is whole, the folder holds the files of one process,    *)
(* and a folder the user made is never touched.                            *)
(***************************************************************************)
EXTENDS DumpFolder, TLAPS

\* While a dump is going on the folder is koopmans' own and nothing has been
\* reported; once deleted it holds only files of the process being dumped.
DumpInProgress ==
    /\ pc # "idle" => outcome = "none" /\ ~theirs /\ process \in Process
    /\ pc \in {"writing", "tidying"} => folder \subseteq {Marker, Raw(process)}
    /\ pc = "tidying" => {Marker, Raw(process)} \subseteq folder

\* A folder the user made holds the user's files and no marker.
TheirsIsForeign == theirs => folder = {UserFiles}

DumpInv ==
    /\ DumpTypeOK
    /\ DumpInProgress
    /\ TheirsIsForeign
    /\ OneProcessAtATime
    /\ WrittenTreeIsWhole

USE NoProcessAssumption DEF Marker, UserFiles, Raw, Tidied

\* Before the first dump there is no folder.
LEMMA DumpInvInit == DumpInit => DumpInv
BY DEF DumpInit, DumpInv, DumpTypeOK, DumpInProgress, TheirsIsForeign,
       OneProcessAtATime, WrittenTreeIsWhole

\* Each step of a dump, of a kill and of the user keeps the types.
LEMMA DumpTypeStep == DumpInv /\ [DumpNext]_dumpVars => DumpTypeOK'
<1> SUFFICES ASSUME DumpInv, [DumpNext]_dumpVars PROVE DumpTypeOK'
    OBVIOUS
<1> USE DEF DumpTypeOK, Item
<1>0. DumpTypeOK /\ DumpInProgress  BY DEF DumpInv
<1>1. ASSUME NEW p \in Process, Accept(p) \/ Refuse(p) PROVE DumpTypeOK'
    BY <1>0, <1>1 DEF Accept, Refuse
<1>2. CASE DeleteOne \/ Deleted
    BY <1>0, <1>2 DEF DeleteOne, Deleted
<1>3. CASE WriteOne \/ Written
    BY <1>0, <1>3 DEF WriteOne, Written, DumpInProgress
<1>4. CASE Tidy
    BY <1>0, <1>4 DEF Tidy, DumpInProgress
<1>5. CASE Killed
    BY <1>0, <1>5 DEF Killed, DumpInProgress
<1>6. CASE UserAddsFiles \/ UserDeletesFolder
    BY <1>0, <1>6 DEF UserAddsFiles, UserDeletesFolder
<1>7. CASE UNCHANGED dumpVars
    BY <1>0, <1>7 DEF dumpVars
<1> QED
    BY <1>1, <1>2, <1>3, <1>4, <1>5, <1>6, <1>7 DEF DumpNext, DumpStep

\* Each step keeps what ties the folder to the step of the dump.
LEMMA DumpInvStep == DumpInv /\ [DumpNext]_dumpVars => DumpInv'
<1> SUFFICES ASSUME DumpInv, [DumpNext]_dumpVars PROVE DumpInv'
    OBVIOUS
<1>t. DumpTypeOK'
    BY DumpTypeStep
<1>r. /\ DumpTypeOK /\ DumpInProgress /\ TheirsIsForeign
      /\ OneProcessAtATime /\ WrittenTreeIsWhole
    BY DEF DumpInv
<1> SUFFICES /\ DumpInProgress' /\ TheirsIsForeign'
             /\ OneProcessAtATime' /\ WrittenTreeIsWhole'
    BY <1>t DEF DumpInv
<1> USE <1>r DEF DumpTypeOK, DumpInProgress, TheirsIsForeign, OneProcessAtATime,
                 WrittenTreeIsWhole
<1>1. ASSUME NEW p \in Process, Accept(p)
      PROVE  /\ DumpInProgress' /\ TheirsIsForeign'
             /\ OneProcessAtATime' /\ WrittenTreeIsWhole'
    BY <1>1 DEF Accept
<1>2. ASSUME NEW p \in Process, Refuse(p)
      PROVE  /\ DumpInProgress' /\ TheirsIsForeign'
             /\ OneProcessAtATime' /\ WrittenTreeIsWhole'
    BY <1>2 DEF Refuse
<1>3. CASE DeleteOne
    BY <1>3 DEF DeleteOne
<1>4. CASE Deleted
    BY <1>4 DEF Deleted
<1>5. CASE WriteOne
    BY <1>5 DEF WriteOne
<1>6. CASE Written
    BY <1>6 DEF Written
<1>7. CASE Tidy
    BY <1>7 DEF Tidy
<1>8. CASE Killed
    BY <1>8 DEF Killed
<1>9. CASE UserAddsFiles
    BY <1>9 DEF UserAddsFiles
<1>10. CASE UserDeletesFolder
    BY <1>10 DEF UserDeletesFolder
<1>11. CASE UNCHANGED dumpVars
    BY <1>11 DEF dumpVars
<1> QED
    BY <1>1, <1>2, <1>3, <1>4, <1>5, <1>6, <1>7, <1>8, <1>9, <1>10, <1>11
    DEF DumpNext, DumpStep

\* The inductive invariant holds of every behaviour.
LEMMA DumpInvariance == DumpSpec => []DumpInv
BY DumpInvInit, DumpInvStep, PTL DEF DumpSpec

\* Every variable of a dump keeps its type.
THEOREM DumpTypeCorrect == DumpSpec => []DumpTypeOK
<1>1. DumpInv => DumpTypeOK  BY DEF DumpInv
<1> QED  BY <1>1, DumpInvariance, PTL

\* A dump that dump_workgraph returns from has written its process's tree and
\* has left nothing of an earlier one.
THEOREM WrittenIsWhole == DumpSpec => []WrittenTreeIsWhole
<1>1. DumpInv => WrittenTreeIsWhole  BY DEF DumpInv
<1> QED  BY <1>1, DumpInvariance, PTL

\* Deleting before writing never leaves the files of two processes side by side.
THEOREM OneProcess == DumpSpec => []OneProcessAtATime
<1>1. DumpInv => OneProcessAtATime  BY DEF DumpInv
<1> QED  BY <1>1, DumpInvariance, PTL

\* dump_workgraph neither deletes nor writes in a folder the user made.
THEOREM UserFolderSafe == DumpSpec => UserFolderUntouched
<1>1. DumpInv /\ [DumpNext]_dumpVars => [theirs /\ theirs' => folder' = folder]_dumpVars
    <2> SUFFICES ASSUME DumpInv, [DumpNext]_dumpVars, theirs, theirs'
                 PROVE  folder' = folder
        OBVIOUS
    <2>1. folder = {UserFiles} /\ pc = "idle"
        BY DEF DumpInv, DumpInProgress, TheirsIsForeign
    <2>2. CASE \E p \in Process : Accept(p) \/ Refuse(p)
        BY <2>2 DEF Accept, Refuse
    <2>3. CASE DumpStep \/ Killed
        BY <2>1, <2>3 DEF DumpStep, DeleteOne, Deleted, WriteOne, Written, Tidy, Killed
    <2>4. CASE UserAddsFiles \/ UserDeletesFolder
        BY <2>1, <2>4 DEF UserAddsFiles, UserDeletesFolder
    <2>5. CASE UNCHANGED dumpVars
        BY <2>5 DEF dumpVars
    <2> QED
        BY <2>2, <2>3, <2>4, <2>5 DEF DumpNext
<1> QED
    BY <1>1, DumpInvariance, PTL DEF DumpSpec, UserFolderUntouched
==============================================================================
