------------------------- MODULE NativeBackupProofs -------------------------
(***************************************************************************)
(* Theorems about NativeBackup, for every number of pages, step size, busy *)
(* limit and number of writes, faults and crashes.  What a page copied     *)
(* earlier has to do with the source (CopyInStep) is inductive given the   *)
(* types; what the destination holds and what backup returns are followed  *)
(* through the places of the call (Before, Commits, After), with what      *)
(* PagerProofs says of a transaction that a crash may end.                 *)
(***************************************************************************)
EXTENDS NativeBackup, PagerProofs

\* Only pDb's open transaction makes its file differ from what is committed.
SourceInv == srcFile = src \/ (way = "backup" /\ pDbTxn = "write")

\* What is not dirty in the cache is in the file.
Clean == \A p \in Pages : p \notin dirty => copy[p] = file[p]

Before ==
  /\ pc \in {"open", "init", "step"} \/ Committing =>
       /\ DirtyLogged /\ Clean /\ Contents = Original
       /\ errcode["pFile"] = "OK" /\ nTimeout <= NTimeoutLimit
  /\ pc \in {"open", "init"} => pBackup = NoBackup
  /\ pc = "step" => pBackup.on /\ pBackup.rc # "DONE"

Commits ==
  /\ Committing => pBackup.on /\ journal.exists /\ copy = src /\ "src" \notin locked
  /\ pc \in {"pages", "unlink"} => \A p \in dirty : Undone(p)
  /\ pc = "unlink" => dirty = {} /\ durable = file

After ==
  /\ pc = "finish" =>
       /\ pBackup.on /\ pBackup.rc # "OK" /\ (Replaced <=> pBackup.rc = "DONE")
  /\ pc \in {"errcode", "close", "returned", "crashed"} => pBackup = NoBackup
  /\ pc = "errcode" /\ way = "backup" => (errcode["pFile"] = "OK" <=> Replaced)
  /\ pc \in {"close", "returned"} =>
       result # "none" /\ (way = "backup" => (result = "OK" <=> Replaced))
  /\ pc = "returned" => ~pFileOpen

IInv == TypeOK /\ PagerInv /\ CopyInStep /\ SourceInv /\ Before /\ Commits /\ After

----------------------------------------------------------------------------
\* A step ends on a page of the source, at or after the page before the one it began on.
LEMMA LastPageType ==
  ASSUME pBackup.iNext \in 1..NPages + 1
  PROVE  LastPage \in 1..NPages /\ LastPage >= pBackup.iNext - 1
  BY NPagesAssumption, PagesPerStepAssumption, SMT DEF LastPage

\* The copy loop counts a busy step and gives up only when it was one too many.
LEMMA CopyLoopResult ==
  ASSUME NEW rc, TypeOK, nTimeout <= NTimeoutLimit, CopyLoop(rc)
  PROVE  /\ pc' \in {"step", "finish"} /\ nTimeout' \in 0..NTimeoutLimit + 1
         /\ pc' = "step" => nTimeout' <= NTimeoutLimit
         /\ pc' = "step" => rc \in {"OK", "BUSY"}
         /\ pc' = "finish" => rc # "OK"
  BY NTimeoutLimitAssumption, SMT DEF CopyLoop, TypeOK

LEMMA NoBackupType == NoBackup \in Backups
  BY NPagesAssumption, SMT DEF NoBackup, Backups

LEMMA BackupFields ==
  ASSUME pBackup \in Backups,
         NEW rc \in {"OK", "BUSY", "ERROR", "DONE"}, NEW next \in 1..NPages + 1, NEW lock \in BOOLEAN
  PROVE  /\ [pBackup EXCEPT !.rc = rc] \in Backups
         /\ [pBackup EXCEPT !.iNext = next] \in Backups
         /\ [pBackup EXCEPT !.rc = rc, !.bDestLocked = lock] \in Backups
         /\ [pBackup EXCEPT !.rc = rc, !.iNext = next, !.bDestLocked = lock] \in Backups
  BY DEF Backups

LEMMA InitIInv == Init => IInv
<1> SUFFICES ASSUME Init PROVE IInv
  OBVIOUS
<1>1. PagerInv /\ DirtyLogged /\ Contents = Original
  BY PagerInitInv DEF Init
<1>2. TypeOK
  <2>1. src \in [Pages -> Nat] /\ srcFile \in [Pages -> Nat]
    BY DEF Init
  <2>2. errcode \in [{"pDb", "pFile"} -> {"OK", "BUSY", "ERROR"}]
    BY DEF Init
  <2>3. pBackup \in Backups
    BY NoBackupType DEF Init
  <2>4. /\ nTimeout \in 0..NTimeoutLimit + 1 /\ writes \in Nat /\ faults \in Nat
        /\ crashes \in Nat
    BY NTimeoutLimitAssumption, SMT DEF Init
  <2> QED
    BY <1>1, <2>1, <2>2, <2>3, <2>4 DEF Init, TypeOK, PagerInv, PagerType
<1>3. CopyInStep
  BY DEF Init, CopyInStep, Copying, NoBackup
<1>4. Clean
  BY DEF Init, PagerInit, Clean
<1>5. Before
  BY <1>1, <1>4, NTimeoutLimitAssumption, SMT DEF Init, Before
<1> QED
  BY <1>1, <1>2, <1>3, <1>5 DEF Init, IInv, SourceInv, Commits, After, Committing

----------------------------------------------------------------------------
\* The steps of the call.
LEMMA OpenAndInit == IInv /\ (OpenFile \/ BackupInit) => IInv'
<1> SUFFICES ASSUME IInv, OpenFile \/ BackupInit PROVE IInv'
  OBVIOUS
<1> USE DEF IInv
<1>1. /\ UNCHANGED <<way, nTimeout, src, srcFile, copy, dirty, file, durable, journal, pDbTxn,
                     locked, writes, crashes>>
      /\ pc \in {"open", "init"} /\ faults' \in Nat
  BY SMT DEF OpenFile, BackupInit, data, pager, others, Fault, NoFault, TypeOK
<1>2. PagerInv' /\ SourceInv' /\ (Contents' = Contents) /\ (DirtyLogged /\ Clean)'
  BY <1>1 DEF PagerInv, PagerType, WriteAhead, Undone, SourceInv, Contents, DirtyLogged, Clean,
              Before
<1>3. Contents = Original /\ errcode["pFile"] = "OK" /\ nTimeout <= NTimeoutLimit
      /\ pBackup = NoBackup
  BY <1>1 DEF Before
<1>4. CASE OpenFile
  <2>1. /\ UNCHANGED <<pBackup, errcode>> /\ pFileOpen' = TRUE
        /\ \/ pc' = "init" /\ UNCHANGED result
           \/ pc' = "close" /\ result' = "ERROR"
    BY <1>4 DEF OpenFile
  <2>2. TypeOK'
    BY <1>1, <2>1 DEF TypeOK
  <2>3. CopyInStep'
    BY <1>3, <2>1 DEF CopyInStep, Copying, NoBackup
  <2> QED
    BY <1>1, <1>2, <1>3, <2>1, <2>2, <2>3 DEF Before, Commits, Committing, After, Replaced
<1>5. CASE BackupInit
  <2>1. UNCHANGED <<pFileOpen, result>>
    BY <1>5 DEF BackupInit
  <2>2. CASE UNCHANGED pBackup /\ errcode' = [errcode EXCEPT ![Dest] = "ERROR"]
             /\ pc' = "errcode"
    <3>1. TypeOK'
      BY <1>1, <2>1, <2>2, SMT DEF TypeOK, Dest
    <3>2. CopyInStep'
      BY <1>3, <2>2 DEF CopyInStep, Copying, NoBackup
    <3>3. way = "backup" => errcode'["pFile"] = "ERROR"
      BY <2>2 DEF Dest, TypeOK
    <3> QED
      BY <1>1, <1>2, <1>3, <2>1, <2>2, <3>1, <3>2, <3>3
         DEF Before, Commits, Committing, After, Replaced
  <2>3. CASE pBackup' = [NoBackup EXCEPT !.on = TRUE] /\ pc' = "step" /\ UNCHANGED errcode
    <3>1. pBackup' \in Backups /\ pBackup'.on /\ pBackup'.rc = "OK" /\ pBackup'.iNext = 1
      BY <2>3, NoBackupType DEF Backups, NoBackup
    <3>2. TypeOK'
      BY <1>1, <2>1, <2>3, <3>1 DEF TypeOK
    <3>3. CopyInStep'
      BY <3>1, SMT DEF CopyInStep, Pages
    <3> QED
      BY <1>1, <1>2, <1>3, <2>1, <2>3, <3>1, <3>2, <3>3
         DEF Before, Commits, Committing, After, Replaced
  <2> QED
    BY <1>5, <2>2, <2>3 DEF BackupInit
<1> QED
  BY <1>4, <1>5

\* A step that copies nothing: pBackup keeps iNext, and what it returned decides whether
\* the call goes on.
LEMMA StepEnds ==
  ASSUME IInv, pc = "step" \/ Committing, NEW rc \in {"BUSY", "ERROR"}, CopyLoop(rc),
         pBackup' \in Backups, pBackup'.rc = rc, pBackup'.on, pBackup'.iNext = pBackup.iNext,
         rc = "BUSY" => Copying,
         faults' \in Nat,
         UNCHANGED <<way, errcode, pFileOpen, result, data, pager, others, writes, crashes>>
  PROVE  IInv'
<1> USE DEF IInv
<1>1. /\ UNCHANGED <<src, srcFile, copy, dirty, file, durable, journal, pDbTxn, locked>>
      /\ nTimeout <= NTimeoutLimit /\ Contents = Original /\ errcode["pFile"] = "OK"
  BY DEF data, pager, others, Before
<1>2. PagerInv' /\ SourceInv' /\ (Contents' = Contents) /\ (DirtyLogged /\ Clean)'
  BY <1>1 DEF PagerInv, PagerType, WriteAhead, Undone, SourceInv, Contents, DirtyLogged, Clean,
              Before
<1>3. /\ pc' \in {"step", "finish"} /\ nTimeout' \in 0..NTimeoutLimit + 1
      /\ pc' = "step" => nTimeout' <= NTimeoutLimit /\ rc = "BUSY"
  BY <1>1, CopyLoopResult
<1>4. TypeOK'
  BY <1>1, <1>3 DEF TypeOK
<1>5. CopyInStep'
  BY <1>1, <1>3 DEF CopyInStep, Copying
<1>6. Before'
  BY <1>1, <1>2, <1>3 DEF Before, Committing
<1>7. After'
  BY <1>1, <1>2, <1>3 DEF After, Replaced
<1> QED
  BY <1>2, <1>3, <1>4, <1>5, <1>6, <1>7 DEF Commits, Committing

LEMMA CopyStepInv == IInv /\ CopyStep => IInv'
<1> SUFFICES ASSUME IInv, CopyStep PROVE IInv'
  OBVIOUS
<1>1. /\ UNCHANGED <<way, errcode, pFileOpen, result, data, others, writes, crashes>>
      /\ pc = "step"
  BY DEF CopyStep
<1>2. /\ UNCHANGED <<src, srcFile, pDbTxn, locked>>
      /\ nTimeout <= NTimeoutLimit /\ Contents = Original /\ errcode["pFile"] = "OK"
      /\ pBackup.on /\ pBackup.rc # "DONE" /\ pBackup \in Backups /\ DirtyLogged /\ Clean
      /\ PagerInv /\ TypeOK
  BY <1>1 DEF data, others, Before, TypeOK, IInv
<1>3. CASE StepBusy /\ pBackup.rc # "ERROR"
  <2>1. CopyLoop("BUSY") /\ UNCHANGED pager /\ faults' \in Nat
        /\ pBackup' = [pBackup EXCEPT !.rc = "BUSY"]
    BY <1>2, <1>3 DEF StepBusy, NoFault, TypeOK
  <2>2. pBackup' \in Backups /\ pBackup'.rc = "BUSY" /\ pBackup'.on
        /\ pBackup'.iNext = pBackup.iNext
    BY <1>2, <2>1 DEF Backups
  <2>3. pBackup.rc # "DONE" => Copying
    BY <1>1, <1>2, <1>3 DEF Copying, Backups
  <2> QED
    BY <1>1, <1>2, <2>1, <2>2, <2>3, StepEnds
<1>4. CASE StepFails
  <2>1. PICK lock \in {pBackup.bDestLocked, "dst" \notin locked} :
          pBackup' = [pBackup EXCEPT !.rc = "ERROR", !.bDestLocked = lock]
    BY <1>4 DEF StepFails
  <2>2. CopyLoop("ERROR") /\ UNCHANGED pager /\ faults' \in Nat
    BY <1>2, <1>4, SMT DEF StepFails, Fault, TypeOK
  <2>3. lock \in BOOLEAN
    BY <1>2 DEF Backups
  <2>4. pBackup' \in Backups /\ pBackup'.rc = "ERROR" /\ pBackup'.on
        /\ pBackup'.iNext = pBackup.iNext
    BY <1>2, <2>1, <2>3 DEF Backups
  <2> QED
    BY <1>1, <2>2, <2>4, StepEnds
<1>5. CASE pBackup.rc = "ERROR" /\ CopyLoop("ERROR") /\ NoFault /\ UNCHANGED <<pBackup, pager>>
  BY <1>1, <1>2, <1>5, StepEnds DEF NoFault, TypeOK
<1>6. CASE StepSpills
  <2>1. UNCHANGED <<pc, nTimeout, pBackup, faults>> /\ Spill
    BY <1>6 DEF StepSpills, NoFault
  <2>2. /\ PagerInv' /\ DirtyLogged' /\ journal'.exists /\ UNCHANGED copy
        /\ \E p \in dirty : dirty' = dirty \ {p} /\ file' = [file EXCEPT ![p] = copy[p]]
    BY <1>2, <2>1, SpillInv
  <2>3. Clean'
    BY <1>2, <2>2 DEF Clean, PagerInv, PagerType
  <2>4. Contents' = Original
    <3>1. \A p \in Pages : Contents'[p] = Original[p]
      BY <2>2 DEF Contents, PagerInv, WriteAhead
    <3> QED
      BY <3>1 DEF Contents, Original
  <2>5. TypeOK'
    BY <1>1, <1>2, <2>1, <2>2 DEF TypeOK, PagerInv, PagerType
  <2>6. CopyInStep' /\ SourceInv'
    BY <1>1, <1>2, <2>1, <2>2 DEF IInv, CopyInStep, Copying, SourceInv
  <2>7. Before'
    BY <1>1, <1>2, <2>1, <2>2, <2>3, <2>4 DEF Before, Committing
  <2> QED
    BY <1>1, <2>1, <2>2, <2>5, <2>6, <2>7 DEF IInv, Commits, Committing, After
<1>7. CASE StepCopies /\ pBackup.rc # "ERROR"
  <2> DEFINE next == pBackup.iNext
             last == LastPage
  <2>1. /\ ~SrcBusy /\ faults' = faults
        /\ pBackup' = [pBackup EXCEPT !.rc = "OK", !.iNext = last + 1, !.bDestLocked = TRUE]
    BY <1>7 DEF StepCopies, NoFault
  <2>2. last \in 1..NPages /\ last >= next - 1 /\ next \in 1..NPages + 1
    BY <1>2, LastPageType DEF Backups
  <2>3. srcFile = src /\ "src" \notin locked
    BY <2>1 DEF IInv, SourceInv, SrcBusy
  <2>4. pBackup.rc \in {"OK", "BUSY", "ERROR", "DONE"}
    BY <1>2 DEF Backups
  <2>5. Copying
    BY <1>1, <1>2, <1>7, <2>4 DEF Copying
  <2>6. \A p \in Pages : p < next => copy[p] = src[p]
    BY <2>3, <2>5 DEF IInv, CopyInStep
  <2>7. PICK pages \in SUBSET Pages :
          /\ next..last \subseteq pages /\ PagerWrite(pages, src)
          /\ last = NPages => pages # {}
    <3>1. next..last \subseteq Pages /\ 1 \in Pages
      BY <2>2, NPagesAssumption, SMT DEF Pages
    <3>2. CASE last < NPages /\ PagerWrite(next..last, src)
      BY <2>2, <3>1, <3>2, NPagesAssumption, SMT
    <3>3. CASE last = NPages /\ PagerWrite(next..last \cup {1}, src)
      BY <3>1, <3>3
    <3> QED
      BY <1>7, <3>2, <3>3 DEF StepCopies
  <2>8. src \in [Pages -> Int]
    BY <1>2, SMT DEF TypeOK
  <2>9. /\ PagerInv' /\ DirtyLogged' /\ Contents' = Original
        /\ journal'.exists = (journal.exists \/ pages # {})
    BY <1>2, <2>7, <2>8, PagerWriteInv
  <2>10. /\ copy' = [p \in Pages |-> IF p \in pages THEN src[p] ELSE copy[p]]
         /\ dirty' = dirty \cup pages /\ UNCHANGED <<file, durable>>
    BY <2>7 DEF PagerWrite
  <2>11. Clean'
    BY <1>2, <2>10 DEF Clean
  <2>12. \A p \in Pages : p < last + 1 => copy'[p] = src[p]
    BY <2>2, <2>6, <2>7, <2>10, SMT DEF Pages
  <2>13. /\ pBackup' \in Backups /\ pBackup'.iNext = last + 1 /\ pBackup'.on
         /\ pBackup'.rc = "OK"
    <3>1. last + 1 \in 1..NPages + 1
      BY <2>2, NPagesAssumption, SMT
    <3> QED
      BY <1>2, <2>1, <3>1 DEF Backups
  <2>14. CopyInStep' /\ SourceInv'
    BY <1>1, <1>2, <2>3, <2>12, <2>13 DEF CopyInStep, SourceInv
  <2>15. CASE last < NPages /\ CopyLoop("OK")
    <3>1. /\ pc' = "step" /\ nTimeout' \in 0..NTimeoutLimit + 1
          /\ nTimeout' <= NTimeoutLimit
      BY <1>2, <2>15, CopyLoopResult
    <3>2. TypeOK'
      BY <1>1, <1>2, <2>1, <2>9, <2>13, <3>1 DEF TypeOK, PagerInv, PagerType
    <3>3. Before'
      BY <1>1, <1>2, <2>9, <2>11, <2>13, <3>1 DEF Before
    <3> QED
      BY <2>9, <2>14, <3>1, <3>2, <3>3 DEF IInv, Commits, Committing, After
  <2>16. CASE last = NPages /\ pc' = "journal" /\ UNCHANGED nTimeout
    <3>1. TypeOK'
      BY <1>1, <1>2, <2>1, <2>9, <2>13, <2>16 DEF TypeOK, PagerInv, PagerType
    <3>2. Before'
      BY <1>1, <1>2, <2>9, <2>11, <2>13, <2>16 DEF Before
    <3>3. copy' = src
      <4>1. \A p \in Pages : copy'[p] = src[p]
        BY <2>12, <2>16, NPagesAssumption, SMT DEF Pages
      <4> QED
        BY <2>8, <2>10, <4>1
    <3>4. Commits'
      BY <1>2, <2>3, <2>7, <2>9, <2>13, <2>16, <3>3 DEF Commits, Committing
    <3> QED
      BY <2>9, <2>14, <2>16, <3>1, <3>2, <3>4 DEF IInv, After
  <2> QED
    BY <1>7, <2>15, <2>16 DEF StepCopies
<1> QED
  BY <1>1, <1>3, <1>4, <1>5, <1>6, <1>7 DEF CopyStep

\* Deleting the journal makes the destination the source.
LEMMA CommitsSource == IInv /\ CommitPhaseTwo => Contents' = src
<1> SUFFICES ASSUME IInv, CommitPhaseTwo PROVE Contents' = src
  OBVIOUS
<1>1. pc = "unlink" /\ UNCHANGED <<copy, file>> /\ journal' = [journal EXCEPT !.exists = FALSE]
  BY DEF CommitPhaseTwo, DeleteJournal
<1>2. dirty = {} /\ copy = src /\ Clean /\ src \in [Pages -> Nat] /\ journal \in Journals
  BY <1>1 DEF IInv, Before, Commits, Committing, TypeOK
<1>3. ~journal'.exists
  BY <1>1, <1>2 DEF Journals
<1>4. Contents' = [p \in Pages |-> file[p]]
  BY <1>1, <1>3 DEF Contents
<1>5. \A p \in Pages : file[p] = src[p]
  BY <1>2 DEF Clean
<1> QED
  BY <1>2, <1>4, <1>5

\* The end of the last step.
LEMMA CommitInv == IInv /\ (CommitPhaseOne \/ CommitPhaseTwo \/ CommitFails) => IInv'
<1> SUFFICES ASSUME IInv, CommitPhaseOne \/ CommitPhaseTwo \/ CommitFails PROVE IInv'
  OBVIOUS
<1>1. /\ UNCHANGED <<way, errcode, pFileOpen, result, data, others, writes, crashes>>
      /\ Committing
  BY DEF CommitPhaseOne, CommitPhaseTwo, CommitFails, Committing
<1>2. /\ UNCHANGED <<src, srcFile, pDbTxn, locked>>
      /\ nTimeout <= NTimeoutLimit /\ Contents = Original /\ errcode["pFile"] = "OK"
      /\ pBackup.on /\ pBackup \in Backups /\ DirtyLogged /\ Clean
      /\ PagerInv /\ TypeOK /\ journal.exists /\ copy = src /\ "src" \notin locked
  BY <1>1 DEF data, others, Before, Commits, TypeOK, IInv
<1>3. ASSUME PagerInv', DirtyLogged', Clean', journal'.exists, Committing',
             UNCHANGED <<nTimeout, pBackup, copy, faults>>,
             pc' \in {"pages", "unlink"} => \A p \in dirty' : Undone(p)',
             pc' = "unlink" => dirty' = {} /\ durable' = file'
      PROVE  IInv'
  <2>1. Contents' = Original
    <3>1. \A p \in Pages : Contents'[p] = Original[p]
      BY <1>3 DEF Contents, PagerInv, WriteAhead
    <3> QED
      BY <3>1 DEF Contents, Original
  <2>2. TypeOK'
    BY <1>1, <1>2, <1>3 DEF TypeOK, PagerInv, PagerType, Committing
  <2>3. CopyInStep' /\ SourceInv'
    BY <1>1, <1>2, <1>3 DEF IInv, CopyInStep, Copying, SourceInv, Committing
  <2>4. Before'
    BY <1>1, <1>2, <1>3, <2>1 DEF Before, Committing
  <2>5. Commits'
    BY <1>2, <1>3 DEF Commits
  <2>6. After'
    BY <1>3 DEF After, Committing
  <2> QED
    BY <1>3, <2>2, <2>3, <2>4, <2>5, <2>6 DEF IInv
<1>4. CASE CommitPhaseOne
  <2>1. UNCHANGED <<nTimeout, pBackup, faults>>
    BY <1>4 DEF CommitPhaseOne, NoFault
  <2>2. CASE pc = "journal" /\ pc' = "pages" /\ SyncJournal
             /\ UNCHANGED <<copy, dirty, file, durable>>
    <3>1. /\ PagerInv' /\ DirtyLogged' /\ journal'.exists = journal.exists
          /\ \A p \in dirty : Undone(p)'
      BY <1>2, <2>2, SyncJournalInv
    <3>2. Clean'
      BY <1>2, <2>2 DEF Clean
    <3>3. journal'.exists /\ \A p \in dirty' : Undone(p)'
      BY <1>2, <2>2, <3>1
    <3> QED
      BY <1>3, <2>1, <2>2, <3>1, <3>2, <3>3 DEF Committing
  <2>3. CASE pc = "pages" /\ (\E p \in dirty : WritePage(p)) /\ UNCHANGED <<pc, journal>>
    <3>1. PICK p \in dirty : WritePage(p)
      BY <2>3
    <3>2. Undone(p)
      BY <2>3 DEF IInv, Commits
    <3>3. /\ PagerInv' /\ DirtyLogged' /\ journal'.exists
      BY <1>2, <2>3, <3>1, <3>2, WritePageInv
    <3>4. UNCHANGED copy /\ dirty' = dirty \ {p} /\ file' = [file EXCEPT ![p] = copy[p]]
      BY <3>1 DEF WritePage
    <3>5. Clean'
      BY <1>2, <3>4 DEF Clean, PagerInv, PagerType
    <3>6. \A q \in dirty' : Undone(q)'
      BY <2>3, <3>4 DEF IInv, Commits, Undone
    <3> QED
      BY <1>3, <2>1, <2>3, <3>3, <3>4, <3>5, <3>6 DEF Committing
  <2>4. CASE pc = "pages" /\ dirty = {} /\ pc' = "unlink" /\ PagerSync
             /\ UNCHANGED <<copy, dirty, file, journal>>
    <3>1. durable' = file'
      BY <2>4 DEF PagerSync
    <3>2. PagerInv' /\ DirtyLogged' /\ Clean'
      BY <1>2, <2>4, <3>1 DEF PagerInv, PagerType, WriteAhead, Undone, DirtyLogged, Clean
    <3> QED
      BY <1>2, <1>3, <2>1, <2>4, <3>1, <3>2 DEF Committing
  <2> QED
    BY <1>4, <2>2, <2>3, <2>4 DEF CommitPhaseOne
<1>5. CASE CommitPhaseTwo
  <2>1. /\ pc = "unlink" /\ UNCHANGED <<copy, dirty, file, durable, faults>>
        /\ journal' = [journal EXCEPT !.exists = FALSE]
        /\ pBackup' = [pBackup EXCEPT !.rc = "DONE"] /\ CopyLoop("DONE")
    BY <1>5 DEF CommitPhaseTwo, NoFault, DeleteJournal
  <2>2. dirty = {} /\ durable = file
    BY <2>1 DEF IInv, Commits
  <2>3. journal' \in Journals /\ ~journal'.exists /\ journal'.synced = journal.synced
        /\ journal'.counted = journal.counted /\ journal'.recs = journal.recs
    BY <1>2, <2>1 DEF PagerInv, PagerType, Journals
  <2>4. PagerInv'
    BY <1>2, <2>1, <2>2, <2>3 DEF PagerInv, PagerType, WriteAhead, Undone
  <2>5. Contents' = src'
    BY <1>2, <1>5, CommitsSource
  <2>6. Replaced'
    <3>1. 1 \in Pages
      BY NPagesAssumption, SMT DEF Pages
    <3>2. src[1] \in Nat /\ Original[1] < 0
      BY <1>2, <3>1, OriginalType DEF TypeOK
    <3>3. src[1] # Original[1]
      BY <3>2, SMT
    <3> QED
      BY <1>2, <2>5, <3>3 DEF Replaced
  <2>7. pc' \in {"step", "finish"} /\ pc' # "step" /\ nTimeout' \in 0..NTimeoutLimit + 1
    BY <1>2, <2>1, CopyLoopResult
  <2>8. pBackup' \in Backups /\ pBackup'.rc = "DONE" /\ pBackup'.on
    BY <1>2, <2>1 DEF Backups
  <2>9. TypeOK'
    BY <1>1, <1>2, <2>1, <2>4, <2>7, <2>8 DEF TypeOK, PagerInv, PagerType
  <2>10. CopyInStep' /\ SourceInv'
    BY <1>1, <1>2, <2>8 DEF IInv, CopyInStep, Copying, SourceInv
  <2> QED
    BY <2>4, <2>6, <2>7, <2>8, <2>9, <2>10 DEF IInv, Before, Commits, Committing, After
<1>6. CASE CommitFails
  <2>1. /\ CopyLoop("ERROR") /\ UNCHANGED pager /\ faults' \in Nat
        /\ pBackup' = [pBackup EXCEPT !.rc = "ERROR"]
    BY <1>2, <1>6, SMT DEF CommitFails, Fault, TypeOK
  <2>2. pBackup' \in Backups /\ pBackup'.rc = "ERROR" /\ pBackup'.on
        /\ pBackup'.iNext = pBackup.iNext
    BY <1>2, <2>1 DEF Backups
  <2> QED
    BY <1>1, <2>1, <2>2, StepEnds
<1> QED
  BY <1>4, <1>5, <1>6

\* Playing the journal back changes nothing for the next connection.
LEMMA RecoveryInv == IInv /\ (RollBack \/ Recover) => IInv'
<1> SUFFICES ASSUME IInv, RollBack \/ Recover PROVE IInv'
  OBVIOUS
<1>1. /\ UNCHANGED <<pc, way, nTimeout, pBackup, errcode, pFileOpen, result, src, srcFile,
                     pDbTxn, locked, writes, faults, crashes>>
      /\ pc \in {"finish", "errcode", "close", "returned", "crashed"} /\ Playback
  BY DEF RollBack, Recover, call, data, others
<1>2. PagerInv' /\ Contents = Original /\ Contents' = Original /\ copy' = copy
  BY <1>1, PlaybackInv DEF IInv
<1>3. TypeOK'
  BY <1>1, <1>2 DEF IInv, TypeOK, PagerInv, PagerType
<1>4. CopyInStep' /\ SourceInv'
  BY <1>1, <1>2 DEF IInv, CopyInStep, Copying, SourceInv
<1>5. After'
  BY <1>1, <1>2 DEF IInv, After, Replaced
<1> QED
  BY <1>1, <1>2, <1>3, <1>4, <1>5 DEF IInv, Before, Commits, Committing

\* The rest of the call.
LEMMA EndInv == IInv /\ (BackupFinish \/ Errcode \/ CloseFile) => IInv'
<1> SUFFICES ASSUME IInv, BackupFinish \/ Errcode \/ CloseFile PROVE IInv'
  OBVIOUS
<1>1. /\ UNCHANGED <<way, nTimeout, src, srcFile, copy, dirty, file, durable, journal, pDbTxn,
                     locked, writes, faults, crashes>>
      /\ pc \in {"finish", "errcode", "close"}
  BY DEF BackupFinish, Errcode, CloseFile, data, pager, others
<1>2. PagerInv' /\ SourceInv' /\ (Contents' = Contents)
  BY <1>1 DEF IInv, PagerInv, PagerType, WriteAhead, Undone, SourceInv, Contents
<1>3. TypeOK /\ After
  BY DEF IInv
<1>4. CASE BackupFinish
  <2>1. /\ pc = "finish" /\ pc' = "errcode" /\ pBackup' = NoBackup
        /\ UNCHANGED <<pFileOpen, result>>
        /\ errcode' = [errcode EXCEPT ![Dest] = IF pBackup.rc = "DONE" THEN "OK"
                                                ELSE pBackup.rc]
    BY <1>4 DEF BackupFinish
  <2>2. pBackup.rc \in {"BUSY", "ERROR", "DONE"} /\ (Replaced <=> pBackup.rc = "DONE")
    BY <1>3, <2>1 DEF After, TypeOK, Backups
  <2>3. TypeOK'
    BY <1>1, <1>3, <2>1, <2>2, NoBackupType, SMT DEF TypeOK, Dest
  <2>4. way = "backup" => (errcode'["pFile"] = "OK" <=> pBackup.rc = "DONE")
    BY <1>3, <2>1, <2>2 DEF Dest, TypeOK
  <2>5. CopyInStep' /\ (Replaced' <=> Replaced)
    BY <1>2, <2>1 DEF CopyInStep, Copying, NoBackup, Replaced
  <2> QED
    BY <1>1, <1>2, <2>1, <2>2, <2>3, <2>4, <2>5 DEF IInv, Before, Commits, Committing, After
<1>5. CASE Errcode
  <2>1. /\ pc = "errcode" /\ pc' = "close" /\ result' = errcode["pFile"]
        /\ UNCHANGED <<pBackup, errcode, pFileOpen>>
    BY <1>5 DEF Errcode
  <2>2. errcode["pFile"] \in {"OK", "BUSY", "ERROR"}
    BY <1>3 DEF TypeOK
  <2>3. TypeOK'
    BY <1>1, <1>3, <2>1, <2>2 DEF TypeOK
  <2>4. CopyInStep' /\ (Replaced' <=> Replaced)
    BY <1>1, <1>2, <2>1 DEF IInv, CopyInStep, Copying, Replaced
  <2> QED
    BY <1>1, <1>2, <1>3, <2>1, <2>2, <2>3, <2>4 DEF IInv, Before, Commits, Committing, After
<1>6. CASE CloseFile
  <2>1. /\ pc = "close" /\ pc' = "returned" /\ pFileOpen' = FALSE
        /\ UNCHANGED <<pBackup, errcode, result>>
    BY <1>6 DEF CloseFile
  <2>2. TypeOK'
    BY <1>1, <1>3, <2>1 DEF TypeOK
  <2>3. CopyInStep' /\ (Replaced' <=> Replaced)
    BY <1>1, <1>2, <2>1 DEF IInv, CopyInStep, Copying, Replaced
  <2> QED
    BY <1>1, <1>2, <1>3, <2>1, <2>2, <2>3 DEF IInv, Before, Commits, Committing, After
<1> QED
  BY <1>4, <1>5, <1>6

----------------------------------------------------------------------------
\* What happens meanwhile.
LEMMA LocksInv == IInv /\ (PDbBegins \/ PDbEndsReading \/ OthersLock) => IInv'
<1> SUFFICES ASSUME IInv, PDbBegins \/ PDbEndsReading \/ OthersLock PROVE IInv'
  OBVIOUS
<1>1. UNCHANGED <<pc, way, nTimeout, pBackup, errcode, pFileOpen, result, src, srcFile, copy,
                  dirty, file, durable, journal, writes, faults, crashes>>
  BY DEF PDbBegins, PDbEndsReading, OthersLock, call, data, pager
<1>2. pDbTxn' \in {"none", "read", "write"} /\ locked' \subseteq {"src", "dst"}
  BY DEF PDbBegins, PDbEndsReading, OthersLock, TypeOK, IInv
<1>3. Committing => "src" \notin locked'
  BY DEF PDbBegins, PDbEndsReading, OthersLock, IInv, Commits
<1>4. SourceInv'
  BY <1>1 DEF PDbBegins, PDbEndsReading, OthersLock, IInv, SourceInv
<1>5. PagerInv' /\ (Contents' = Contents)
  BY <1>1 DEF IInv, PagerInv, PagerType, WriteAhead, Undone, Contents
<1>6. TypeOK'
  BY <1>1, <1>2 DEF IInv, TypeOK
<1>7. CopyInStep' /\ After'
  BY <1>1, <1>5 DEF IInv, CopyInStep, Copying, After, Replaced
<1>8. Before'
  BY <1>1, <1>5 DEF IInv, Before, Committing, DirtyLogged, Clean
<1>9. Commits'
  BY <1>1, <1>3 DEF IInv, Commits, Committing, Undone
<1> QED
  BY <1>4, <1>5, <1>6, <1>7, <1>8, <1>9 DEF IInv

\* pDb writes new contents, which differ from the old ones on these pages only.
LEMMA UpdateInv ==
  ASSUME IInv, PDbWrites, NEW pages \in SUBSET Pages, NEW new \in [Pages -> Nat],
         \A p \in Pages \ pages : new[p] = srcFile[p],
         Update(pages, new), srcFile' = new, SourceInv', src' \in [Pages -> Nat],
         writes' \in Nat, pDbTxn' \in {"none", "read", "write"}
  PROVE  IInv'
<1>1. /\ UNCHANGED <<pc, way, nTimeout, errcode, pFileOpen, result, locked, crashes>>
      /\ way = "backup" /\ ~Committing /\ pc \notin {"returned", "crashed"}
  BY DEF PDbWrites, PDbUsable, Live
<1>2. TypeOK /\ PagerInv
  BY DEF IInv
<1>3. pBackup.on => pc \in {"step", "finish"}
  BY <1>1, <1>2 DEF IInv, Before, After, TypeOK, Committing, NoBackup
<1>4. Copying => pc = "step"
  BY <1>3 DEF Copying
<1> DEFINE again == {p \in pages : Copying /\ p < pBackup.iNext}
<1>5. CASE NoFault /\ PagerWrite(again, new) /\ UNCHANGED pBackup
  <2>1. new \in [Pages -> Int] /\ again \in SUBSET Pages
    BY SMT
  <2>2. /\ copy' = [p \in Pages |-> IF p \in again THEN new[p] ELSE copy[p]]
        /\ dirty' = dirty \cup again /\ UNCHANGED <<file, durable, faults, pBackup>>
        /\ again = {} => UNCHANGED journal
    BY <1>5 DEF PagerWrite, NoFault
  <2>3. CopyInStep'
    BY <1>1, <2>2 DEF IInv, CopyInStep, Copying
  <2>4. CASE pc = "step"
    <3>1. DirtyLogged /\ Clean /\ Contents = Original
      BY <2>4 DEF IInv, Before
    <3>2. PagerInv' /\ DirtyLogged' /\ Contents' = Original
      <4> HIDE DEF again
      <4> QED
        BY <1>2, <1>5, <2>1, <3>1, PagerWriteInv
    <3>3. Clean'
      BY <2>2, <3>1 DEF Clean
    <3>4. TypeOK'
      BY <1>1, <1>2, <2>2, <3>2 DEF TypeOK, PagerInv, PagerType
    <3>5. Before'
      BY <1>1, <2>2, <2>4, <3>2, <3>3 DEF IInv, Before
    <3> QED
      BY <1>1, <2>3, <2>4, <3>2, <3>4, <3>5 DEF IInv, Commits, Committing, After
  <2>5. CASE pc # "step"
    <3>1. again = {}
      BY <1>4, <2>5
    <3>2. copy' = copy /\ dirty' = dirty /\ journal' = journal
      BY <1>2, <2>2, <3>1 DEF PagerInv, PagerType
    <3>3. PagerInv' /\ (Contents' = Contents)
      BY <1>2, <2>2, <3>2 DEF PagerInv, PagerType, WriteAhead, Undone, Contents
    <3>4. TypeOK'
      BY <1>1, <1>2, <2>2, <3>3 DEF TypeOK, PagerInv, PagerType
    <3>5. Before'
      BY <1>1, <2>2, <2>5, <3>2, <3>3 DEF IInv, Before, Committing, DirtyLogged, Clean
    <3>6. After'
      BY <1>1, <2>2, <3>3 DEF IInv, After, Replaced
    <3> QED
      BY <1>1, <2>3, <3>3, <3>4, <3>5, <3>6 DEF IInv, Commits, Committing
  <2> QED
    BY <2>4, <2>5
<1>6. CASE again # {} /\ Fault /\ pBackup' = [pBackup EXCEPT !.rc = "ERROR"] /\ UNCHANGED pager
  <2>1. /\ UNCHANGED <<copy, dirty, file, durable, journal>> /\ faults' \in Nat
    BY <1>2, <1>6, SMT DEF pager, Fault, TypeOK
  <2>2. pc = "step" /\ pBackup.on
    BY <1>4, <1>6 DEF Copying
  <2>3. pBackup' \in Backups /\ pBackup'.rc = "ERROR" /\ pBackup'.on
    BY <1>2, <1>6, <2>2 DEF TypeOK, Backups
  <2>4. CopyInStep'
    BY <2>3 DEF CopyInStep, Copying
  <2>5. PagerInv' /\ (Contents' = Contents)
    BY <1>2, <2>1 DEF PagerInv, PagerType, WriteAhead, Undone, Contents
  <2>6. TypeOK'
    BY <1>1, <1>2, <2>1, <2>3, <2>5 DEF TypeOK, PagerInv, PagerType
  <2>7. Before'
    BY <1>1, <2>1, <2>2, <2>3, <2>5 DEF IInv, Before, Committing, DirtyLogged, Clean
  <2> QED
    BY <1>1, <2>2, <2>4, <2>5, <2>6, <2>7 DEF IInv, Commits, Committing, After
<1> QED
  BY <1>5, <1>6 DEF Update

LEMMA PDbWritesInv == IInv /\ (PDbSpills \/ PDbCommits \/ PDbRollsBack) => IInv'
<1> SUFFICES ASSUME IInv, PDbSpills \/ PDbCommits \/ PDbRollsBack PROVE IInv'
  OBVIOUS
<1>1. PDbWrites /\ TypeOK
  BY DEF PDbSpills, PDbCommits, PDbRollsBack, IInv
<1>2. ASSUME NEW pages \in SUBSET Pages, WriteOut(pages)
      PROVE  /\ Written(pages) \in [Pages -> Nat] /\ writes' \in Nat
             /\ \A p \in Pages \ pages : Written(pages)[p] = srcFile[p]
             /\ srcFile' = Written(pages) /\ Update(pages, Written(pages))
  BY <1>1, <1>2, SMT DEF WriteOut, Written, TypeOK
<1>3. CASE PDbSpills
  <2>1. PICK pages \in SUBSET Pages : WriteOut(pages)
    BY <1>3 DEF PDbSpills
  <2>2. UNCHANGED <<src, pDbTxn>> /\ way' = way /\ way = "backup" /\ pDbTxn = "write"
    BY <1>1, <1>3 DEF PDbSpills, PDbWrites
  <2>3. SourceInv'
    BY <2>2 DEF SourceInv
  <2> QED
    BY <1>1, <1>2, <2>1, <2>2, <2>3, UpdateInv DEF TypeOK
<1>4. CASE PDbCommits
  <2>1. PICK pages \in SUBSET Pages : WriteOut(pages)
    BY <1>4 DEF PDbCommits
  <2>2. src' = srcFile' /\ pDbTxn' = "none"
    BY <1>4 DEF PDbCommits
  <2> QED
    BY <1>1, <1>2, <2>1, <2>2, UpdateInv DEF SourceInv
<1>5. CASE PDbRollsBack
  <2>1. pDbTxn' = "none" /\ srcFile' = src /\ Update(Rewritten, src) /\ UNCHANGED <<src, writes>>
    BY <1>5 DEF PDbRollsBack
  <2>2. \A p \in Pages \ Rewritten : src[p] = srcFile[p]
    BY DEF Rewritten
  <2>3. Rewritten \in SUBSET Pages
    BY DEF Rewritten
  <2> HIDE DEF Rewritten
  <2> QED
    BY <1>1, <2>1, <2>2, <2>3, UpdateInv DEF SourceInv, TypeOK
<1> QED
  BY <1>3, <1>4, <1>5

LEMMA OthersUnlockInv == IInv /\ OthersUnlock => IInv'
<1> SUFFICES ASSUME IInv, OthersUnlock PROVE IInv'
  OBVIOUS
<1>1. /\ UNCHANGED <<pc, way, nTimeout, errcode, pFileOpen, result, copy, dirty, file, durable,
                     journal, pDbTxn, faults, crashes>>
      /\ locked' \subseteq locked
  BY DEF OthersUnlock, pager
<1>2. PagerInv' /\ (Contents' = Contents) /\ TypeOK
  BY <1>1 DEF IInv, PagerInv, PagerType, WriteAhead, Undone, Contents
<1>3. CASE UNCHANGED <<data, pBackup, writes>>
  <2>1. UNCHANGED <<src, srcFile, pBackup, writes>>
    BY <1>3 DEF data
  <2>2. TypeOK'
    BY <1>1, <1>2, <2>1 DEF TypeOK
  <2>3. CopyInStep' /\ SourceInv' /\ After'
    BY <1>1, <1>2, <2>1 DEF IInv, CopyInStep, Copying, SourceInv, After, Replaced
  <2>4. Before' /\ Commits'
    BY <1>1, <1>2, <2>1 DEF IInv, Before, Commits, Committing, Undone, DirtyLogged, Clean
  <2> QED
    BY <1>2, <2>2, <2>3, <2>4 DEF IInv
<1>4. CASE ~UNCHANGED <<data, pBackup, writes>>
  <2>1. /\ "src" \in locked /\ writes' = writes + 1 /\ srcFile' = src'
        /\ pBackup' = [pBackup EXCEPT !.iNext = 1]
    BY <1>4 DEF OthersUnlock, SourceChanged
  <2>2. PICK pages \in SUBSET Pages : src' = Written(pages)
    BY <1>4 DEF OthersUnlock
  <2>3. src' \in [Pages -> Nat] /\ writes' \in Nat
    BY <1>2, <2>1, <2>2, SMT DEF Written, TypeOK
  <2>4. 1 \in 1..NPages + 1
    BY NPagesAssumption, SMT
  <2>5. /\ pBackup' \in Backups /\ pBackup'.iNext = 1 /\ pBackup'.rc = pBackup.rc
        /\ pBackup'.on = pBackup.on
    BY <1>2, <2>1, <2>4 DEF TypeOK, Backups
  <2>6. pBackup = NoBackup => pBackup' = NoBackup
    BY <2>1 DEF NoBackup
  <2>7. TypeOK'
    BY <1>1, <1>2, <2>1, <2>3, <2>5 DEF TypeOK
  <2>8. CopyInStep'
    BY <2>5, SMT DEF CopyInStep, Pages
  <2>9. ~Committing
    BY <2>1 DEF IInv, Commits
  <2>10. SourceInv' /\ After'
    BY <1>1, <1>2, <2>1, <2>5, <2>6 DEF IInv, SourceInv, After, Replaced
  <2>11. Before' /\ Commits'
    BY <1>1, <1>2, <2>5, <2>6, <2>9 DEF IInv, Before, Commits, Committing, DirtyLogged, Clean
  <2> QED
    BY <1>2, <2>7, <2>8, <2>10, <2>11 DEF IInv
<1> QED
  BY <1>3, <1>4

LEMMA CrashIInv == IInv /\ Crash => IInv'
<1> SUFFICES ASSUME IInv, Crash PROVE IInv'
  OBVIOUS
<1>1. /\ pc' = "crashed" /\ pBackup' = NoBackup /\ pFileOpen' = FALSE /\ pDbTxn' = "none"
      /\ srcFile' = src /\ crashes' = crashes + 1
      /\ UNCHANGED <<way, nTimeout, errcode, result, src, locked, writes, faults>>
  BY DEF Crash
<1>2. PagerInv'
  BY CrashInv DEF Crash, IInv
<1>3. TypeOK'
  <2>1. crashes' \in Nat
    BY <1>1, SMT DEF IInv, TypeOK
  <2> QED
    BY <1>1, <1>2, <2>1, NoBackupType DEF IInv, TypeOK, PagerInv, PagerType
<1>4. CopyInStep' /\ SourceInv'
  BY <1>1 DEF CopyInStep, Copying, NoBackup, SourceInv
<1> QED
  BY <1>1, <1>2, <1>3, <1>4 DEF IInv, Before, Commits, Committing, After

LEMMA NextIInv == IInv /\ [Next]_vars => IInv'
<1> SUFFICES ASSUME IInv, [Next]_vars PROVE IInv'
  OBVIOUS
<1>1. CASE UNCHANGED vars
  <2>1. UNCHANGED <<pc, way, nTimeout, pBackup, errcode, pFileOpen, result, src, srcFile, copy,
                    dirty, file, durable, journal, pDbTxn, locked, writes, faults, crashes>>
    BY <1>1 DEF vars, call, data, pager, others
  <2>2. PagerInv' /\ (Contents' = Contents)
    BY <2>1 DEF IInv, PagerInv, PagerType, WriteAhead, Undone, Contents
  <2>3. TypeOK' /\ CopyInStep' /\ SourceInv'
    BY <2>1 DEF IInv, TypeOK, CopyInStep, Copying, SourceInv
  <2>4. Before' /\ Commits' /\ After'
    BY <2>1, <2>2 DEF IInv, Before, Commits, After, Replaced, Committing, Undone, DirtyLogged,
                      Clean
  <2> QED
    BY <2>2, <2>3, <2>4 DEF IInv
<1> QED
  BY <1>1, OpenAndInit, CopyStepInv, CommitInv, RecoveryInv, EndInv, LocksInv, PDbWritesInv,
     OthersUnlockInv, CrashIInv DEF Next, Caller

----------------------------------------------------------------------------
\* A write to the source reaches the destination only while the transaction is open.
LEMMA UpdateKeepsContents ==
  ASSUME IInv, IInv', PDbSpills \/ PDbCommits \/ PDbRollsBack
  PROVE  Contents' = Contents
<1>1. /\ PDbWrites /\ TypeOK
      /\ \E pages \in SUBSET Pages : \E new : Update(pages, new)
  BY DEF PDbSpills, PDbCommits, PDbRollsBack, WriteOut, Rewritten, IInv
<1>a. PICK pages \in SUBSET Pages : \E new : Update(pages, new)
  BY <1>1
<1>2. PICK new : Update(pages, new)
  BY <1>a
<1>3. pc' = pc /\ ~Committing /\ pc \notin {"returned", "crashed"}
  BY <1>1 DEF PDbWrites, PDbUsable, Live
<1> DEFINE again == {p \in pages : Copying /\ p < pBackup.iNext}
<1>4. PagerWrite(again, new) \/ UNCHANGED pager
  BY <1>2 DEF Update
<1>5. CASE pc = "step"
  BY <1>3, <1>5 DEF IInv, Before
<1>6. CASE pc # "step"
  <2>1. ~Copying
    BY <1>1, <1>3, <1>6 DEF IInv, Before, After, TypeOK, Committing, NoBackup, Copying
  <2>2. again = {}
    BY <2>1
  <2>3. UNCHANGED <<file, journal>>
    BY <1>4, <2>2 DEF PagerWrite, pager
  <2> QED
    BY <2>3 DEF Contents, Undone
<1> QED
  BY <1>5, <1>6

LEMMA AtomicNext == IInv /\ IInv' /\ [Next]_vars => [Atomic!Next]_(Atomic!vars)
<1> SUFFICES ASSUME IInv, IInv', [Next]_vars PROVE [Atomic!Next]_(Atomic!vars)
  OBVIOUS
<1>1. CASE CommitPhaseTwo
  <2>1. pc = "unlink" /\ pc' \in {"step", "finish"} /\ UNCHANGED <<src, way>>
    BY <1>1 DEF CommitPhaseTwo, CopyLoop, data
  <2>2. Contents = Original /\ Contents' = src
    BY <1>1, <2>1, CommitsSource DEF IInv, Before, Committing
  <2> QED
    BY <2>1, <2>2 DEF Atomic!Next, Atomic!Copy, Outcome
<1>2. CASE CloseFile
  <2>1. /\ pc = "close" /\ pc' = "returned"
        /\ UNCHANGED <<src, way, result, file, journal>>
    BY <1>2 DEF CloseFile, data, pager
  <2>2. result \in {"OK", "BUSY", "ERROR"} /\ (way = "backup" => (result = "OK" <=> Replaced))
    BY <2>1 DEF IInv, After, TypeOK
  <2>3. Contents' = Contents
    BY <2>1 DEF Contents, Undone
  <2> QED
    BY <2>1, <2>2, <2>3 DEF Atomic!Next, Atomic!Return, Outcome, Replaced
<1>3. CASE Crash
  <2>1. pc' = "crashed" /\ UNCHANGED <<src, way>>
    BY <1>3 DEF Crash
  <2>2. Contents' \in {Contents, Original}
    BY <1>3, CrashInv DEF Crash, IInv
  <2> QED
    BY <2>1, <2>2 DEF Atomic!Next, Atomic!Crash, Outcome
<1>4. ASSUME Contents' = Contents, way' = way, pc \notin {"returned", "crashed"},
             pc' \notin {"returned", "crashed"}
      PROVE  Atomic!Next
  BY <1>4 DEF Atomic!Next, Atomic!Write, Outcome
<1>5. ASSUME Contents' = Contents, UNCHANGED <<way, pc, result>>
      PROVE  Atomic!Next
  BY <1>5 DEF Atomic!Next, Atomic!Write, Outcome
<1>6. UNCHANGED pager => Contents' = Contents
  BY DEF pager, Contents, Undone
<1>7. CASE OpenFile \/ BackupInit \/ CopyStep \/ CommitPhaseOne \/ CommitFails
           \/ BackupFinish \/ Errcode
  <2>1. /\ way' = way /\ pc \notin {"returned", "crashed"} /\ pc' \notin {"returned", "crashed"}
    BY <1>7 DEF OpenFile, BackupInit, CopyStep, StepBusy, StepFails, StepCopies, StepSpills,
                CopyLoop, CommitPhaseOne, CommitFails, Committing, BackupFinish, Errcode
  <2>2. \/ UNCHANGED pager
        \/ /\ pc = "step" \/ Committing
           /\ pc' = "step" \/ Committing'
    BY <1>7 DEF OpenFile, BackupInit, CopyStep, StepBusy, StepFails, StepCopies, StepSpills,
                CopyLoop, CommitPhaseOne, CommitFails, Committing, BackupFinish, Errcode
  <2>3. Contents' = Contents
    BY <1>6, <2>2 DEF IInv, Before
  <2> QED
    BY <1>4, <2>1, <2>3
<1>8. CASE RollBack \/ Recover
  <2>1. UNCHANGED <<way, pc, result>> /\ Playback
    BY <1>8 DEF RollBack, Recover, call
  <2> QED
    BY <1>5, <2>1, PlaybackInv DEF IInv
<1>9. CASE PDbBegins \/ PDbEndsReading \/ OthersLock \/ OthersUnlock
  <2>1. UNCHANGED <<way, pc, result>> /\ UNCHANGED pager
    BY <1>9 DEF PDbBegins, PDbEndsReading, OthersLock, OthersUnlock, call
  <2> QED
    BY <1>5, <1>6, <2>1
<1>10. CASE PDbSpills \/ PDbCommits \/ PDbRollsBack
  <2>1. UNCHANGED <<way, pc, result>>
    BY <1>10 DEF PDbSpills, PDbCommits, PDbRollsBack, PDbWrites
  <2> QED
    BY <1>5, <1>10, <2>1, UpdateKeepsContents
<1>11. CASE UNCHANGED vars
  <2>1. UNCHANGED <<src, way, pc, result>> /\ UNCHANGED pager
    BY <1>11 DEF vars, call, data
  <2> QED
    BY <1>6, <2>1 DEF Atomic!vars, Outcome
<1> QED
  BY <1>1, <1>2, <1>3, <1>7, <1>8, <1>9, <1>10, <1>11 DEF Next, Caller

----------------------------------------------------------------------------
\* Every variable keeps its type: in particular nTimeout never passes nTimeoutLimit by
\* more than the step that made the copy give up.
THEOREM BackupTypes == Spec => []TypeOK
<1>1. Spec => []IInv
  BY InitIInv, NextIInv, PTL DEF Spec
<1>2. IInv => TypeOK
  BY DEF IInv
<1> QED
  BY <1>1, <1>2, PTL

\* Every page that was copied is up to date, whoever wrote to the source since, and
\* whether that was committed, rolled back or neither yet.
THEOREM CopyStaysInStep == Spec => []CopyInStep
<1>1. Spec => []IInv
  BY InitIInv, NextIInv, PTL DEF Spec
<1>2. IInv => CopyInStep
  BY DEF IInv
<1> QED
  BY <1>1, <1>2, PTL

\* backup reports SQLITE_OK exactly when it replaced the destination.
THEOREM BackupResult == Spec => []BackupTellsTruth
<1>1. Spec => []IInv
  BY InitIInv, NextIInv, PTL DEF Spec
<1>2. IInv => BackupTellsTruth
  BY DEF IInv, After, BackupTellsTruth, TellsTruth
<1> QED
  BY <1>1, <1>2, PTL

\* backup and restore implement the atomic copy: whatever is written meanwhile, and
\* whenever the process is killed or the power fails, the destination is what it was or
\* what the source was at one moment.
THEOREM CopiesAtomically == Spec => ImplementsAtomicCopy
<1>1. Spec => []IInv
  BY InitIInv, NextIInv, PTL DEF Spec
<1>2. Init => Atomic!Init
  <2> SUFFICES ASSUME Init PROVE Atomic!Init
    OBVIOUS
  <2>1. Contents = Original
    BY PagerInitInv DEF Init
  <2> QED
    BY <2>1 DEF Init, Atomic!Init, Outcome
<1> QED
  BY <1>1, <1>2, AtomicNext, PTL DEF Spec, ImplementsAtomicCopy, Atomic!Spec

\* Nothing that backup or restore acquired outlives the call.
THEOREM NothingKept == Spec => []ReleasedOnReturn
<1>1. Spec => []IInv
  BY InitIInv, NextIInv, PTL DEF Spec
<1>2. IInv => ReleasedOnReturn
  BY DEF IInv, After, ReleasedOnReturn
<1> QED
  BY <1>1, <1>2, PTL
=============================================================================
