---------------------------- MODULE NativeBackup ----------------------------
(***************************************************************************)
(* native/sqlite/sqlite/NativeDB.c: backup and restore, which copy one     *)
(* database into another page by page, releasing every lock between two    *)
(* steps.  pDb is the connection of the NativeDB object, pFile the one     *)
(* opened on the file; other threads use pDb and other processes use both  *)
(* files meanwhile.  The sqlite3_backup calls are those of sqlite3.c, and  *)
(* the transaction on the destination is Pager's.  The process may be      *)
(* killed and the power may fail.  SQLITE_LOCKED is counted as BUSY, every *)
(* other failure as ERROR.                                                 *)
(***************************************************************************)
EXTENDS Pager

CONSTANTS
  PagesPerStep,   \* pagesPerStep; negative copies all of them in one step
  NTimeoutLimit,  \* nTimeoutLimit
  MaxWrites,      \* bound: sets of pages written to the source
  MaxFaults,      \* bound: I/O errors, failed allocations, unknown names
  MaxCrashes      \* bound: kills and power failures

ASSUME PagesPerStepAssumption == PagesPerStep \in Int \ {0}
ASSUME NTimeoutLimitAssumption == NTimeoutLimit \in Nat
ASSUME BoundsAssumption == MaxWrites \in Nat /\ MaxFaults \in Nat /\ MaxCrashes \in Nat

VARIABLES
  pc,        \* where the call is
  way,       \* "backup" or "restore"
  nTimeout,  \* steps that came back BUSY
  pBackup,   \* the sqlite3_backup object
  errcode,   \* the error code SQLite keeps for each of the two connections
  pFileOpen, \* pFile is allocated
  result,    \* what the function returned
  src,       \* committed contents of the source: page -> version
  srcFile,   \* what pDb's open transaction has written over them
  pDbTxn,    \* the transaction other threads have open on pDb
  locked,    \* files other processes hold a lock on: "src", "dst"
  writes, faults, crashes

call == <<pc, way, nTimeout, pBackup, errcode, pFileOpen, result>>
data == <<src, srcFile>>
others == <<pDbTxn, locked>>
vars == <<call, data, pager, others, writes, faults, crashes>>

Backups == [on : BOOLEAN, rc : {"OK", "BUSY", "ERROR", "DONE"},
            iNext : 1..NPages + 1, bDestLocked : BOOLEAN]
NoBackup == [on |-> FALSE, rc |-> "OK", iNext |-> 1, bDestLocked |-> FALSE]
Dest == IF way = "backup" THEN "pFile" ELSE "pDb"

Init ==
  /\ pc = "open" /\ way \in {"backup", "restore"} /\ nTimeout = 0
  /\ pBackup = NoBackup /\ errcode = [c \in {"pDb", "pFile"} |-> "OK"]
  /\ pFileOpen = FALSE /\ result = "none"
  /\ src = [p \in Pages |-> 0] /\ srcFile = src /\ PagerInit
  /\ pDbTxn = "none" /\ locked = {} /\ writes = 0 /\ faults = 0 /\ crashes = 0

Fault == faults < MaxFaults /\ faults' = faults + 1
NoFault == UNCHANGED faults

----------------------------------------------------------------------------
\* sqlite3_open_v2 leaves an allocated connection behind even when it fails.
\* Mutant: a failed open returns without closing it.
OpenFileReturns ==
  /\ pc = "open" /\ pFileOpen' = TRUE
  /\ \/ NoFault /\ pc' = "init" /\ UNCHANGED result
     \/ Fault /\ pc' = "returned" /\ result' = "ERROR"
  /\ UNCHANGED <<way, nTimeout, pBackup, errcode, data, pager, others, writes, crashes>>

OpenFile ==
  /\ pc = "open" /\ pFileOpen' = TRUE
  /\ \/ NoFault /\ pc' = "init" /\ UNCHANGED result
     \/ Fault /\ pc' = "close" /\ result' = "ERROR"
  /\ UNCHANGED <<way, nTimeout, pBackup, errcode, data, pager, others, writes, crashes>>

\* sqlite3_backup_init: fails, with the error on the destination connection, when that
\* connection has a transaction open.
DestInUse == way = "restore" /\ pDbTxn # "none"

BackupInit ==
  /\ pc = "init"
  /\ \/ /\ (DestInUse /\ NoFault) \/ Fault
        /\ errcode' = [errcode EXCEPT ![Dest] = "ERROR"]
        /\ pc' = "errcode" /\ UNCHANGED pBackup
     \/ /\ ~DestInUse /\ NoFault
        /\ pBackup' = [NoBackup EXCEPT !.on = TRUE]
        /\ pc' = "step" /\ UNCHANGED errcode
  /\ UNCHANGED <<way, nTimeout, pFileOpen, result, data, pager, others, writes, crashes>>

\* What copyLoop does with the result of a step: it goes on after OK, and after BUSY
\* unless that was one too many.
\* Mutant: the count of busy steps starts again at each of them.
CopyLoopForgets(rc) ==
  /\ nTimeout' = 0
  /\ pc' = IF rc = "OK" \/ (rc = "BUSY" /\ 0 < NTimeoutLimit) THEN "step" ELSE "finish"

\* Mutant: one busy step more than nTimeoutLimit allows.
CopyLoopCounts(rc) ==
  /\ nTimeout' = IF rc = "BUSY" THEN nTimeout + 1 ELSE nTimeout
  /\ pc' = IF rc = "OK" \/ (rc = "BUSY" /\ nTimeout <= NTimeoutLimit) THEN "step" ELSE "finish"

CopyLoop(rc) ==
  /\ nTimeout' = IF rc = "BUSY" THEN nTimeout + 1 ELSE nTimeout
  /\ pc' = IF rc = "OK" \/ (rc = "BUSY" /\ nTimeout < NTimeoutLimit) THEN "step" ELSE "finish"

\* sqlite3_backup_step: BUSY while pDb is writing the source or somebody else holds a
\* lock it needs; the lock on the destination is kept from the first step that gets it.
SrcBusy == (way = "backup" /\ pDbTxn = "write") \/ "src" \in locked
DstBusy == ~pBackup.bDestLocked /\ "dst" \in locked
LastPage ==
  LET last == pBackup.iNext + PagesPerStep - 1
  IN IF PagesPerStep < 0 \/ last > NPages THEN NPages ELSE last

StepBusy ==
  /\ SrcBusy \/ DstBusy
  /\ pBackup' = [pBackup EXCEPT !.rc = "BUSY"]
  /\ CopyLoop("BUSY") /\ NoFault /\ UNCHANGED pager

StepFails ==
  /\ Fault
  /\ \E lock \in {pBackup.bDestLocked, "dst" \notin locked} :
       pBackup' = [pBackup EXCEPT !.rc = "ERROR", !.bDestLocked = lock]
  /\ CopyLoop("ERROR") /\ UNCHANGED pager

\* After the last page the destination is committed before the step ends.
StepCopies ==
  /\ ~SrcBusy /\ ~DstBusy /\ NoFault
  /\ \/ /\ LastPage < NPages /\ CopyLoop("OK")
        /\ PagerWrite(pBackup.iNext..LastPage, src)
     \/ /\ LastPage = NPages /\ pc' = "journal" /\ UNCHANGED nTimeout
        /\ PagerWrite(pBackup.iNext..LastPage \cup {1}, src)   \* and the schema version
  /\ pBackup' = [pBackup EXCEPT !.rc = "OK", !.iNext = LastPage + 1, !.bDestLocked = TRUE]

\* A page of the destination leaves the full cache.
StepSpills == NoFault /\ Spill /\ UNCHANGED <<pc, nTimeout, pBackup>>

CopyStep ==
  /\ pc = "step"
  /\ \/ pBackup.rc # "ERROR" /\ (StepBusy \/ StepFails \/ StepCopies \/ StepSpills)
     \/ /\ pBackup.rc = "ERROR" /\ CopyLoop("ERROR")   \* an update failed in between
        /\ NoFault /\ UNCHANGED <<pBackup, pager>>
  /\ UNCHANGED <<way, errcode, pFileOpen, result, data, others, writes, crashes>>

\* The end of the last step: sqlite3PagerCommitPhaseOne and PhaseTwo.
Committing == pc \in {"journal", "pages", "unlink"}

CommitPhaseOne ==
  /\ NoFault
  /\ \/ /\ pc = "journal" /\ pc' = "pages"
        /\ SyncJournal /\ UNCHANGED <<copy, dirty, file, durable>>
     \/ /\ pc = "pages" /\ \E p \in dirty : WritePage(p)
        /\ UNCHANGED <<pc, journal>>
     \/ /\ pc = "pages" /\ dirty = {} /\ pc' = "unlink"
        /\ PagerSync /\ UNCHANGED <<copy, dirty, file, journal>>
  /\ UNCHANGED <<way, nTimeout, pBackup, errcode, pFileOpen, result, data, others, writes, crashes>>

CommitPhaseTwo ==
  /\ pc = "unlink" /\ NoFault
  /\ DeleteJournal /\ UNCHANGED <<copy, dirty, file, durable>>
  /\ pBackup' = [pBackup EXCEPT !.rc = "DONE"] /\ CopyLoop("DONE")
  /\ UNCHANGED <<way, errcode, pFileOpen, result, data, others, writes, crashes>>

CommitFails ==
  /\ Committing /\ Fault
  /\ pBackup' = [pBackup EXCEPT !.rc = "ERROR"] /\ CopyLoop("ERROR")
  /\ UNCHANGED <<way, errcode, pFileOpen, result, data, pager, others, writes, crashes>>

\* sqlite3_backup_finish: rolls the destination back unless DONE, after an error maybe not
\* (the hot journal is left to the next connection), and sets the error of the destination
\* connection.
RollBack ==
  /\ pc = "finish" /\ pBackup.rc # "DONE" /\ Playback
  /\ UNCHANGED <<call, data, others, writes, faults, crashes>>

RolledBack == ~journal.exists \/ pBackup.rc \in {"DONE", "ERROR"}

\* Mutant: finish is called after the error code was read.
BackupFinishLate ==
  /\ pc = "finish" /\ pc' = "errcode" /\ pBackup' = NoBackup /\ RolledBack
  /\ UNCHANGED <<way, nTimeout, errcode, pFileOpen, result, data, pager, others, writes, faults, crashes>>

BackupFinish ==
  /\ pc = "finish" /\ pc' = "errcode" /\ pBackup' = NoBackup /\ RolledBack
  /\ errcode' = [errcode EXCEPT ![Dest] = IF pBackup.rc = "DONE" THEN "OK" ELSE pBackup.rc]
  /\ UNCHANGED <<way, nTimeout, pFileOpen, result, data, pager, others, writes, faults, crashes>>

\* rc = sqlite3_errcode(pFile), in both functions
Errcode ==
  /\ pc = "errcode" /\ pc' = "close" /\ result' = errcode["pFile"]
  /\ UNCHANGED <<way, nTimeout, pBackup, errcode, pFileOpen, data, pager, others, writes, faults, crashes>>

CloseFile ==
  /\ pc = "close" /\ pc' = "returned" /\ pFileOpen' = FALSE
  /\ UNCHANGED <<way, nTimeout, pBackup, errcode, result, data, pager, others, writes, faults, crashes>>

Caller ==
  \/ OpenFile \/ BackupInit \/ CopyStep \/ CommitPhaseOne \/ CommitPhaseTwo \/ CommitFails
  \/ RollBack \/ BackupFinish \/ Errcode \/ CloseFile

----------------------------------------------------------------------------
\* Meanwhile.  Other threads use pDb, but not while it is the destination (sqlite3.h
\* forbids that) nor inside a step (its mutex is held); a statement that was not reset
\* may be reading it when restore begins.
Live == pc \notin {"returned", "crashed"}
PDbUsable == IF way = "backup" THEN Live /\ ~Committing ELSE pc = "open"
PDbFile == IF way = "backup" THEN "src" ELSE "dst"

PDbBegins ==
  /\ PDbUsable /\ PDbFile \notin locked
  /\ pDbTxn = "none" /\ pDbTxn' \in {"read", "write"}
  /\ UNCHANGED <<call, data, pager, locked, writes, faults, crashes>>

\* sqlite3BackupUpdate: a page of the source that is written to its file, and was copied
\* before, is copied again, until the backup fails or is finished.
Copying == pBackup.on /\ pc # "finish" /\ pBackup.rc \in {"OK", "BUSY"}

Update(pages, new) ==
  LET again == {p \in pages : Copying /\ p < pBackup.iNext}
  IN \/ NoFault /\ PagerWrite(again, new) /\ UNCHANGED pBackup
     \/ /\ again # {} /\ Fault
        /\ pBackup' = [pBackup EXCEPT !.rc = "ERROR"] /\ UNCHANGED pager

Written(pages) == [p \in Pages |-> IF p \in pages THEN writes + 1 ELSE srcFile[p]]
Rewritten == {p \in Pages : srcFile[p] # src[p]}

PDbWrites ==
  /\ way = "backup" /\ PDbUsable /\ pDbTxn = "write"
  /\ UNCHANGED <<pc, way, nTimeout, errcode, pFileOpen, result, locked, crashes>>

WriteOut(pages) ==
  /\ IF pages = {} THEN UNCHANGED writes ELSE writes < MaxWrites /\ writes' = writes + 1
  /\ srcFile' = Written(pages) /\ Update(pages, Written(pages))

\* A full cache, again, before the transaction is committed.
PDbSpills ==
  /\ PDbWrites /\ UNCHANGED <<src, pDbTxn>>
  /\ \E pages \in SUBSET Pages \ {{}} : WriteOut(pages)

PDbCommits ==
  /\ PDbWrites /\ pDbTxn' = "none"
  /\ \E pages \in SUBSET Pages : WriteOut(pages)
  /\ src' = srcFile'

\* Rolling back writes what was spilled once more.
\* Mutant: and does not tell the backup.
PDbRollsBackUnseen ==
  /\ PDbWrites /\ pDbTxn' = "none" /\ srcFile' = src
  /\ NoFault /\ UNCHANGED <<src, pBackup, pager, writes>>

PDbRollsBack ==
  /\ PDbWrites /\ pDbTxn' = "none" /\ srcFile' = src /\ Update(Rewritten, src)
  /\ UNCHANGED <<src, writes>>

PDbEndsReading ==
  /\ PDbUsable /\ pDbTxn # "none" /\ pDbTxn' = "none"
  /\ pDbTxn = "read" \/ way = "restore"
  /\ UNCHANGED <<call, data, pager, locked, writes, faults, crashes>>

\* Other processes lock the files.  They cannot lock what is in use here.
OthersLock ==
  /\ Live
  /\ \E f \in {"src", "dst"} \ locked :
       /\ f = PDbFile => pDbTxn = "none"
       /\ f = "src" => ~Committing
       /\ f = "dst" => ~pBackup.bDestLocked
       /\ locked' = locked \cup {f}
  /\ UNCHANGED <<call, data, pager, pDbTxn, writes, faults, crashes>>

\* When the source was written, the next step sees it and starts again from the first
\* page (sqlite3BackupRestart).
\* Mutant: it goes on where it was.
SourceChangedUnseen == UNCHANGED pBackup
SourceChanged == pBackup' = [pBackup EXCEPT !.iNext = 1]

OthersUnlock ==
  /\ \E f \in locked : locked' = locked \ {f}
  /\ \/ UNCHANGED <<data, pBackup, writes>>
     \/ /\ "src" \in locked \ locked' /\ writes < MaxWrites /\ writes' = writes + 1
        /\ \E pages \in SUBSET Pages : src' = Written(pages)
        /\ srcFile' = src' /\ SourceChanged
  /\ UNCHANGED <<pc, way, nTimeout, errcode, pFileOpen, result, pager, pDbTxn, faults, crashes>>

\* A crash ends the call and whatever pDb had open; the next connection to the destination
\* recovers it.
Crash ==
  /\ crashes < MaxCrashes /\ crashes' = crashes + 1
  /\ Killed \/ PowerFails
  /\ pc' = "crashed" /\ pBackup' = NoBackup /\ pFileOpen' = FALSE
  /\ pDbTxn' = "none" /\ srcFile' = src
  /\ UNCHANGED <<way, nTimeout, errcode, result, src, locked, writes, faults>>

Recover ==
  /\ pc \in {"errcode", "close", "returned", "crashed"} /\ Playback
  /\ UNCHANGED <<call, data, others, writes, faults, crashes>>

Next ==
  \/ Caller
  \/ PDbBegins \/ PDbSpills \/ PDbCommits \/ PDbRollsBack \/ PDbEndsReading
  \/ OthersLock \/ OthersUnlock \/ Crash \/ Recover

Spec == Init /\ [][Next]_vars
FairSpec == Spec /\ WF_vars(Caller /\ NoFault)   \* no failure is ever due

----------------------------------------------------------------------------
TypeOK ==
  /\ pc \in {"open", "init", "step", "journal", "pages", "unlink", "finish", "errcode", "close",
             "returned", "crashed"}
  /\ way \in {"backup", "restore"} /\ nTimeout \in 0..NTimeoutLimit + 1
  /\ pBackup \in Backups
  /\ errcode \in [{"pDb", "pFile"} -> {"OK", "BUSY", "ERROR"}]
  /\ pFileOpen \in BOOLEAN /\ result \in {"none", "OK", "BUSY", "ERROR"}
  /\ src \in [Pages -> Nat] /\ srcFile \in [Pages -> Nat]
  /\ copy \in [Pages -> Int] /\ file \in [Pages -> Int] /\ durable \in [Pages -> Int]
  /\ dirty \subseteq Pages /\ journal \in Journals
  /\ pDbTxn \in {"none", "read", "write"} /\ locked \subseteq {"src", "dst"}
  /\ writes \in Nat /\ faults \in Nat /\ crashes \in Nat

\* Between two steps, whatever was written to the source, committed or not, and by whom,
\* every page that was copied is up to date in the copy.
CopyInStep == Copying => \A p \in Pages : p < pBackup.iNext => copy[p] = srcFile[p]

\* What the comment on the two functions says of their result: SQLITE_OK exactly when the
\* destination was replaced, an error code when it was left as it was.
Replaced == Contents # Original
TellsTruth == pc = "returned" => (result = "OK" <=> Replaced)
BackupTellsTruth == way = "backup" => TellsTruth
RestoreTellsTruth == way = "restore" => TellsTruth

\* Whichever step failed, the call gives up what it took: pFile, and the lock and the
\* unfinished transaction on the destination.
ReleasedOnReturn == pc = "returned" => ~pFileOpen /\ pBackup = NoBackup

\* backup and restore copy atomically: the destination only ever changes, in one step,
\* into the contents the source has at that moment, never into a mixture of pages from
\* before and after somebody's write, a rolled back one included, and never into one left
\* by a crash.  What the destination holds is what the next connection will find in it.
Outcome == IF pc = "crashed" THEN "crashed" ELSE IF pc = "returned" THEN result ELSE "none"
Atomic == INSTANCE AtomicCopy WITH dst <- Contents, outcome <- Outcome
ImplementsAtomicCopy == Atomic!Spec

\* The call ends: other processes may make the copy start again only as often as they
\* write, and only nTimeoutLimit steps may come back busy.
Returns == <>(pc \in {"returned", "crashed"})
=============================================================================
