---------------------------- MODULE PagerProofs ----------------------------
(***************************************************************************)
(* Lemmas about the operations of Pager, for every number of pages.  What  *)
(* makes recovery work is that a page of the file is overwritten only when *)
(* the disk knows how to undo it (WriteAhead).                             *)
(***************************************************************************)
EXTENDS Pager, TLAPS

PagerType ==
  /\ copy \in [Pages -> Int] /\ file \in [Pages -> Int] /\ durable \in [Pages -> Int]
  /\ dirty \subseteq Pages /\ journal \in Journals

WriteAhead ==
  \A p \in Pages : file[p] # Original[p] \/ durable[p] # Original[p] => Undone(p)

PagerInv ==
  /\ PagerType
  /\ WriteAhead
  /\ ~journal.exists => durable = file
  /\ journal.counted \subseteq journal.recs

\* Every page that is to be written is in the journal, or behind the end of the file.
DirtyLogged ==
  /\ dirty # {} => journal.exists
  /\ \A p \in dirty : p <= DestPages => p \in journal.recs

LEMMA OriginalType == Original \in [Pages -> Int] /\ \A p \in Pages : Original[p] < 0
  BY SMT DEF Original, Old, Absent

LEMMA HotContents ==
  ASSUME PagerInv, journal.exists
  PROVE  Contents = Original
<1>1. \A p \in Pages : Contents[p] = Original[p]
  BY DEF Contents, PagerInv, WriteAhead
<1> QED
  BY <1>1 DEF Contents, Original

LEMMA ColdContents ==
  ASSUME PagerInv, ~journal.exists
  PROVE  Contents = file
  BY DEF Contents, PagerInv, PagerType

LEMMA PagerInitInv == PagerInit => PagerInv /\ DirtyLogged /\ Contents = Original
<1> SUFFICES ASSUME PagerInit PROVE PagerInv /\ DirtyLogged /\ Contents = Original
  OBVIOUS
<1>1. PagerType
  BY OriginalType DEF PagerInit, PagerType, NoJournal, Journals
<1>2. PagerInv
  BY <1>1 DEF PagerInit, PagerInv, WriteAhead, NoJournal
<1>3. ~journal.exists /\ file = Original
  BY DEF PagerInit, NoJournal
<1> QED
  BY <1>2, <1>3, ColdContents DEF DirtyLogged, PagerInit

\* Changing pages in the cache leaves what can be undone as it is.
LEMMA PagerWriteInv ==
  ASSUME PagerInv, DirtyLogged, NEW pages \in SUBSET Pages, NEW new \in [Pages -> Int],
         PagerWrite(pages, new)
  PROVE  /\ PagerInv' /\ DirtyLogged'
         /\ journal'.exists = (journal.exists \/ pages # {})
         /\ Contents' = IF pages = {} THEN Contents ELSE Original
<1>1. copy' \in [Pages -> Int] /\ dirty' \subseteq Pages /\ UNCHANGED <<file, durable>>
  BY DEF PagerWrite, PagerInv, PagerType
<1>2. /\ journal'.synced = journal.synced /\ journal'.counted = journal.counted
      /\ journal.recs \subseteq journal'.recs /\ journal' \in Journals
      /\ journal'.exists = (journal.exists \/ pages # {})
  BY DEF PagerWrite, PagerInv, PagerType, Journals
<1>3. PagerInv'
  BY <1>1, <1>2 DEF PagerInv, PagerType, WriteAhead, Undone
<1>4. DirtyLogged'
  <2>1. CASE pages = {}
    BY <2>1 DEF PagerWrite, DirtyLogged
  <2>2. CASE pages # {}
    <3>1. journal'.recs = journal.recs \cup (pages \cap 1..DestPages) /\ journal'.exists
      BY <2>2 DEF PagerWrite, PagerInv, PagerType, Journals
    <3> QED
      BY <3>1, SMT DEF PagerWrite, DirtyLogged, Pages, PagerInv, PagerType
  <2> QED
    BY <2>1, <2>2
<1>5. CASE pages = {}
  <2>1. UNCHANGED <<journal, file>>
    BY <1>5 DEF PagerWrite
  <2> QED
    BY <1>2, <1>3, <1>4, <1>5, <2>1 DEF Contents, Undone
<1>6. CASE pages # {}
  <2>1. Contents' = Original
    BY <1>2, <1>3, <1>6 DEF Contents, PagerInv, WriteAhead, Original
  <2> QED
    BY <1>2, <1>3, <1>4, <1>6, <2>1
<1> QED
  BY <1>5, <1>6

\* After the journal is synced, every page of the cache may be written.
LEMMA SyncJournalInv ==
  ASSUME PagerInv, DirtyLogged, SyncJournal, UNCHANGED <<copy, dirty, file, durable>>
  PROVE  /\ PagerInv' /\ DirtyLogged' /\ journal'.exists = journal.exists
         /\ \A p \in dirty : Undone(p)'
<1>1. /\ journal' \in Journals /\ journal'.synced /\ journal'.counted = journal.recs
      /\ journal'.recs = journal.recs /\ journal'.exists = journal.exists
  BY DEF SyncJournal, PagerInv, PagerType, Journals
<1>2. PagerInv'
  BY <1>1 DEF PagerInv, PagerType, WriteAhead, Undone
<1>3. \A p \in dirty : Undone(p)'
  BY <1>1, DestPagesAssumption, SMT DEF DirtyLogged, Undone, PagerInv, PagerType, Pages
<1> QED
  BY <1>1, <1>2, <1>3 DEF DirtyLogged

LEMMA WritePageInv ==
  ASSUME PagerInv, DirtyLogged, NEW p \in dirty, WritePage(p), journal.exists,
         \/ journal' = journal /\ Undone(p)
         \/ SyncJournal
  PROVE  PagerInv' /\ DirtyLogged' /\ journal'.exists /\ p \notin dirty' /\ file'[p] = copy[p]
<1>1. p \in Pages
  BY DEF PagerInv, PagerType
<1>2. /\ file' \in [Pages -> Int] /\ UNCHANGED <<copy, durable>>
      /\ file'[p] = copy[p] /\ dirty' = dirty \ {p}
      /\ \A q \in Pages : q # p => file'[q] = file[q]
  BY <1>1 DEF WritePage, PagerInv, PagerType
<1>3. /\ journal' \in Journals /\ journal'.exists /\ journal'.recs = journal.recs
      /\ journal'.counted \subseteq journal'.recs
      /\ \A q \in Pages : Undone(q) => Undone(q)'
      /\ Undone(p)'
  <2>1. CASE journal' = journal /\ Undone(p)
    BY <2>1 DEF PagerInv, PagerType, Undone
  <2>2. CASE SyncJournal
    <3>1. /\ journal' \in Journals /\ journal'.synced /\ journal'.counted = journal.recs
          /\ journal'.recs = journal.recs /\ journal'.exists = journal.exists
      BY <2>2 DEF SyncJournal, PagerInv, PagerType, Journals
    <3>2. Undone(p)'
      BY <1>1, <3>1, DestPagesAssumption, SMT DEF DirtyLogged, Undone, Pages
    <3> QED
      BY <3>1, <3>2 DEF PagerInv, Undone
  <2> QED
    BY <2>1, <2>2
<1>4. PagerInv'
  BY <1>1, <1>2, <1>3 DEF PagerInv, PagerType, WriteAhead
<1> QED
  BY <1>2, <1>3, <1>4 DEF DirtyLogged

LEMMA SpillInv ==
  ASSUME PagerInv, DirtyLogged, Spill
  PROVE  /\ PagerInv' /\ DirtyLogged' /\ journal.exists /\ journal'.exists
         /\ UNCHANGED <<copy, durable>>
         /\ \E p \in dirty : dirty' = dirty \ {p} /\ file' = [file EXCEPT ![p] = copy[p]]
<1>1. PICK p \in dirty : /\ WritePage(p)
                         /\ IF NeedSync(p) THEN SyncJournal ELSE UNCHANGED journal
  BY DEF Spill
<1>2. journal.exists
  BY DEF DirtyLogged
<1>3. p \in Pages
  BY DEF PagerInv, PagerType
<1>4. ~NeedSync(p) => Undone(p)
  BY <1>3, DestPagesAssumption, SMT DEF NeedSync, Undone, Pages
<1>5. PagerInv' /\ DirtyLogged' /\ journal'.exists
  BY <1>1, <1>2, <1>4, WritePageInv
<1> QED
  BY <1>1, <1>2, <1>5 DEF WritePage

\* Whoever plays the journal back, and however often, the contents are the original ones.
LEMMA PlaybackInv ==
  ASSUME PagerInv, Playback
  PROVE  PagerInv' /\ Contents = Original /\ Contents' = Original /\ copy' = copy
<1>1. Contents = Original /\ journal.exists
  BY HotContents DEF Playback
<1>2. CASE PlaybackOnePage
  <2>1. PICK p \in Pages : Undone(p) /\ file' = [file EXCEPT ![p] = Original[p]]
    BY <1>2 DEF PlaybackOnePage
  <2>2. UNCHANGED <<copy, dirty, durable, journal>>
    BY <1>2 DEF PlaybackOnePage
  <2>3. file' \in [Pages -> Int]
    BY <2>1, OriginalType DEF PagerInv, PagerType
  <2>4. PagerInv'
    BY <1>1, <2>1, <2>2, <2>3 DEF PagerInv, PagerType, WriteAhead, Undone
  <2>5. Contents' = Original
    BY <1>1, <2>2, <2>4 DEF Contents, PagerInv, WriteAhead, Original
  <2> QED
    BY <1>1, <2>2, <2>4, <2>5
<1>3. CASE PlaybackEnds
  <2>1. /\ \A p \in Pages : Undone(p) => file[p] = Original[p]
        /\ UNCHANGED <<copy, file>> /\ durable' = file /\ dirty' = {}
        /\ journal' = [journal EXCEPT !.exists = FALSE]
    BY <1>3 DEF PlaybackEnds, PagerSync, DeleteJournal
  <2>2. \A p \in Pages : file[p] = Original[p]
    BY <2>1 DEF PagerInv, WriteAhead
  <2>3. file = Original
    BY <2>2, OriginalType DEF PagerInv, PagerType
  <2>4. /\ journal' \in Journals /\ ~journal'.exists
        /\ journal'.counted = journal.counted /\ journal'.recs = journal.recs
    BY <2>1 DEF PagerInv, PagerType, Journals
  <2>5. PagerInv'
    BY <2>1, <2>3, <2>4 DEF PagerInv, PagerType, WriteAhead
  <2>6. Contents' = Original
    BY <2>1, <2>3, <2>4 DEF Contents, Original
  <2> QED
    BY <1>1, <2>1, <2>5, <2>6
<1> QED
  BY <1>2, <1>3 DEF Playback

\* Neither a kill nor a power failure leaves anything but what was there or what was there
\* before the transaction.
LEMMA CrashInv ==
  ASSUME PagerInv, Killed \/ PowerFails
  PROVE  PagerInv' /\ Contents' \in {Contents, Original}
<1>1. CASE Killed
  <2>1. dirty' = {} /\ UNCHANGED <<copy, file, durable, journal>>
    BY <1>1 DEF Killed
  <2> QED
    BY <2>1 DEF PagerInv, PagerType, WriteAhead, Undone, Contents
<1>2. CASE PowerFails
  <2>1. PICK pages \in SUBSET Pages :
          file' = [p \in Pages |-> IF p \in pages THEN file[p] ELSE durable[p]]
    BY <1>2 DEF PowerFails
  <2>2. dirty' = {} /\ durable' = file' /\ UNCHANGED copy
    BY <1>2 DEF PowerFails
  <2>3. PICK exists \in {journal.synced, journal.exists /\ journal.synced} :
          journal' = [journal EXCEPT !.exists = exists, !.recs = journal.counted]
    BY <1>2 DEF PowerFails
  <2>4. exists \in BOOLEAN
    BY DEF PagerInv, PagerType, Journals
  <2>5. /\ journal' \in Journals /\ journal'.synced = journal.synced
        /\ journal'.counted = journal.counted /\ journal'.recs = journal.counted
        /\ journal'.exists = exists
    BY <2>3, <2>4 DEF PagerInv, PagerType, Journals
  <2>6. file' \in [Pages -> Int]
    BY <2>1 DEF PagerInv, PagerType
  <2>7. \A p \in Pages : file'[p] # Original[p] => Undone(p)'
    BY <2>1, <2>5 DEF PagerInv, WriteAhead, Undone
  <2>8. PagerInv'
    BY <2>2, <2>5, <2>6, <2>7 DEF PagerInv, PagerType, WriteAhead
  <2>9. CASE exists
    <3>1. \A p \in Pages : Contents'[p] = Original[p]
      BY <2>5, <2>7, <2>9 DEF Contents
    <3>2. Contents' = Original
      BY <3>1 DEF Contents, Original
    <3> QED
      BY <2>8, <3>2
  <2>10. CASE ~exists
    <3>1. Contents' = file'
      BY <2>5, <2>6, <2>10 DEF Contents
    <3>2. CASE journal.synced
      <4>1. ~journal.exists
        BY <2>4, <2>10, <3>2, <2>3 DEF PagerInv, PagerType, Journals
      <4>2. durable = file /\ Contents = file
        BY <4>1, ColdContents DEF PagerInv
      <4>3. file' = file
        BY <2>1, <4>2 DEF PagerInv, PagerType
      <4> QED
        BY <2>8, <3>1, <4>2, <4>3
    <3>3. CASE ~journal.synced
      <4>1. \A p \in Pages : file'[p] = Original[p]
        BY <2>5, <2>7, <3>3 DEF Undone
      <4>2. file' = Original
        BY <2>6, <4>1, OriginalType
      <4> QED
        BY <2>8, <3>1, <4>2
    <3> QED
      BY <3>2, <3>3
  <2> QED
    BY <2>9, <2>10, <2>4
<1> QED
  BY <1>1, <1>2
=============================================================================
