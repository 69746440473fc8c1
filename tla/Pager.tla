------------------------------- MODULE Pager -------------------------------
(***************************************************************************)
(* native/sqlite/sqlite/sqlite3.c, pager.c part: one write transaction on  *)
(* a database file in rollback-journal mode, synchronous=FULL (the         *)
(* defaults that make.sh keeps), and what a killed process or a power      *)
(* failure leaves of it.  The original contents of a page go to the        *)
(* journal before the page is changed, and are on the disk before the page *)
(* of the file is overwritten; deleting the journal commits.  Pages behind *)
(* the end of the file are not journalled: the header of the journal has   *)
(* the size to which the file is cut back.                                 *)
(***************************************************************************)
EXTENDS Integers

CONSTANTS
  NPages,    \* pages written by the transaction
  DestPages  \* pages of the file before it

ASSUME NPagesAssumption == NPages \in Nat \ {0}
ASSUME DestPagesAssumption == DestPages \in 0..NPages

VARIABLES
  copy,     \* pages as the transaction sees them, in the cache or in the file
  dirty,    \* pages changed in the cache and not yet written to the file
  file,     \* pages of the file as the operating system has them
  durable,  \* pages of the file when it was last synced
  journal   \* the rollback journal

pager == <<copy, dirty, file, durable, journal>>

Pages == 1..NPages
Old == -1      \* a page of the file before the transaction
Absent == -2   \* behind the end of the file
Original == [p \in Pages |-> IF p <= DestPages THEN Old ELSE Absent]

\* exists: there is a journal file.  synced: its first header is on the disk.  recs: pages
\* whose original it holds (pInJournal); counted: those a synced header counts (nRec).
\* The last two and synced stay when the file is deleted, as they do on the disk.
Journals ==
  [exists : BOOLEAN, synced : BOOLEAN, recs : SUBSET Pages, counted : SUBSET Pages]
NoJournal == [exists |-> FALSE, synced |-> FALSE, recs |-> {}, counted |-> {}]

PagerInit ==
  /\ copy = Original /\ dirty = {} /\ file = Original /\ durable = Original
  /\ journal = NoJournal

\* What the next connection finds: it plays a hot journal back before it reads.
Undone(p) == journal.synced /\ (p > DestPages \/ p \in journal.counted)
Contents ==
  [p \in Pages |-> IF journal.exists /\ Undone(p) THEN Original[p] ELSE file[p]]

----------------------------------------------------------------------------
\* sqlite3PagerWrite, and the new contents of the pages.  The first page opens the journal.
PagerWrite(pages, new) ==
  /\ copy' = [p \in Pages |-> IF p \in pages THEN new[p] ELSE copy[p]]
  /\ dirty' = dirty \cup pages
  /\ journal' = IF pages = {} THEN journal
                ELSE [journal EXCEPT !.exists = TRUE,
                                     !.recs = @ \cup (pages \cap 1..DestPages)]
  /\ UNCHANGED <<file, durable>>

\* Mutant: the journal is written but not synced.
SyncJournalNot == UNCHANGED journal
SyncJournal == journal' = [journal EXCEPT !.synced = TRUE, !.counted = journal.recs]

\* pager_write_pagelist, for one page
WritePage(p) ==
  /\ file' = [file EXCEPT ![p] = copy[p]] /\ dirty' = dirty \ {p}
  /\ UNCHANGED <<copy, durable>>

\* pagerStress: a full cache gives up a dirty page in the middle of the transaction.
NeedSync(p) == ~journal.synced \/ (p <= DestPages /\ p \notin journal.counted)
Spill ==
  \E p \in dirty :
    /\ WritePage(p)
    /\ IF NeedSync(p) THEN SyncJournal ELSE UNCHANGED journal

\* sqlite3PagerSync
\* Mutant: the file is not synced before the journal goes.
PagerSyncNot == UNCHANGED durable
PagerSync == durable' = file

\* pager_end_transaction.  The directory is not synced (extraSync is off).
DeleteJournal == journal' = [journal EXCEPT !.exists = FALSE]

\* pager_playback, by the connection itself or by the next one: pages are restored one
\* after the other, the file is synced, and the journal deleted.
PlaybackOnePage ==
  \E p \in Pages :
    /\ Undone(p) /\ file[p] # Original[p]
    /\ file' = [file EXCEPT ![p] = Original[p]]
    /\ UNCHANGED <<copy, dirty, durable, journal>>

PlaybackEnds ==
  /\ \A p \in Pages : Undone(p) => file[p] = Original[p]
  /\ PagerSync /\ DeleteJournal /\ dirty' = {}
  /\ UNCHANGED <<copy, file>>

Playback == journal.exists /\ (PlaybackOnePage \/ PlaybackEnds)

----------------------------------------------------------------------------
\* A killed process leaves what it wrote; a power failure leaves of every page not synced
\* one version or the other, and of the directory as well: a journal that was synced may
\* be back after it was deleted, one that was not is gone (or has no header).
Killed == dirty' = {} /\ UNCHANGED <<copy, file, durable, journal>>

PowerFails ==
  /\ dirty' = {}
  /\ \E pages \in SUBSET Pages :
       file' = [p \in Pages |-> IF p \in pages THEN file[p] ELSE durable[p]]
  /\ durable' = file'
  /\ \E exists \in {journal.synced, journal.exists /\ journal.synced} :
       journal' = [journal EXCEPT !.exists = exists, !.recs = journal.counted]
  /\ UNCHANGED copy
=============================================================================
