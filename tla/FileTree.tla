------------------------------ MODULE FileTree ------------------------------
(***************************************************************************)
(* What fsNotifier runs on, external to the repository: a tree of          *)
(* directories that other processes change, and the kernel's inotify       *)
(* instance (inotify_add_watch, inotify_rm_watch, the event queue), as     *)
(* inotify.c uses them.  Files, contents and attributes are left out: only *)
(* directories are watched.                                                *)
(***************************************************************************)
EXTENDS FileNames, FiniteSets

CONSTANTS
  InitDirs,   \* the directories that exist at first (a prefix-closed set)
  MaxOps,     \* bound on the operations of the other processes
  Pinned,     \* directories no other process removes, renames or replaces
  Disks,      \* top-level directories that are file systems of their own at first
  RenameOver, \* may a rename replace an existing empty directory?
  QueueMax,   \* max_queued_events
  WatchLimit, \* watches the kernel lets this user hold (max_user_watches)
  NoName      \* the name of an event about the watched directory itself

ASSUME QueueMaxAssumption == QueueMax \in Nat
ASSUME PathsAssumption == IsFiniteSet(Paths)
ASSUME InitDirsAssumption == InitDirs \subseteq Paths /\ PrefixClosed(InitDirs)
\* A directory goes with the ones above it, and with the disk it is on.
ASSUME PinnedAssumption ==
  /\ Pinned \subseteq Paths /\ PrefixClosed(Pinned)
  /\ \A p \in Pinned, d \in Disks : IsParentPath(d, p) => p = d
ASSUME DisksAssumption == Disks \subseteq InitDirs /\ \A d \in Disks : Len(d) = 1

VARIABLES
  fs,         \* path -> inode of the directories that exist
  kwd,        \* inode -> watch descriptor (the marks of the inotify instance)
  queue,      \* events not yet read
  nextIno,    \* inodes are never reused
  nextWd,     \* watch descriptors are handed out in increasing order
  mounted,    \* the Disks that are still mounted
  ops         \* operations done so far

treeVars == <<fs, kwd, queue, nextIno, nextWd, mounted, ops>>

Names == {NameOf(p) : p \in Paths}
\* A path is a sequence of names, and not empty: "/" itself is no path of the model.
ASSUME NamesAssumption == Paths \subseteq Seq(Names) \ {<<>>}
Events == [wd : Int, name : Names \cup {NoName},
           kind : {"create", "delete", "moved_from", "moved_to", "delete_self", "move_self",
                   "unmount", "overflow"}]

Exists(p) == Resolve(p) \in DOMAIN fs
InodeAt(p) == fs[Resolve(p)]
DirsBelow(p) == {q \in DOMAIN fs : IsParentPath(p, q) /\ q # p}
\* The names a reader of the directory `ino' gets; none once it is removed.
EntriesOf(ino) ==
  {NameOf(q) : q \in {q \in DOMAIN fs :
                        ParentOf(q) \in DOMAIN fs /\ fs[ParentOf(q)] = ino}}

InitInodes == CHOOSE f \in [InitDirs -> 1..Cardinality(InitDirs)] :
                \A p, q \in InitDirs : p # q => f[p] # f[q]

FileTreeInit ==
  /\ fs = [p \in InitDirs |-> InitInodes[p]]
  /\ kwd = [i \in {} |-> 0]
  /\ queue = <<>>
  /\ nextIno = Cardinality(InitDirs) + 1
  /\ nextWd = 1
  /\ mounted = Disks
  /\ ops = 0

----------------------------------------------------------------------------
\* An event is queued for a marked directory only; a full queue gets one
\* overflow record and drops the rest.
Event(ino, kind, name) ==
  IF ino \in DOMAIN kwd THEN <<[wd |-> kwd[ino], kind |-> kind, name |-> name]>>
  ELSE <<>>
EntryEvent(p, kind) ==
  IF ParentOf(p) \in DOMAIN fs THEN Event(fs[ParentOf(p)], kind, NameOf(p)) ELSE <<>>

Overflow == [wd |-> -1, kind |-> "overflow", name |-> NoName]
Enqueue(evs) ==
  LET room == QueueMax - Len(queue)
  IN queue' = IF Len(evs) <= room THEN queue \o evs
              ELSE IF room < 0 THEN queue
              ELSE Append(queue \o SubSeq(evs, 1, room), Overflow)

\* A new entry needs its directory, and no link of that name.
CanCreate(p) ==
  /\ p \notin DOMAIN fs /\ Resolve(p) = p
  /\ Len(p) = 1 \/ ParentOf(p) \in DOMAIN fs

MkDir(p) ==
  /\ CanCreate(p)
  /\ fs' = [q \in DOMAIN fs \cup {p} |-> IF q = p THEN nextIno ELSE fs[q]]
  /\ nextIno' = nextIno + 1
  /\ Enqueue(EntryEvent(p, "create"))
  /\ UNCHANGED <<kwd, nextWd, mounted>>

\* rmdir: kernels differ in which of the two events comes first.
RmDir(p) ==
  /\ p \in DOMAIN fs \ (Pinned \cup mounted) /\ DirsBelow(p) = {}
  /\ fs' = [q \in DOMAIN fs \ {p} |-> fs[q]]
  /\ kwd' = [i \in DOMAIN kwd \ {fs[p]} |-> kwd[i]]
  /\ LET entry == EntryEvent(p, "delete")
         self == Event(fs[p], "delete_self", NoName)
     IN Enqueue(entry \o self) \/ Enqueue(self \o entry)
  /\ UNCHANGED <<nextIno, nextWd, mounted>>

\* rename(p, q): the directory keeps its inode, and so its mark, and takes its
\* subtree along; an empty directory at q is replaced.  It stays on its disk.
Move(p, q) ==
  LET moved == {x \in DOMAIN fs : IsParentPath(p, x)}
      To(x) == q \o SubSeq(x, Len(p) + 1, Len(x))
      From(y) == p \o SubSeq(y, Len(q) + 1, Len(y))
      replaced == q \in DOMAIN fs
  IN /\ p \in DOMAIN fs \ (Pinned \cup mounted)
     /\ ~IsParentPath(p, q) /\ ~IsParentPath(q, p)
     /\ \A d \in mounted : IsParentPath(d, p) <=> IsParentPath(d, q)
     /\ CanCreate(q) \/ (RenameOver /\ replaced /\ q \notin Pinned /\ DirsBelow(q) = {})
     /\ \A x \in moved : To(x) \in Paths
     /\ fs' = [y \in (DOMAIN fs \ moved) \cup {To(x) : x \in moved} |->
                 IF IsParentPath(q, y) THEN fs[From(y)] ELSE fs[y]]
     /\ kwd' = [i \in DOMAIN kwd \ (IF replaced THEN {fs[q]} ELSE {}) |-> kwd[i]]
     /\ Enqueue(EntryEvent(p, "moved_from") \o EntryEvent(q, "moved_to")
                \o Event(fs[p], "move_self", NoName)
                \o (IF replaced THEN Event(fs[q], "delete_self", NoName) ELSE <<>>))
     /\ UNCHANGED <<nextIno, nextWd, mounted>>

\* umount: the disk must not be in use.  The directory it was mounted on is another one,
\* without entries, and the marks of the disk's directories go, one event each.
Unmount(d, busy) ==
  LET gone == {p \in DOMAIN fs : IsParentPath(d, p)}
      marked == {i \in DOMAIN kwd : \E p \in gone : fs[p] = i}
  IN /\ d \in mounted /\ mounted' = mounted \ {d}
     /\ \A p \in gone : fs[p] \notin busy
     /\ fs' = [p \in (DOMAIN fs \ gone) \cup {d} |-> IF p = d THEN nextIno ELSE fs[p]]
     /\ nextIno' = nextIno + 1
     /\ kwd' = [i \in DOMAIN kwd \ marked |-> kwd[i]]
     /\ \E evs \in [1..Cardinality(marked) -> {Event(i, "unmount", NoName)[1] : i \in marked}] :
          /\ \A i \in marked : \E k \in DOMAIN evs : evs[k].wd = kwd[i]
          /\ Enqueue(evs)
     /\ UNCHANGED nextWd

FileTreeNext(busy) ==
  /\ ops < MaxOps
  /\ ops' = ops + 1
  /\ \/ \E p \in Paths : MkDir(p) \/ RmDir(p)
     \/ \E p, q \in Paths : Move(p, q)
     \/ \E d \in Disks : Unmount(d, busy)

----------------------------------------------------------------------------
\* inotify_add_watch on an existing directory: its mark, or a new one.
AddWatchResult(p) ==
  IF InodeAt(p) \in DOMAIN kwd THEN kwd[InodeAt(p)] ELSE nextWd
NoSpaceLeft(p) ==
  InodeAt(p) \notin DOMAIN kwd /\ Cardinality(DOMAIN kwd) >= WatchLimit
InotifyAddWatch(p) ==
  IF InodeAt(p) \in DOMAIN kwd
  THEN UNCHANGED <<kwd, nextWd>>
  ELSE /\ kwd' = [i \in DOMAIN kwd \cup {InodeAt(p)} |->
                    IF i = InodeAt(p) THEN nextWd ELSE kwd[i]]
       /\ nextWd' = nextWd + 1

\* inotify_rm_watch of every descriptor in ws, of the marks there are.
InotifyRmWatches(marks, ws) ==
  kwd' = [i \in {i \in DOMAIN marks : marks[i] \notin ws} |-> marks[i]]
=============================================================================
