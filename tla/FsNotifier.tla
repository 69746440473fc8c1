----------------------------- MODULE FsNotifier -----------------------------
(***************************************************************************)
(* native/fsNotifier: one thread that serves, in a select loop, root lists *)
(* from the IDE, inotify events and a one-second timeout, while other      *)
(* processes change the directories (FileTree).  A step is what the        *)
(* process does between two system calls whose answers those changes can   *)
(* alter; walk_tree is therefore an explicit stack of frames.              *)
(***************************************************************************)
EXTENDS WatchTree, FileTree

CONSTANTS
  RootLists,    \* the lists of roots the IDE may send: sequences of RootSpec
  Mounts,       \* the unwatchable mount points of /proc/mounts
  MaxCommands,  \* bound on the ROOTS commands
  MaxFaults,    \* bound on the failures of opendir and inotify_add_watch
  Eof           \* may the IDE close stdin or send EXIT?

ERR_IGNORE == -1
ERR_CONTINUE == -2
ERR_ABORT == -3
ERR_MISSING == -4

RootSpec == [path : Paths, flat : BOOLEAN]
ASSUME RootListsAssumption == RootLists \subseteq Seq(RootSpec)
ASSUME MountsAssumption == Mounts \subseteq Paths

VARIABLES
  roots,        \* registered roots: sequence of [path, flat, id]
  limitReached, \* limit_reached: the IDE was told once that watches ran out
  unwatchable,  \* what the last UNWATCHEABLE report names
  task,         \* what main_loop is doing
  pending,      \* register_roots: the requested roots still to do
  idx,          \* check_missing_roots: the root it is at
  batch,        \* the events read from the inotify descriptor, not yet processed
  stack,        \* the frames of walk_tree, outermost first
  walk,         \* its arguments `recursive' and `mounts'
  out,          \* the paths reported to the IDE in the last step
  why,          \* the last ERR_ABORT (check_missing_roots keeps it as a root's id and goes on)
  commands, faults  \* counters for the two bounds

loopVars == <<roots, unwatchable, task, pending, idx>>
boundVars == <<commands, faults>>
vars == <<wtVars, treeVars, loopVars, limitReached, batch, stack, walk, out, why,
          boundVars>>

Tasks == {"select", "register", "dispatch", "event", "restore", "restat",
          "giveup", "exited"}
Frame == [path : Seq(Names), parent : Wds \cup {Nil},
          at : {"enter", "add", "compare", "list", "scan"},
          dir : Nat, met : Wds \cup {Nil}, id : Wds \cup {Nil}, names : SUBSET Names]

Quiet == out' = {}
Report(ps) == out' = ps
NoWalk == [recursive |-> TRUE, mounts |-> {}]
Running == task \notin {"giveup", "exited"}

FsInit ==
  /\ Init /\ FileTreeInit
  /\ roots = <<>> /\ unwatchable = {} /\ limitReached = FALSE
  /\ task = "select" /\ pending = <<>> /\ idx = 0 /\ batch = <<>>
  /\ stack = <<>> /\ walk = NoWalk
  /\ out = {} /\ why = "none" /\ commands = 0 /\ faults = 0

----------------------------------------------------------------------------
\* rm_watch of the nodes found at the slots of the given ids, which are removed
\* from the kernel's marks too.  A negative id finds nothing.
NodesAt(ids) == {NodeAt(i) : i \in {i \in ids : i \in Wds /\ NodeAt(i) # Nil}}
\* Mutant: the kernel's watches on the kids of the removed nodes are forgotten.
RmWatchesTopOnly(marks, ids) ==
  IF NodesAt(ids) = {} THEN UNCHANGED wtVars /\ kwd' = marks
  ELSE FreeNodes(NodesAt(ids)) /\ InotifyRmWatches(marks, NodesAt(ids))

RmWatchesFrom(marks, ids) ==
  IF NodesAt(ids) = {} THEN UNCHANGED wtVars /\ kwd' = marks
  ELSE FreeNodes(NodesAt(ids)) /\ InotifyRmWatches(marks, Doomed(NodesAt(ids)))

RmWatches(ids) == RmWatchesFrom(kwd, ids)

RootIds(rs) == {rs[i].id : i \in DOMAIN rs}
SameNodes == UNCHANGED <<wtVars, kwd, nextWd>>
SameTree == UNCHANGED <<fs, queue, nextIno, mounted, ops>>

----------------------------------------------------------------------------
\* What register_roots puts on its list of unwatchable paths.
\* Mutant: nothing is put on it.
Unreported(ps) == UNCHANGED unwatchable

Unwatchable(ps) == unwatchable' = unwatchable \cup ps

OuterMount(p) == \E m \in Mounts : IsParentPath(m, p)
InnerMounts(p) == {m \in Mounts : IsParentPath(p, m)}

\* What the caller of the outermost walk_tree does with its result v.
Finish(v) ==
  CASE task = "register" ->          \* register_roots after watch()
         LET new == Head(pending)
         IN /\ roots' = IF v >= 0 \/ v = ERR_MISSING
                        THEN Append(roots, [path |-> new.path, flat |-> new.flat, id |-> v])
                        ELSE roots
            /\ Unwatchable(InnerMounts(new.path) \cup
                           IF v = ERR_CONTINUE THEN {new.path} ELSE {})
            /\ pending' = Tail(pending)
            /\ task' = IF v = ERR_ABORT THEN "giveup" ELSE "register"
            /\ Quiet /\ UNCHANGED idx
    [] task = "event" ->             \* process_inotify_event
         /\ task' = IF v = ERR_ABORT THEN "giveup" ELSE "dispatch"
         /\ Quiet /\ UNCHANGED <<roots, unwatchable, pending, idx>>
    [] task \in {"restore", "restat"} ->   \* check_missing_roots: any result is kept
         /\ roots' = [roots EXCEPT ![idx].id = v]
         /\ Report({roots[idx].path})
         /\ idx' = idx + 1 /\ task' = "restore"
         /\ UNCHANGED <<unwatchable, pending>>

\* The frame on top returns v.  Any error but ERR_IGNORE makes every caller
\* drop its own watch (rm_watch(id, true)) and return the same error.
Callers == SubSeq(stack, 1, Len(stack) - 1)
ReturnTo(v, fails, dropped, marks) ==
  /\ stack' = IF fails THEN <<>> ELSE Callers
  /\ RmWatchesFrom(marks, dropped)
  /\ IF stack' = <<>> THEN Finish(v) ELSE Quiet /\ UNCHANGED loopVars

WatchesOfCallers == {Callers[i].id : i \in DOMAIN Callers}
Fatal(v) == v \in {ERR_CONTINUE, ERR_ABORT}

\* Mutant: a subdirectory that vanished fails its parents' walks too.
ReturnStrict(v, marks) == ReturnTo(v, v < 0, IF v < 0 THEN WatchesOfCallers ELSE {}, marks)

\* Mutant: a failed walk keeps the watches made so far.
ReturnKeeping(v, marks) == ReturnTo(v, Fatal(v), {}, marks)

ReturnFrom(v, marks) ==
  ReturnTo(v, Fatal(v), IF Fatal(v) THEN WatchesOfCallers ELSE {}, marks)

Return(v) == ReturnFrom(v, kwd) /\ UNCHANGED nextWd

Top == stack[Len(stack)]
SetTop(f) == stack' = [stack EXCEPT ![Len(stack)] = f]
\* Mutant: the id of a frame is not initialised.
EnterFrameUnset(path, parent) ==
  [path |-> path, parent |-> parent, at |-> "enter", dir |-> 0, met |-> Nil, id |-> 0,
   names |-> {}]

EnterFrame(path, parent) ==
  [path |-> path, parent |-> parent, at |-> "enter", dir |-> 0, met |-> Nil, id |-> Nil,
   names |-> {}]
WalkStep(at) == Running /\ stack # <<>> /\ Top.at = at
CrossesMount == \E m \in walk.mounts : StrPrefix(m, Top.path)

\* walk_tree: the mount test, then opendir when the walk is recursive.
OpenDir ==
  /\ WalkStep("enter")
  /\ SameTree /\ UNCHANGED <<limitReached, batch, walk, commands>>
  /\ \/ /\ CrossesMount \/ (walk.recursive /\ ~Exists(Top.path))
        /\ Return(ERR_IGNORE) /\ UNCHANGED <<why, faults>>
     \/ /\ ~CrossesMount /\ (walk.recursive => Exists(Top.path))
        /\ SetTop([Top EXCEPT !.at = "add",
                              !.dir = IF walk.recursive THEN InodeAt(Top.path) ELSE 0])
        /\ Quiet /\ SameNodes /\ UNCHANGED <<loopVars, why, faults>>
     \/ /\ ~CrossesMount /\ walk.recursive /\ Exists(Top.path) /\ faults < MaxFaults
        /\ faults' = faults + 1 /\ UNCHANGED why
        /\ Return(ERR_IGNORE)     \* EACCES
           \/ Return(ERR_CONTINUE)   \* EMFILE, ENOMEM

\* The four ways add_watch can end without a new node, and the new node.
AddWatchFails(v, reason) ==
  /\ Return(v) /\ why' = IF v = ERR_ABORT THEN reason ELSE why
  /\ UNCHANGED limitReached

AddWatchErrno ==
  \/ /\ ~Exists(Top.path) /\ AddWatchFails(ERR_IGNORE, "none") /\ UNCHANGED faults
  \/ /\ Exists(Top.path) /\ NoSpaceLeft(Top.path)
     /\ Return(ERR_CONTINUE) /\ limitReached' = TRUE /\ UNCHANGED <<why, faults>>
  \/ /\ Exists(Top.path) /\ faults < MaxFaults /\ faults' = faults + 1
     /\ AddWatchFails(ERR_IGNORE, "none") \/ AddWatchFails(ERR_ABORT, "errno")

\* Mutant: a new node overwrites the node that holds its slot.
AddWatchToOverwriting(wd) ==
  LET n == NodeAt(wd)
      Reached == [Top EXCEPT !.id = wd, !.names = {},
                             !.at = IF walk.recursive THEN "list" ELSE "scan"]
  IN IF n = wd
     THEN SetTop(Reached) /\ Quiet /\ SameNodes /\ UNCHANGED <<loopVars, why>>
     ELSE /\ table' = [table EXCEPT ![Slot(wd)] = wd]
          /\ node' = [w \in Live \cup {wd} |->
                        IF w = wd THEN [path |-> Top.path, parent |-> Top.parent, kids |-> {}]
                        ELSE node[w]]
          /\ InotifyAddWatch(Top.path)
          /\ SetTop(Reached) /\ Quiet /\ UNCHANGED <<loopVars, why>>

\* The descriptor has no node of its own: the kernel's mark is made (or was there), and
\* stays without a node.
MarkedAs(wd) ==
  [i \in DOMAIN kwd \cup {InodeAt(Top.path)} |-> IF i = InodeAt(Top.path) THEN wd ELSE kwd[i]]

AddWatchTo(wd) ==
  LET n == NodeAt(wd)
      Reached == [Top EXCEPT !.id = wd, !.names = {},
                             !.at = IF walk.recursive THEN "list" ELSE "scan"]
  IN CASE n = Nil ->
            /\ AddNode(wd, Top.path, Top.parent) /\ InotifyAddWatch(Top.path)
            /\ SetTop(Reached) /\ Quiet /\ UNCHANGED <<loopVars, why>>
       [] n # Nil /\ n # wd ->       \* "table error: corruption"
            /\ ReturnFrom(ERR_ABORT, MarkedAs(wd)) /\ why' = "corruption"
            /\ nextWd' = IF wd = nextWd THEN nextWd + 1 ELSE nextWd
       [] n = wd /\ node[n].path = Top.path ->
            /\ SetTop(Reached) /\ Quiet /\ SameNodes /\ UNCHANGED <<loopVars, why>>
       [] n = wd /\ node[n].path # Top.path ->
            /\ SetTop([Top EXCEPT !.at = "compare", !.met = wd])
            /\ Quiet /\ SameNodes /\ UNCHANGED <<loopVars, why>>

\* The two calls of realpath, on the path of the node and on the frame's.
SameRealPath(p, q) == Exists(p) /\ Exists(q) /\ Resolve(p) = Resolve(q)
ComparePaths ==
  /\ WalkStep("compare")
  /\ \/ /\ SameRealPath(node[Top.met].path, Top.path)      \* "intersection"
        /\ Return(ERR_IGNORE) /\ UNCHANGED why
     \/ /\ ~SameRealPath(node[Top.met].path, Top.path)     \* "table error: collision"
        /\ Return(ERR_ABORT) /\ why' = "collision"
  /\ SameTree /\ UNCHANGED <<limitReached, batch, walk, boundVars>>

AddWatch ==
  /\ WalkStep("add")
  /\ SameTree /\ UNCHANGED <<batch, walk, commands>>
  /\ \/ AddWatchErrno
     \/ /\ Exists(Top.path) /\ ~NoSpaceLeft(Top.path)
        /\ AddWatchResult(Top.path) \in Wds /\ Top.path \in Paths     \* bounds
        /\ AddWatchTo(AddWatchResult(Top.path))
        /\ UNCHANGED <<limitReached, faults>>

\* The first readdir fetches the entries of the directory that was opened.
ReadDir ==
  /\ WalkStep("list")
  /\ SetTop([Top EXCEPT !.at = "scan", !.names = EntriesOf(Top.dir)])
  /\ Quiet /\ SameTree /\ SameNodes
  /\ UNCHANGED <<loopVars, limitReached, batch, walk, why, boundVars>>

\* The next entry: its path is the frame's path, wherever the directory is now.
WalkEntry ==
  /\ WalkStep("scan")
  /\ \E n \in Top.names :
       stack' = Append([stack EXCEPT ![Len(stack)].names = @ \ {n}],
                       EnterFrame(Child(Top.path, n), NodeAt(Top.id)))
  /\ Quiet /\ SameTree /\ SameNodes
  /\ UNCHANGED <<loopVars, limitReached, batch, walk, why, boundVars>>

WalkEnd ==
  /\ WalkStep("scan") /\ Top.names = {}
  /\ Return(Top.id)
  /\ SameTree /\ UNCHANGED <<limitReached, batch, walk, why, boundVars>>

WalkTree == OpenDir \/ AddWatch \/ ComparePaths \/ ReadDir \/ WalkEntry \/ WalkEnd

----------------------------------------------------------------------------
\* read_input and update_roots: the old roots are dropped from the last to the
\* first before any new one is looked at.
UpdateRoots ==
  /\ task = "select" /\ commands < MaxCommands
  /\ \E new \in RootLists :
       \/ /\ pending' = new
          /\ task' = IF new = <<>> THEN "select" ELSE "register"
          /\ UNCHANGED <<why, faults>>
       \/ /\ new # <<>> /\ faults < MaxFaults       \* unwatchable_mounts: setmntent fails
          /\ faults' = faults + 1 /\ why' = "errno"
          /\ task' = "giveup" /\ UNCHANGED pending
  /\ RmWatches(RootIds(roots)) /\ roots' = <<>>
  /\ unwatchable' = {} /\ commands' = commands + 1
  /\ Quiet /\ SameTree
  /\ UNCHANGED <<nextWd, idx, limitReached, batch, stack, walk>>

\* register_roots up to the walk: the mounts above and below the root, in the order of
\* the mount table and up to the first one above it, then watch()'s stat.

\* Mutant: watch() does not pass the mounts on.
StartWalkEverywhere(root, mounts) ==
  /\ walk' = [recursive |-> ~root.flat, mounts |-> {}]
  /\ stack' = <<EnterFrame(root.path, Nil)>>

StartWalk(root, mounts) ==
  /\ walk' = [recursive |-> ~root.flat, mounts |-> mounts]
  /\ stack' = <<EnterFrame(root.path, Nil)>>

RegisterRoot ==
  /\ task = "register" /\ pending # <<>> /\ stack = <<>>
  /\ LET root == Head(pending)
     IN \/ /\ OuterMount(root.path)
           /\ \E before \in SUBSET InnerMounts(root.path) : Unwatchable({root.path} \cup before)
           /\ pending' = Tail(pending)
           /\ UNCHANGED <<roots, task, idx, stack, walk>>
        \/ /\ ~OuterMount(root.path) /\ Exists(root.path)
           /\ Unwatchable(InnerMounts(root.path))
           /\ StartWalk(root, InnerMounts(root.path))
           /\ UNCHANGED <<roots, task, pending, idx>>
        \/ /\ ~OuterMount(root.path) /\ ~Exists(root.path)
           /\ Unwatchable(InnerMounts(root.path))
           /\ roots' = Append(roots, [path |-> root.path, flat |-> root.flat,
                                      id |-> ERR_MISSING])
           /\ pending' = Tail(pending)
           /\ UNCHANGED <<task, idx, stack, walk>>
  /\ Quiet /\ SameTree /\ SameNodes
  /\ UNCHANGED <<limitReached, batch, why, boundVars>>

\* watch()'s stat fails otherwise: EACCES, ELOOP, ..., or an errno it gives up on.
StatFails ==
  /\ \/ task = "register" /\ pending # <<>> /\ ~OuterMount(Head(pending).path)
     \/ task = "restat"
  /\ stack = <<>> /\ faults < MaxFaults /\ faults' = faults + 1
  /\ \/ Finish(ERR_CONTINUE) /\ UNCHANGED why
     \/ Finish(ERR_ABORT) /\ why' = "errno"
  /\ SameTree /\ SameNodes
  /\ UNCHANGED <<limitReached, batch, stack, walk, commands>>

\* The UNWATCHEABLE report: on it the IDE scans the roots afresh.
RegisterDone ==
  /\ task = "register" /\ pending = <<>> /\ stack = <<>>
  /\ task' = "select"
  /\ Report({roots[i].path : i \in DOMAIN roots})
  /\ SameTree /\ SameNodes
  /\ UNCHANGED <<roots, unwatchable, pending, idx, limitReached, batch, stack, walk,
                 why, boundVars>>

----------------------------------------------------------------------------
\* process_inotify_input: one read takes every event queued so far.
ReadEvents ==
  /\ task = "select" /\ queue # <<>>
  /\ batch' = queue /\ queue' = <<>> /\ task' = "dispatch"
  /\ Quiet /\ SameNodes
  /\ UNCHANGED <<fs, nextIno, mounted, ops, roots, unwatchable, pending, idx, limitReached,
                 stack, walk, why, boundVars>>

\* check_root_removal, called for the path of the node that went away.
RemovedRoots(p) == {i \in DOMAIN roots : roots[i].id >= 0 /\ roots[i].path = p}
\* Mutant: the root is unwatched but keeps its id.
CheckRootRemovalOnce(p) ==
  /\ RmWatches({roots[i].id : i \in RemovedRoots(p)})
  /\ Report(IF RemovedRoots(p) = {} THEN {} ELSE {p})
  /\ UNCHANGED roots

CheckRootRemoval(p) ==
  /\ RmWatches({roots[i].id : i \in RemovedRoots(p)})
  /\ roots' = [i \in DOMAIN roots |->
                 IF i \in RemovedRoots(p) THEN [roots[i] EXCEPT !.id = -1] ELSE roots[i]]
  /\ Report(IF RemovedRoots(p) = {} THEN {} ELSE {p})

\* The kid a DELETE or MOVED_FROM event drops: the first whose path is a string
\* prefix of the event's path.
MatchingKids(n, p) == {k \in node[n].kids : k \in Live /\ StrPrefix(node[k].path, p)}
DropKid(n, p) ==
  IF MatchingKids(n, p) = {} THEN UNCHANGED <<wtVars, kwd>>
  ELSE RmWatches({CHOOSE k \in MatchingKids(n, p) : \A j \in MatchingKids(n, p) : k <= j})

\* The two masks process_inotify_event tests.
\* Mutants: renames are not followed.
CreateOnly(e) == e.kind = "create"
DeleteOnly(e) == e.kind = "delete"

Appears(e) == e.kind \in {"create", "moved_to"}
Vanishes(e) == e.kind \in {"delete", "moved_from"}
SelfGone(e) == e.kind \in {"delete_self", "move_self"}

\* process_inotify_event for the next event of the batch: nothing is done for an event
\* that has no node any more, nor for IN_Q_OVERFLOW, and IN_UNMOUNT only has RESET printed.
ProcessEvent(e) ==
  LET n == IF e.kind = "overflow" THEN Nil ELSE NodeAt(e.wd)
      p == IF e.name = NoName THEN node[n].path ELSE Child(node[n].path, e.name)
  IN \/ /\ n = Nil \/ ~(Appears(e) \/ Vanishes(e) \/ SelfGone(e))
        /\ Quiet /\ UNCHANGED <<wtVars, kwd, roots, task, stack, walk>>
     \/ /\ n # Nil /\ Appears(e)
        /\ Report({p}) /\ task' = "event"
        /\ stack' = <<EnterFrame(p, n)>> /\ walk' = NoWalk
        /\ UNCHANGED <<wtVars, kwd, roots>>
     \/ /\ n # Nil /\ Vanishes(e)
        /\ Report({p}) /\ DropKid(n, p)
        /\ UNCHANGED <<roots, task, stack, walk>>
     \/ /\ n # Nil /\ SelfGone(e)
        /\ CheckRootRemoval(p)
        /\ UNCHANGED <<task, stack, walk>>

Dispatch ==
  /\ task = "dispatch" /\ batch # <<>>
  /\ ProcessEvent(Head(batch)) /\ batch' = Tail(batch)
  /\ SameTree
  /\ UNCHANGED <<nextWd, unwatchable, pending, idx, limitReached, why, boundVars>>

DispatchDone ==
  /\ task = "dispatch" /\ batch = <<>> /\ task' = "select"
  /\ Quiet /\ SameTree /\ SameNodes
  /\ UNCHANGED <<roots, unwatchable, pending, idx, limitReached, batch, stack, walk, why,
                 boundVars>>

----------------------------------------------------------------------------
\* The select timeout, then check_missing_roots root by root: its own stat, and
\* the second stat in watch().
Timeout ==
  /\ task = "select" /\ queue = <<>> /\ \E i \in DOMAIN roots : roots[i].id < 0
  /\ task' = "restore" /\ idx' = 1
  /\ Quiet /\ SameTree /\ SameNodes
  /\ UNCHANGED <<roots, unwatchable, pending, limitReached, batch, stack, walk, why,
                 boundVars>>

CheckRoot ==
  /\ task = "restore" /\ stack = <<>>
  /\ \/ /\ idx > Len(roots) /\ task' = "select" /\ UNCHANGED idx
     \/ /\ idx \in DOMAIN roots
        /\ roots[idx].id >= 0 \/ ~Exists(roots[idx].path)
        /\ idx' = idx + 1 /\ UNCHANGED task
     \/ /\ idx \in DOMAIN roots /\ roots[idx].id < 0 /\ Exists(roots[idx].path)
        /\ task' = "restat" /\ UNCHANGED idx
  /\ Quiet /\ SameTree /\ SameNodes
  /\ UNCHANGED <<roots, unwatchable, pending, limitReached, batch, stack, walk, why,
                 boundVars>>

RestoreRoot ==
  /\ task = "restat" /\ stack = <<>>
  /\ \/ /\ Exists(roots[idx].path) /\ StartWalk(roots[idx], {})
        /\ task' = "restore" /\ Quiet /\ UNCHANGED <<roots, unwatchable, pending, idx>>
     \/ /\ ~Exists(roots[idx].path) /\ Finish(ERR_MISSING) /\ UNCHANGED <<stack, walk>>
  /\ SameTree /\ SameNodes
  /\ UNCHANGED <<limitReached, batch, why, boundVars>>

----------------------------------------------------------------------------
\* EXIT, or the end of stdin; and the way out of main: unregister_roots, then
\* close_inotify, which drops the marks and the queue.
Quit ==
  /\ Eof /\ task = "select" /\ task' = "giveup" /\ Quiet
  /\ SameTree /\ SameNodes
  /\ UNCHANGED <<roots, unwatchable, pending, idx, limitReached, batch, stack, walk, why,
                 boundVars>>

ShutdownFreeing(ids) ==
  /\ task = "giveup" /\ task' = "exited"
  /\ IF NodesAt(ids) = {} THEN UNCHANGED wtVars ELSE FreeNodes(NodesAt(ids))
  /\ kwd' = [i \in {} |-> 0] /\ queue' = <<>>
  /\ roots' = <<>> /\ Quiet
  /\ UNCHANGED <<fs, nextIno, nextWd, mounted, ops, unwatchable, pending, idx, limitReached,
                 batch, stack, walk, why, boundVars>>

\* Mutant: the last unregister_roots stops before the first root.
ShutdownButFirst == ShutdownFreeing({roots[i].id : i \in DOMAIN roots \ {1}})

Shutdown == ShutdownFreeing(RootIds(roots))

Watcher ==
  \/ WalkTree \/ RegisterRoot \/ StatFails \/ RegisterDone \/ ReadEvents \/ Dispatch \/ DispatchDone
  \/ Timeout \/ CheckRoot \/ RestoreRoot \/ Shutdown

\* A directory that walk_tree has open keeps its disk from being unmounted.
Others ==
  /\ FileTreeNext({stack[i].dir : i \in DOMAIN stack}) /\ task # "exited" /\ Quiet
  /\ UNCHANGED <<wtVars, loopVars, limitReached, batch, stack, walk, why, boundVars>>

FsNext == Watcher \/ UpdateRoots \/ Quit \/ Others

FsSpec == FsInit /\ [][FsNext]_vars
FairSpec == FsSpec /\ WF_vars(Watcher)

----------------------------------------------------------------------------
\* Types; a watch the kernel holds was handed out before.
FsTypeOK ==
  /\ TypeOK
  /\ DOMAIN fs \subseteq Paths /\ \A p \in DOMAIN fs : Len(p) = 1 \/ ParentOf(p) \in DOMAIN fs
  /\ \A i \in DOMAIN kwd : kwd[i] \in Wds /\ kwd[i] < nextWd
  /\ queue \in Seq(Events) /\ batch \in Seq(Events)
  /\ \A i \in DOMAIN stack : stack[i] \in Frame
  /\ task \in Tasks /\ out \subseteq Seq(Names) /\ unwatchable \subseteq Paths
  /\ \A i \in DOMAIN roots : roots[i].id \in Wds \cup -4..-1

\* Every step of the notifier changes the nodes as WatchTree allows: inotify.c uses
\* the table and the node pointers the way util.c and rm_watch expect.
ImplementsWatchTree == Spec

\* The process waits in select, no event is queued, and no missing root is back.
AllRestored == \A i \in DOMAIN roots : roots[i].id < 0 => ~Exists(roots[i].path)
AtRest == task = "select" /\ queue = <<>> /\ AllRestored

\* The kernel watches the directory at p, and its node says so.
Covered(p) ==
  /\ fs[p] \in DOMAIN kwd /\ kwd[fs[p]] \in Live
  /\ Resolve(node[kwd[fs[p]]].path) = p

UnderMount(p) == \E m \in Mounts : IsParentPath(m, p)
MustWatch(root) ==
  {p \in DOMAIN fs : /\ ~UnderMount(p)
                     /\ IF root.flat THEN p = Resolve(root.path)
                        ELSE IsParentPath(Resolve(root.path), p)}
Healthy == ~limitReached /\ faults = 0

\* At rest every directory under a registered root is watched under its own path,
\* however creations, removals and renames raced with walk_tree and the event
\* handlers (only running out of watches or failing system calls excuse a gap; and a
\* root must not be replaced between its opendir and its inotify_add_watch, see README).
CoverageAtRest ==
  AtRest /\ Healthy =>
    \A i \in DOMAIN roots : roots[i].id >= 0 => \A p \in MustWatch(roots[i]) : Covered(p)

\* Between two rounds of the loop every node hangs below the node of a registered
\* root, so that unregister_roots (which starts from the root ids only) frees all,
\* and every watch the kernel holds has a node.  After an ERR_ABORT there may be others:
\* the watch add_watch made for a descriptor that found its slot taken by an older one.
Collided(wd) == \E v \in Wds : v < wd /\ Slot(v) = Slot(wd)
NoLeakedWatches ==
  task = "select" =>
    /\ \A w \in Live : w \in Doomed(NodesAt(RootIds(roots)))
    /\ \A i \in DOMAIN kwd : kwd[i] \in Live \/ (why # "none" /\ Collided(kwd[i]))

\* At rest no watch sits on a directory under a path that is not (or no longer) its
\* own: its events would be reported for the wrong path.
NodePathsTrue == AtRest => \A p \in DOMAIN fs : fs[p] \in DOMAIN kwd => Covered(p)

\* update_roots answers for every root it takes from the list, unless the root vanishes
\* under its feet, opendir or inotify_add_watch fails on it, or the process gives up: it is
\* registered (watched or missing), named in the UNWATCHEABLE report, or watched already under
\* another name, at or below a registered root (the "intersection" of add_watch).
WatchedElsewhere(p) ==
  \E w \in Live : /\ node[w].path # p /\ Resolve(node[w].path) = Resolve(p)
                  /\ \E i \in DOMAIN roots : IsParentPath(roots[i].path, node[w].path)
Answered(root) ==
  \/ root.path \in unwatchable
  \/ \E i \in DOMAIN roots : roots[i].path = root.path
  \/ WatchedElsewhere(root.path)
RootsAnswered ==
  [][\A root \in RootSpec :
       pending = <<root>> \o pending' /\ Resolve(root.path) \in Pinned
       /\ (faults' = faults \/ stack = <<>>)
         => Answered(root)' \/ task' = "giveup"]_vars

\* The walk of a root that register_roots takes from the list makes no watch at or below an
\* unwatchable mount point, whatever happens to the directories meanwhile.
RegisterSkipsMounts ==
  [][\A w \in Live' \ Live : task = "register" => ~UnderMount(node'[w].path)]_vars

\* No directory is ever watched under a path at or below an unwatchable mount point,
\* neither by the walk of a root nor by one that an event starts.  (Mounts are compared
\* as names: below a root that is a symbolic link they are not recognised.)
MountsStayUnwatched == \A w \in Live : ~UnderMount(node[w].path)

\* When the process has left main_loop, by EXIT or by an error anywhere,
\* unregister_roots has freed every node.
ExitFreesAll == task = "exited" => Live = {}

\* Once the other processes are done, every root that exists gets a watch on the
\* directory that is there now: a missing root is found again by the timeout.
RootsEventuallyWatched ==
  <>[](Running /\ Healthy =>
         \A i \in DOMAIN roots : Exists(roots[i].path) => Covered(Resolve(roots[i].path)))

\* A change of the directories alone never makes the process give up.
NeverGivesUp == why = "none"
=============================================================================
