-------------------------- MODULE FsNotifierProofs --------------------------
(***************************************************************************)
(* For every tree, root list and schedule: the notifier uses its watch     *)
(* nodes only as WatchTree allows, so their forest stays consistent in     *)
(* every reachable state of the whole program; no node is lost, no mark    *)
(* but a collided one; every root is answered; and the walk of a root      *)
(* keeps off the unwatchable mounts.                                       *)
(***************************************************************************)
EXTENDS FsNotifier, WatchTreeProofs, SequenceTheorems, FiniteSetTheorems, FunctionTheorems

\* A frame of walk_tree: a record, whose parent_node is NULL or not freed, and whose
\* id is the result of add_watch once the directory is being read.
IsFrame(f) ==
  f \in [path : {f.path}, parent : {f.parent}, at : {f.at}, dir : {f.dir},
         met : {f.met}, id : {f.id}, names : {f.names}]
FrameOk(f, live) ==
  /\ IsFrame(f)
  /\ f.parent \in live \cup {Nil}
  /\ f.at \in {"list", "scan"} => f.id \in Wds
GoodStack(st, live) ==
  /\ st \in Seq({st[i] : i \in DOMAIN st})
  /\ \A i \in DOMAIN st : FrameOk(st[i], live)

\* add_watch stores its parent_node argument in the new node and in the parent's
\* kids, so no frame may hold a pointer to a node that was freed since; and rm_watch
\* runs only outside walk_tree, or when all the frames are about to return.
StackOk == GoodStack(stack, Live)
WalksForATask == stack # <<>> => task \in {"register", "event", "restore"}

\* Events carry descriptors, because the kernel's marks do.
EventsOk ==
  /\ DOMAIN fs \subseteq Paths
  /\ \A i \in DOMAIN kwd : kwd[i] \in Wds
  /\ queue \in Seq(Events) /\ batch \in Seq(Events)
FsInv == IInv /\ StackOk /\ WalksForATask /\ EventsOk

----------------------------------------------------------------------------
LEMMA StackLength ==
  ASSUME NEW st, NEW live, GoodStack(st, live)
  PROVE  Len(st) \in Nat /\ DOMAIN st = 1..Len(st) /\ (st # <<>> => Len(st) \in DOMAIN st)
<1>1. Len(st) \in Nat /\ DOMAIN st = 1..Len(st)
  BY LenProperties DEF GoodStack
<1>2. ASSUME st # <<>> PROVE Len(st) # 0
  BY <1>2, EmptySeq DEF GoodStack
<1>3. QED
  BY <1>1, <1>2

\* A sequence of frames that are all good is a good stack.
LEMMA AllGood ==
  ASSUME NEW S, NEW st \in Seq(S), NEW live,
         \A i \in 1..Len(st) : FrameOk(st[i], live)
  PROVE  GoodStack(st, live)
<1>1. Len(st) \in Nat /\ st \in [1..Len(st) -> S] /\ DOMAIN st = 1..Len(st)
  BY LenProperties
<1> DEFINE F == {st[i] : i \in DOMAIN st}
<1>2. st \in [1..Len(st) -> F]
  BY <1>1
<1>3. Seq(F) = UNION {[1..n -> F] : n \in Nat}
  BY SeqDef
<1>4. st \in Seq(F)
  BY <1>1, <1>2, <1>3
<1>5. QED
  BY <1>1, <1>4 DEF GoodStack

LEMMA EmptyIsGood == \A live : GoodStack(<<>>, live)
<1>1. TAKE live
<1>2. PICK st : st = <<>>
  OBVIOUS
<1>3. st \in Seq({}) /\ Len(st) = 0
  BY <1>2, EmptySeq
<1>4. \A i \in 1..Len(st) : FALSE
  BY <1>3
<1>5. GoodStack(st, live)
  BY <1>3, <1>4, AllGood
<1>6. QED
  BY <1>2, <1>5

\* Popping, replacing and pushing a frame keep the stack good while nodes are added.
LEMMA PopIsGood ==
  ASSUME NEW st, NEW live, GoodStack(st, live), st # <<>>
  PROVE  GoodStack(SubSeq(st, 1, Len(st) - 1), live)
<1> DEFINE F == {st[i] : i \in DOMAIN st}  n == Len(st) - 1
<1>1. Len(st) \in Nat \ {0} /\ DOMAIN st = 1..Len(st)
  BY StackLength
<1>2. n \in Nat /\ \A i \in 1..n : st[i] \in F
  BY <1>1
<1>3. /\ SubSeq(st, 1, n) \in Seq(F)
      /\ Len(SubSeq(st, 1, n)) = n
      /\ \A i \in 1..n : SubSeq(st, 1, n)[i] = st[i]
  <2> HIDE DEF F, n
  <2>1. /\ SubSeq(st, 1, n) \in Seq(F)
        /\ Len(SubSeq(st, 1, n)) = IF 1 <= n THEN n - 1 + 1 ELSE 0
        /\ \A i \in 1..(n - 1 + 1) : SubSeq(st, 1, n)[i] = st[1 + i - 1]
    BY <1>2, SubSeqProperties
  <2>2. n - 1 + 1 = n /\ \A i \in 1..n : 1 + i - 1 = i
    BY <1>2
  <2>3. QED
    BY <1>2, <2>1, <2>2
<1>4. \A i \in 1..n : FrameOk(st[i], live)
  BY <1>1 DEF GoodStack
<1>5. QED
  BY <1>3, <1>4, AllGood

LEMMA SetIsGood ==
  ASSUME NEW st, NEW live, NEW more, GoodStack(st, live), st # <<>>, live \subseteq more,
         NEW f, FrameOk(f, more)
  PROVE  GoodStack([st EXCEPT ![Len(st)] = f], more)
<1> DEFINE F == {st[i] : i \in DOMAIN st} \cup {f}
<1>1. Len(st) \in 1..Len(st) /\ DOMAIN st = 1..Len(st)
  BY StackLength
<1>2. st \in Seq(F)
  BY SeqMonotonic DEF GoodStack
<1> DEFINE new == [st EXCEPT ![Len(st)] = f]
<1>3. /\ new \in Seq(F) /\ Len(new) = Len(st)
      /\ \A j \in 1..Len(st) : new[j] = IF j = Len(st) THEN f ELSE st[j]
  BY <1>1, <1>2, ExceptSeq
<1>4. \A i \in 1..Len(new) : FrameOk(new[i], more)
  BY <1>1, <1>3 DEF GoodStack, FrameOk
<1>5. QED
  BY <1>3, <1>4, AllGood

LEMMA PushIsGood ==
  ASSUME NEW st, NEW live, GoodStack(st, live),
         NEW f, FrameOk(f, live)
  PROVE  GoodStack(Append(st, f), live)
<1> DEFINE F == {st[i] : i \in DOMAIN st} \cup {f}  new == Append(st, f)
<1>1. Len(st) \in Nat /\ DOMAIN st = 1..Len(st)
  BY StackLength
<1>2. st \in Seq(F)
  BY SeqMonotonic DEF GoodStack
<1>3. /\ new \in Seq(F) /\ Len(new) = Len(st) + 1
      /\ \A j \in 1..Len(st) : new[j] = st[j]
      /\ new[Len(st) + 1] = f
  BY <1>2, AppendProperties
<1>4. \A i \in 1..Len(new) : FrameOk(new[i], live)
  BY <1>1, <1>3 DEF GoodStack
<1>5. QED
  BY <1>3, <1>4, AllGood

LEMMA EnterFrameOk ==
  ASSUME NEW live, NEW path, NEW parent \in live \cup {Nil}
  PROVE  FrameOk(EnterFrame(path, parent), live)
  BY DEF FrameOk, IsFrame, EnterFrame

\* What the steps of walk_tree assign in the frame on top keeps it well-formed.
LEMMA OpenedOk ==
  ASSUME NEW f, NEW live, FrameOk(f, live), NEW d
  PROVE  FrameOk([f EXCEPT !.at = "add", !.dir = d], live)
<1> DEFINE g == [f EXCEPT !.at = "add", !.dir = d]
           T == [path : {f.path}, parent : {f.parent}, at : {f.at, "add"}, dir : {f.dir, d},
                 met : {f.met}, id : {f.id}, names : {f.names}]
<1>1. f \in T
  BY DEF FrameOk, IsFrame
<1>2. g \in T /\ g.parent = f.parent /\ g.at = "add"
  BY <1>1
<1> HIDE DEF g
<1>3. IsFrame(g)
  BY <1>2 DEF IsFrame
<1>4. FrameOk(g, live)
  BY <1>2, <1>3 DEF FrameOk
<1>5. QED
  BY <1>4 DEF g

LEMMA WatchedOk ==
  ASSUME NEW f, NEW live, FrameOk(f, live), NEW wd \in Wds, NEW a
  PROVE  FrameOk([f EXCEPT !.id = wd, !.names = {}, !.at = a], live)
<1> DEFINE g == [f EXCEPT !.id = wd, !.names = {}, !.at = a]
           T == [path : {f.path}, parent : {f.parent}, at : {f.at, a}, dir : {f.dir},
                 met : {f.met}, id : {f.id, wd}, names : {f.names, {}}]
<1>1. f \in T
  BY DEF FrameOk, IsFrame
<1>2. g \in T /\ g.parent = f.parent /\ g.id = wd
  BY <1>1
<1> HIDE DEF g
<1>3. IsFrame(g)
  BY <1>2 DEF IsFrame
<1>4. FrameOk(g, live)
  BY <1>2, <1>3 DEF FrameOk
<1>5. QED
  BY <1>4 DEF g

LEMMA ListedOk ==
  ASSUME NEW f, NEW live, FrameOk(f, live), f.at = "list", NEW n
  PROVE  FrameOk([f EXCEPT !.at = "scan", !.names = n], live)
<1> DEFINE g == [f EXCEPT !.at = "scan", !.names = n]
           T == [path : {f.path}, parent : {f.parent}, at : {f.at, "scan"}, dir : {f.dir},
                 met : {f.met}, id : {f.id}, names : {f.names, n}]
<1>1. f \in T
  BY DEF FrameOk, IsFrame
<1>2. g \in T /\ g.parent = f.parent /\ g.id = f.id
  BY <1>1
<1> HIDE DEF g
<1>3. IsFrame(g)
  BY <1>2 DEF IsFrame
<1>4. FrameOk(g, live)
  BY <1>2, <1>3 DEF FrameOk
<1>5. QED
  BY <1>4 DEF g

LEMMA NamedOk ==
  ASSUME NEW f, NEW live, FrameOk(f, live), NEW n
  PROVE  FrameOk([f EXCEPT !.names = n], live)
<1> DEFINE g == [f EXCEPT !.names = n]
           T == [path : {f.path}, parent : {f.parent}, at : {f.at}, dir : {f.dir},
                 met : {f.met}, id : {f.id}, names : {f.names, n}]
<1>1. f \in T
  BY DEF FrameOk, IsFrame
<1>2. g \in T /\ g.parent = f.parent /\ g.at = f.at /\ g.id = f.id
  BY <1>1
<1> HIDE DEF g
<1>3. IsFrame(g)
  BY <1>2 DEF IsFrame
<1>4. FrameOk(g, live)
  BY <1>2, <1>3 DEF FrameOk
<1>5. QED
  BY <1>4 DEF g

LEMMA ComparedOk ==
  ASSUME NEW f, NEW live, FrameOk(f, live), NEW wd
  PROVE  FrameOk([f EXCEPT !.at = "compare", !.met = wd], live)
<1> DEFINE g == [f EXCEPT !.at = "compare", !.met = wd]
           T == [path : {f.path}, parent : {f.parent}, at : {f.at, "compare"}, dir : {f.dir},
                 met : {f.met, wd}, id : {f.id}, names : {f.names}]
<1>1. f \in T
  BY DEF FrameOk, IsFrame
<1>2. g \in T /\ g.parent = f.parent /\ g.at = "compare"
  BY <1>1
<1> HIDE DEF g
<1>3. IsFrame(g)
  BY <1>2 DEF IsFrame
<1>4. FrameOk(g, live)
  BY <1>2, <1>3 DEF FrameOk
<1>5. QED
  BY <1>4 DEF g

\* A walk that starts: its only frame is good if its parent is.
LEMMA FirstFrameIsGood ==
  ASSUME NEW live, NEW path, NEW parent \in live \cup {Nil}
  PROVE  GoodStack(<<EnterFrame(path, parent)>>, live)
<1> DEFINE f == EnterFrame(path, parent)  st == <<f>>
<1>1. FrameOk(f, live)
  BY EnterFrameOk
<1> HIDE DEF f
<1>2. st \in Seq({f}) /\ \A i \in 1..Len(st) : st[i] = f
  OBVIOUS
<1> HIDE DEF st
<1>3. GoodStack(st, live)
  BY <1>1, <1>2, AllGood
<1>4. QED
  BY <1>3 DEF f, st

----------------------------------------------------------------------------
\* What every step of the notifier is shown to do, apart from keeping IInv.
StepOk == [Next]_wtVars /\ StackOk' /\ WalksForATask'

\* rm_watch, by slots, removes live nodes only or does nothing.
LEMMA RmWatchesStep ==
  ASSUME IInv, NEW marks, NEW ids, RmWatchesFrom(marks, ids)
  PROVE  [Next]_wtVars
<1>1. NodesAt(ids) \subseteq Live
  BY SlotInRange DEF NodesAt, NodeAt, IInv, Forest, TableMatchesNodes
<1>2. CASE NodesAt(ids) = {}
  BY <1>2 DEF RmWatchesFrom
<1>3. CASE NodesAt(ids) # {}
  BY <1>1, <1>3 DEF RmWatchesFrom, Next, Remove
<1>4. QED
  BY <1>2, <1>3

LEMMA RmNothing == ASSUME NEW marks, RmWatchesFrom(marks, {}) PROVE UNCHANGED wtVars
  BY DEF RmWatchesFrom, NodesAt

\* Steps outside walk_tree that start no walk.
LEMMA IdleStep ==
  ASSUME FsInv, stack = <<>>, [Next]_wtVars, UNCHANGED stack
  PROVE  StepOk
  BY EmptyIsGood DEF StepOk, StackOk, WalksForATask

\* Steps that touch no node and start a walk.
LEMMA FirstFrameStep ==
  ASSUME FsInv, UNCHANGED wtVars, NEW path, NEW parent \in Live \cup {Nil},
         stack' = <<EnterFrame(path, parent)>>,
         task' \in {"register", "event", "restore"}
  PROVE  StepOk
<1>1. Live' = Live /\ [Next]_wtVars
  BY DEF wtVars, Live
<1>2. StackOk'
  BY <1>1, FirstFrameIsGood DEF StackOk
<1>3. QED
  BY <1>1, <1>2 DEF StepOk, WalksForATask

\* The frame on top changes, and keeps its parent_node argument.
LEMMA SetTopStep ==
  ASSUME FsInv, stack # <<>>, NEW f, FrameOk(f, Live'), SetTop(f),
         Live \subseteq Live', [Next]_wtVars, UNCHANGED loopVars
  PROVE  StepOk
<1>1. StackOk'
  BY SetIsGood DEF FsInv, StackOk, SetTop
<1>2. WalksForATask'
  BY DEF FsInv, WalksForATask, loopVars
<1>3. QED
  BY <1>1, <1>2 DEF StepOk

LEMMA TopOk ==
  ASSUME FsInv, stack # <<>>
  PROVE  FrameOk(Top, Live)
  BY StackLength DEF FsInv, StackOk, GoodStack, Top

\* A frame returns: either the walk goes on with the same nodes, or it is over.
LEMMA ReturnStep ==
  ASSUME FsInv, stack # <<>>, NEW v, NEW marks, ReturnFrom(v, marks)
  PROVE  StepOk
<1>1. CASE Fatal(v)
  <2>1. [Next]_wtVars
    BY RmWatchesStep DEF ReturnFrom, ReturnTo, FsInv
  <2>2. stack' = <<>>
    BY <1>1 DEF ReturnFrom, ReturnTo
  <2>3. QED
    BY <2>1, <2>2, EmptyIsGood DEF StepOk, StackOk, WalksForATask
<1>2. CASE ~Fatal(v)
  <2>1. UNCHANGED wtVars /\ stack' = Callers
    BY <1>2, RmNothing DEF ReturnFrom, ReturnTo
  <2>2. [Next]_wtVars /\ Live' = Live
    BY <2>1 DEF wtVars, Live
  <2>3. StackOk'
    BY <2>1, <2>2, PopIsGood DEF FsInv, StackOk, Callers
  <2>4. WalksForATask'
    BY DEF ReturnFrom, ReturnTo, FsInv, WalksForATask, loopVars
  <2>5. QED
    BY <2>2, <2>3, <2>4 DEF StepOk
<1>3. QED
  BY <1>1, <1>2

----------------------------------------------------------------------------
\* walk_tree, statement by statement.
LEMMA OpenDirStep == FsInv /\ OpenDir => StepOk
<1> SUFFICES ASSUME FsInv, OpenDir PROVE StepOk
  OBVIOUS
<1>1. stack # <<>>
  BY DEF OpenDir, WalkStep
<1>2. ASSUME NEW v, Return(v) PROVE StepOk
  BY <1>1, <1>2, ReturnStep DEF Return
<1>3. ASSUME NEW d, SetTop([Top EXCEPT !.at = "add", !.dir = d]), SameNodes, UNCHANGED loopVars
      PROVE  StepOk
  <2> DEFINE f == [Top EXCEPT !.at = "add", !.dir = d]
  <2>1. [Next]_wtVars /\ Live' = Live
    BY <1>3 DEF SameNodes, wtVars, Live
  <2>2. FrameOk(f, Live)
    BY <1>1, TopOk, OpenedOk
  <2> HIDE DEF f
  <2>3. SetTop(f)
    BY <1>3 DEF f
  <2>4. QED
    BY <1>1, <1>3, <2>1, <2>2, <2>3, SetTopStep
<1>4. QED
  BY <1>2, <1>3 DEF OpenDir

LEMMA ReadDirStep == FsInv /\ ReadDir => StepOk
<1> SUFFICES ASSUME FsInv, ReadDir PROVE StepOk
  OBVIOUS
<1> DEFINE f == [Top EXCEPT !.at = "scan", !.names = EntriesOf(Top.dir)]
<1>1. stack # <<>> /\ Top.at = "list"
  BY DEF ReadDir, WalkStep
<1>2. FrameOk(f, Live)
  BY <1>1, TopOk, ListedOk
<1>3. SetTop(f) /\ [Next]_wtVars /\ Live' = Live /\ UNCHANGED loopVars
  BY DEF ReadDir, SameNodes, wtVars, Live
<1> HIDE DEF f
<1>4. QED
  BY <1>1, <1>2, <1>3, SetTopStep

\* The new frame's parent_node is what table_get found for this frame's id.
LEMMA WalkEntryStep == FsInv /\ WalkEntry => StepOk
<1> SUFFICES ASSUME FsInv, WalkEntry PROVE StepOk
  OBVIOUS
<1>1. /\ stack # <<>> /\ Top.at = "scan"
      /\ [Next]_wtVars /\ Live' = Live /\ UNCHANGED loopVars
  BY DEF WalkEntry, WalkStep, SameNodes, wtVars, Live
<1>2. PICK n \in Top.names :
        stack' = Append([stack EXCEPT ![Len(stack)].names = @ \ {n}],
                        EnterFrame(Child(Top.path, n), NodeAt(Top.id)))
  BY DEF WalkEntry
<1> DEFINE f == [Top EXCEPT !.names = @ \ {n}]
           rest == [stack EXCEPT ![Len(stack)] = f]
           new == EnterFrame(Child(Top.path, n), NodeAt(Top.id))
<1>3. FrameOk(f, Live)
  BY <1>1, TopOk, NamedOk
<1>4. FrameOk(new, Live)
  <2>1. Top.id \in Wds
    BY <1>1, TopOk DEF FrameOk
  <2>2. NodeAt(Top.id) \in Live \cup {Nil}
    BY <2>1, SlotInRange DEF NodeAt, FsInv, IInv, Forest, TableMatchesNodes
  <2>3. QED
    BY <2>2, EnterFrameOk
<1>5. stack' = Append(rest, new)
  BY <1>2 DEF Top
<1> HIDE DEF f, new
<1>6. GoodStack(rest, Live)
  BY <1>1, <1>3, SetIsGood DEF FsInv, StackOk
<1> HIDE DEF rest
<1>7. StackOk'
  BY <1>1, <1>4, <1>5, <1>6, PushIsGood DEF StackOk
<1>8. WalksForATask'
  BY <1>1 DEF FsInv, WalksForATask, loopVars
<1>9. QED
  BY <1>1, <1>7, <1>8 DEF StepOk

LEMMA WalkEndStep == FsInv /\ WalkEnd => StepOk
  BY ReturnStep DEF WalkEnd, WalkStep, Return

\* The paths of the node and of the frame are compared: the walk returns.
LEMMA ComparePathsStep == FsInv /\ ComparePaths => StepOk
  BY ReturnStep DEF ComparePaths, WalkStep, Return

\* A new node is an Add of WatchTree: the bounds of add_watch give its descriptor and
\* path, the frame its parent.
LEMMA NewNodeStep ==
  ASSUME FsInv, stack # <<>>, NEW wd \in Wds, Top.path \in Paths, UNCHANGED loopVars,
         AddNode(wd, Top.path, Top.parent), NEW a,
         SetTop([Top EXCEPT !.id = wd, !.names = {}, !.at = a])
  PROVE  StepOk
<1> DEFINE f == [Top EXCEPT !.id = wd, !.names = {}, !.at = a]
<1>1. FrameOk(f, Live)
  BY TopOk, WatchedOk
<1>2. SetTop(f)
  OBVIOUS
<1> HIDE DEF f
<1>3. Live \subseteq Live'
  BY DEF AddNode, Live
<1>4. FrameOk(f, Live')
  BY <1>1, <1>3 DEF FrameOk
<1>5. [Next]_wtVars
  <2>1. Top.parent \in Live \cup {Nil}
    BY TopOk DEF FrameOk
  <2>2. QED
    BY <2>1 DEF Next, Add
<1>6. QED
  BY <1>2, <1>3, <1>4, <1>5, SetTopStep

\* The node of this descriptor is there already, under the same path.
LEMMA SameNodeStep ==
  ASSUME FsInv, stack # <<>>, NEW wd \in Wds, SameNodes, UNCHANGED loopVars, NEW a,
         SetTop([Top EXCEPT !.id = wd, !.names = {}, !.at = a])
  PROVE  StepOk
<1> DEFINE f == [Top EXCEPT !.id = wd, !.names = {}, !.at = a]
<1>1. FrameOk(f, Live)
  BY TopOk, WatchedOk
<1>2. SetTop(f)
  OBVIOUS
<1> HIDE DEF f
<1>3. Live' = Live /\ [Next]_wtVars
  BY DEF SameNodes, wtVars, Live
<1>4. QED
  BY <1>1, <1>2, <1>3, SetTopStep

\* The node of this descriptor is there already, under another path.
LEMMA OtherPathStep ==
  ASSUME FsInv, stack # <<>>, NEW wd, SameNodes, UNCHANGED loopVars,
         SetTop([Top EXCEPT !.at = "compare", !.met = wd])
  PROVE  StepOk
<1> DEFINE f == [Top EXCEPT !.at = "compare", !.met = wd]
<1>1. FrameOk(f, Live)
  BY TopOk, ComparedOk
<1>2. SetTop(f)
  OBVIOUS
<1> HIDE DEF f
<1>3. Live' = Live /\ [Next]_wtVars
  BY DEF SameNodes, wtVars, Live
<1>4. QED
  BY <1>1, <1>2, <1>3, SetTopStep

LEMMA AddWatchStep == FsInv /\ AddWatch => StepOk
<1> SUFFICES ASSUME FsInv, AddWatch PROVE StepOk
  OBVIOUS
<1>1. stack # <<>>
  BY DEF AddWatch, WalkStep
<1>2. ASSUME NEW v, NEW marks, ReturnFrom(v, marks) PROVE StepOk
  BY <1>1, <1>2, ReturnStep
<1>3. CASE AddWatchErrno
  BY <1>2, <1>3 DEF AddWatchErrno, AddWatchFails, Return
<1>4. ASSUME NEW wd \in Wds, Top.path \in Paths, AddWatchTo(wd) PROVE StepOk
  <2> DEFINE a == IF walk.recursive THEN "list" ELSE "scan"
             f == [Top EXCEPT !.id = wd, !.names = {}, !.at = a]
  <2>1. \/ AddNode(wd, Top.path, Top.parent) /\ SetTop(f) /\ UNCHANGED loopVars
        \/ SameNodes /\ SetTop(f) /\ UNCHANGED loopVars
        \/ SameNodes /\ SetTop([Top EXCEPT !.at = "compare", !.met = wd]) /\ UNCHANGED loopVars
        \/ \E v, marks : ReturnFrom(v, marks)
    BY <1>4, ZenonT(60) DEF AddWatchTo
  <2> HIDE DEF a
  <2>2. QED
    BY <1>1, <1>2, <1>4, <2>1, NewNodeStep, SameNodeStep, OtherPathStep
<1>5. QED
  BY <1>3, <1>4 DEF AddWatch

----------------------------------------------------------------------------
\* The rest of the notifier.
LEMMA RegisterRootStep == FsInv /\ RegisterRoot => StepOk
<1> SUFFICES ASSUME FsInv, RegisterRoot PROVE StepOk
  OBVIOUS
<1>1. stack = <<>> /\ UNCHANGED wtVars /\ task = "register"
  BY DEF RegisterRoot, SameNodes
<1>2. CASE UNCHANGED stack
  BY <1>1, <1>2, IdleStep
<1>3. CASE \E path : stack' = <<EnterFrame(path, Nil)>> /\ UNCHANGED task
  BY <1>1, <1>3, FirstFrameStep
<1>4. QED
  BY <1>2, <1>3 DEF RegisterRoot, StartWalk

LEMMA RestoreRootStep == FsInv /\ RestoreRoot => StepOk
<1> SUFFICES ASSUME FsInv, RestoreRoot PROVE StepOk
  OBVIOUS
<1>1. stack = <<>> /\ UNCHANGED wtVars
  BY DEF RestoreRoot, SameNodes
<1>2. CASE UNCHANGED stack
  BY <1>1, <1>2, IdleStep
<1>3. CASE \E path : stack' = <<EnterFrame(path, Nil)>> /\ task' = "restore"
  BY <1>1, <1>3, FirstFrameStep
<1>4. QED
  BY <1>2, <1>3 DEF RestoreRoot, StartWalk

\* process_inotify_event runs when no walk is under way.
LEMMA DispatchStep == FsInv /\ Dispatch => StepOk
<1> SUFFICES ASSUME FsInv, Dispatch PROVE StepOk
  OBVIOUS
<1> DEFINE e == Head(batch)
           n == IF e.kind = "overflow" THEN Nil ELSE NodeAt(e.wd)
           p == IF e.name = NoName THEN node[n].path ELSE Child(node[n].path, e.name)
<1>1. stack = <<>>
  BY DEF Dispatch, FsInv, WalksForATask
<1>2. CASE UNCHANGED <<wtVars, stack>>
  BY <1>1, <1>2, IdleStep
<1>3. CASE UNCHANGED stack /\ \E ids : RmWatches(ids)
  BY <1>1, <1>3, RmWatchesStep, IdleStep DEF FsInv, RmWatches
<1>4. CASE n # Nil /\ stack' = <<EnterFrame(p, n)>> /\ task' = "event" /\ UNCHANGED wtVars
  <2>1. e \in Events
    BY HeadTailProperties DEF Dispatch, FsInv, EventsOk
  <2>2. Slot(e.wd) \in Slots
    BY <2>1, CapacityAssumption, SMT DEF Events, Slot, Slots
  <2>3. n \in Live
    BY <1>4, <2>2 DEF NodeAt, FsInv, IInv, Forest, TableMatchesNodes
  <2>4. QED
    BY <1>1, <1>4, <2>3, FirstFrameStep
<1>5. ProcessEvent(e)
  BY DEF Dispatch
<1>6. QED
  BY <1>2, <1>3, <1>4, <1>5 DEF ProcessEvent, DropKid, CheckRootRemoval

LEMMA OtherSteps ==
  FsInv /\ (StatFails \/ RegisterDone \/ ReadEvents \/ DispatchDone \/ Timeout \/ CheckRoot
            \/ Shutdown \/ UpdateRoots \/ Quit \/ Others) => StepOk
<1> SUFFICES ASSUME FsInv, StatFails \/ RegisterDone \/ ReadEvents \/ DispatchDone
                           \/ Timeout \/ CheckRoot \/ Shutdown \/ UpdateRoots \/ Quit
                           \/ Others
             PROVE  StepOk
  OBVIOUS
<1>1. CASE Others
  <2>1. UNCHANGED <<wtVars, stack, task>>
    BY <1>1 DEF Others, loopVars
  <2>2. [Next]_wtVars /\ Live' = Live
    BY <2>1 DEF wtVars, Live
  <2>3. QED
    BY <2>1, <2>2 DEF StepOk, FsInv, StackOk, WalksForATask
<1>2. CASE UpdateRoots
  <2>1. stack = <<>> /\ UNCHANGED stack
    BY <1>2 DEF UpdateRoots, FsInv, WalksForATask
  <2>2. [Next]_wtVars
    BY <1>2, RmWatchesStep DEF UpdateRoots, FsInv, RmWatches
  <2>3. QED
    BY <2>1, <2>2, IdleStep
<1>3. CASE Shutdown
  <2>1. stack = <<>> /\ UNCHANGED stack
    BY <1>3 DEF Shutdown, ShutdownFreeing, FsInv, WalksForATask
  <2>2. NodesAt(RootIds(roots)) \subseteq Live
    BY SlotInRange DEF NodesAt, NodeAt, FsInv, IInv, Forest, TableMatchesNodes
  <2>3. [Next]_wtVars
    BY <1>3, <2>2 DEF Shutdown, ShutdownFreeing, Next, Remove
  <2>4. QED
    BY <2>1, <2>3, IdleStep
<1>4. CASE StatFails \/ RegisterDone \/ ReadEvents \/ DispatchDone \/ Timeout \/ CheckRoot \/ Quit
  <2>1. UNCHANGED <<wtVars, stack>>
    BY <1>4 DEF StatFails, RegisterDone, ReadEvents, DispatchDone, Timeout, CheckRoot, Quit,
                SameNodes
  <2>2. stack = <<>>
    BY <1>4 DEF StatFails, RegisterDone, ReadEvents, DispatchDone, Timeout, CheckRoot, Quit,
                FsInv, WalksForATask
  <2>3. QED
    BY <2>1, <2>2, IdleStep
<1>5. QED
  BY <1>1, <1>2, <1>3, <1>4

LEMMA EveryStep == FsInv /\ [FsNext]_vars => StepOk
<1> SUFFICES ASSUME FsInv, [FsNext]_vars PROVE StepOk
  OBVIOUS
<1>1. CASE Watcher
  BY <1>1, OpenDirStep, AddWatchStep, ComparePathsStep, ReadDirStep, WalkEntryStep, WalkEndStep,
     RegisterRootStep, RestoreRootStep, DispatchStep, OtherSteps DEF Watcher, WalkTree
<1>2. CASE UpdateRoots \/ Quit \/ Others
  BY <1>2, OtherSteps
<1>3. CASE UNCHANGED vars
  <2>1. UNCHANGED <<wtVars, stack, task>> /\ Live' = Live
    BY <1>3 DEF vars, wtVars, loopVars, Live
  <2>2. QED
    BY <2>1 DEF StepOk, FsInv, StackOk, WalksForATask
<1>4. QED
  BY <1>1, <1>2, <1>3 DEF FsNext

----------------------------------------------------------------------------
\* The kernel's events.
LEMMA EventOk ==
  ASSUME EventsOk, NEW ino, NEW name \in Names \cup {NoName},
         NEW kind \in {"create", "delete", "moved_from", "moved_to", "delete_self", "move_self"}
  PROVE  Event(ino, kind, name) \in Seq(Events)
<1>1. CASE ino \in DOMAIN kwd
  <2>1. kwd[ino] \in Int
    <3>1. kwd[ino] \in Wds
      BY <1>1, Zenon DEF EventsOk
    <3>2. \A w \in Wds : w \in Int
      BY WdsAssumption
    <3>3. QED
      BY <3>1, <3>2, Zenon
  <2>2. [wd |-> kwd[ino], kind |-> kind, name |-> name] \in Events
    BY <2>1 DEF Events
  <2>3. QED
    BY <1>1, <2>2 DEF Event
<1>2. CASE ino \notin DOMAIN kwd
  BY <1>2, EmptySeq DEF Event
<1>3. QED
  BY <1>1, <1>2

LEMMA EntryEventOk ==
  ASSUME EventsOk, NEW p \in Paths, NEW kind \in {"create", "delete", "moved_from", "moved_to"}
  PROVE  EntryEvent(p, kind) \in Seq(Events)
<1>1. NameOf(p) \in Names
  BY DEF Names
<1>2. QED
  BY <1>1, EventOk, EmptySeq DEF EntryEvent

\* What is queued is of the events there, of the new ones, or an overflow.
LEMMA EnqueueIn ==
  ASSUME NEW S, Overflow \in S, queue \in Seq(S), NEW evs \in Seq(S), Enqueue(evs)
  PROVE  queue' \in Seq(S)
<1> DEFINE room == QueueMax - Len(queue)
<1>1. room \in Int
  BY QueueMaxAssumption, LenProperties
<1>2. CASE Len(evs) <= room
  BY <1>1, <1>2, ConcatProperties DEF Enqueue
<1>3. CASE ~(Len(evs) <= room) /\ room >= 0
  <2>1. \A i \in 1..room : evs[i] \in S
    BY <1>1, <1>3, LenProperties, ElementOfSeq
  <2>2. SubSeq(evs, 1, room) \in Seq(S)
    BY <1>1, <2>1, SubSeqProperties
  <2>3. queue \o SubSeq(evs, 1, room) \in Seq(S)
    BY <2>2, ConcatProperties
  <2> QED BY <1>1, <1>3, <2>3, AppendProperties DEF Enqueue
<1>4. CASE ~(Len(evs) <= room) /\ room < 0
  BY <1>1, <1>4 DEF Enqueue
<1> QED BY <1>1, <1>2, <1>3, <1>4

LEMMA EnqueueOk ==
  ASSUME EventsOk, NEW evs \in Seq(Events), Enqueue(evs)
  PROVE  queue' \in Seq(Events)
<1>1. queue \in Seq(Events) /\ Overflow \in Events
  BY DEF EventsOk, Overflow, Events
<1> QED BY <1>1, EnqueueIn

LEMMA MarkedFinite ==
  ASSUME EventsOk, NEW gone \in SUBSET DOMAIN fs,
         NEW marked, marked \subseteq {fs[p] : p \in gone}
  PROVE  Cardinality(marked) \in Nat
<1>1. IsFiniteSet(gone)
  BY PathsAssumption, FS_Subset DEF EventsOk
<1>2. IsFiniteSet({fs[p] : p \in gone})
  <2> DEFINE T == {fs[p] : p \in gone}
             f == [p \in gone |-> fs[p]]
  <2>1. f \in Surjection(gone, T)
    BY DEF Surjection
  <2> QED BY <1>1, <2>1, FS_Surjection
<1> QED BY <1>2, FS_Subset, FS_CardinalityType

LEMMA UnmountOk ==
  ASSUME EventsOk, NEW d \in Disks, NEW busy, Unmount(d, busy)
  PROVE  DOMAIN fs' \subseteq Paths /\ (\A i \in DOMAIN kwd' : kwd'[i] \in Wds)
         /\ queue' \in Seq(Events)
<1> DEFINE gone == {p \in DOMAIN fs : IsParentPath(d, p)}
           marked == {i \in DOMAIN kwd : \E p \in gone : fs[p] = i}
           kinds == {Event(i, "unmount", NoName)[1] : i \in marked}
<1>1. Cardinality(marked) \in Nat
  <2>1. gone \in SUBSET DOMAIN fs /\ marked \subseteq {fs[p] : p \in gone}
    OBVIOUS
  <2> HIDE DEF gone, marked
  <2> QED BY <2>1, MarkedFinite
<1>2. kinds \subseteq Events
  <2>1. ASSUME NEW i \in marked PROVE Event(i, "unmount", NoName)[1] \in Events
    <3> DEFINE e == [wd |-> kwd[i], kind |-> "unmount", name |-> NoName]
    <3>1. i \in DOMAIN kwd
      OBVIOUS
    <3>2. kwd[i] \in Wds
      BY <3>1, Zenon DEF EventsOk
    <3>3. \A w \in Wds : w \in Int
      BY WdsAssumption
    <3>4. kwd[i] \in Int
      BY <3>2, <3>3, Zenon
    <3>5. e \in Events
      BY <3>4 DEF Events
    <3>6. Event(i, "unmount", NoName) = <<e>>
      BY <3>1 DEF Event
    <3>7. QED
      BY <3>5, <3>6
  <2>2. QED
    BY <2>1
<1>3. PICK evs \in [1..Cardinality(marked) -> kinds] : Enqueue(evs)
  BY DEF Unmount
<1> HIDE DEF kinds, marked
<1>4. evs \in Seq(Events)
  BY <1>1, <1>2, <1>3, SeqDef
<1>5. queue' \in Seq(Events)
  BY <1>3, <1>4, EnqueueOk
<1>6. DOMAIN fs' \subseteq Paths
  BY DisksAssumption, InitDirsAssumption DEF Unmount, EventsOk
<1>7. \A i \in DOMAIN kwd' : kwd'[i] \in Wds
  BY DEF Unmount, EventsOk
<1>8. QED
  BY <1>5, <1>6, <1>7

\* mkdir, rmdir, rename and umount keep the tree inside Paths, and queue proper events.
LEMMA TreeEventsOk ==
  ASSUME EventsOk, NEW busy, FileTreeNext(busy)
  PROVE  DOMAIN fs' \subseteq Paths /\ (\A i \in DOMAIN kwd' : kwd'[i] \in Wds)
         /\ queue' \in Seq(Events)
<1>1. ASSUME NEW p \in Paths, MkDir(p)
      PROVE  DOMAIN fs' \subseteq Paths /\ UNCHANGED kwd /\ queue' \in Seq(Events)
  BY <1>1, EntryEventOk, EnqueueOk DEF MkDir, EventsOk
<1>2. ASSUME NEW p \in Paths, RmDir(p)
      PROVE  DOMAIN fs' \subseteq Paths /\ (\A i \in DOMAIN kwd' : kwd'[i] \in Wds)
             /\ queue' \in Seq(Events)
  <2> DEFINE entry == EntryEvent(p, "delete")
             self == Event(fs[p], "delete_self", NoName)
  <2>1. entry \in Seq(Events) /\ self \in Seq(Events)
    BY EntryEventOk, EventOk
  <2> HIDE DEF entry, self
  <2>2. entry \o self \in Seq(Events) /\ self \o entry \in Seq(Events)
    BY <2>1, ConcatProperties
  <2>3. Enqueue(entry \o self) \/ Enqueue(self \o entry)
    BY <1>2 DEF RmDir, entry, self
  <2>4. QED
    BY <1>2, <2>2, <2>3, EnqueueOk DEF RmDir, EventsOk
<1>3. ASSUME NEW p \in Paths, NEW q \in Paths, Move(p, q)
      PROVE  DOMAIN fs' \subseteq Paths /\ (\A i \in DOMAIN kwd' : kwd'[i] \in Wds)
             /\ queue' \in Seq(Events)
  <2> DEFINE e1 == EntryEvent(p, "moved_from")
             e2 == EntryEvent(q, "moved_to")
             e3 == Event(fs[p], "move_self", NoName)
             e4 == IF q \in DOMAIN fs THEN Event(fs[q], "delete_self", NoName) ELSE <<>>
  <2>1. e1 \in Seq(Events) /\ e2 \in Seq(Events) /\ e3 \in Seq(Events) /\ e4 \in Seq(Events)
    BY EntryEventOk, EventOk, EmptySeq
  <2>2. Enqueue(e1 \o e2 \o e3 \o e4)
    BY <1>3 DEF Move
  <2> HIDE DEF e1, e2, e3, e4
  <2>3. e1 \o e2 \o e3 \o e4 \in Seq(Events)
    BY <2>1, ConcatProperties
  <2>4. DOMAIN fs' \subseteq Paths
    BY <1>3 DEF Move, EventsOk
  <2>5. \A i \in DOMAIN kwd' : kwd'[i] \in Wds
    BY <1>3 DEF Move, EventsOk
  <2>6. QED
    BY <2>2, <2>3, <2>4, <2>5, EnqueueOk
<1>4. UNCHANGED kwd => \A i \in DOMAIN kwd' : kwd'[i] \in Wds
  BY DEF EventsOk
<1>5. QED
  BY <1>1, <1>2, <1>3, <1>4, UnmountOk DEF FileTreeNext

\* The notifier's own calls hand out descriptors of Wds, or drop some.
LEMMA RmWatchesMarks ==
  ASSUME NEW marks, \A i \in DOMAIN marks : marks[i] \in Wds, NEW ids, RmWatchesFrom(marks, ids)
  PROVE  \A i \in DOMAIN kwd' : kwd'[i] \in Wds
  BY DEF RmWatchesFrom, InotifyRmWatches

LEMMA ReturnMarks ==
  ASSUME EventsOk, NEW v, Return(v)
  PROVE  \A i \in DOMAIN kwd' : kwd'[i] \in Wds
  BY RmWatchesMarks DEF Return, ReturnFrom, ReturnTo, EventsOk

LEMMA AddWatchMarks ==
  ASSUME EventsOk, AddWatch
  PROVE  \A i \in DOMAIN kwd' : kwd'[i] \in Wds
<1>1. CASE \E v : Return(v)
  BY <1>1, ReturnMarks
<1>2. CASE UNCHANGED kwd
  BY <1>2 DEF EventsOk
<1>3. CASE AddWatchResult(Top.path) \in Wds /\ InotifyAddWatch(Top.path)
  BY <1>3 DEF InotifyAddWatch, AddWatchResult, EventsOk
<1>4. CASE AddWatchErrno
  BY <1>1, <1>4 DEF AddWatchErrno, AddWatchFails
<1>5. ASSUME NEW wd \in Wds, wd = AddWatchResult(Top.path), AddWatchTo(wd)
      PROVE  \A i \in DOMAIN kwd' : kwd'[i] \in Wds
  <2>1. \/ UNCHANGED kwd \/ InotifyAddWatch(Top.path)
        \/ ReturnFrom(ERR_ABORT, MarkedAs(wd))
    BY <1>5, ZenonT(60) DEF AddWatchTo, SameNodes
  <2>2. \A i \in DOMAIN MarkedAs(wd) : MarkedAs(wd)[i] \in Wds
    BY DEF MarkedAs, EventsOk
  <2>3. CASE ReturnFrom(ERR_ABORT, MarkedAs(wd))
    BY <2>2, <2>3, RmWatchesMarks DEF ReturnFrom, ReturnTo
  <2>4. QED
    BY <1>2, <1>3, <1>5, <2>1, <2>3
<1>6. QED
  BY <1>4, <1>5 DEF AddWatch

LEMMA EventsStep == FsInv /\ [FsNext]_vars => EventsOk'
<1> SUFFICES ASSUME FsInv, [FsNext]_vars PROVE EventsOk'
  OBVIOUS
<1>1. EventsOk
  BY DEF FsInv
<1> DEFINE MarksOk == \A i \in DOMAIN kwd' : kwd'[i] \in Wds
<1>2. UNCHANGED kwd => MarksOk
  BY <1>1 DEF EventsOk
<1>3. ASSUME NEW ids, RmWatches(ids) PROVE MarksOk
  BY <1>1, <1>3, RmWatchesMarks DEF EventsOk, RmWatches
<1>4. CASE WalkTree
  <2>1. UNCHANGED <<fs, queue, batch>>
    BY <1>4 DEF WalkTree, OpenDir, AddWatch, ComparePaths, ReadDir, WalkEntry, WalkEnd, SameTree
  <2>2. MarksOk
    <3>1. CASE OpenDir
      BY <1>1, <1>2, <3>1, ReturnMarks DEF OpenDir, SameNodes
    <3>2. CASE AddWatch
      BY <1>1, <3>2, AddWatchMarks
    <3>3. CASE ReadDir \/ WalkEntry
      BY <1>2, <3>3 DEF ReadDir, WalkEntry, SameNodes
    <3>4. CASE WalkEnd \/ ComparePaths
      BY <1>1, <3>4, ReturnMarks DEF WalkEnd, ComparePaths
    <3>5. QED
      BY <1>4, <3>1, <3>2, <3>3, <3>4 DEF WalkTree
  <2>3. QED
    BY <1>1, <2>1, <2>2 DEF EventsOk
<1>5. CASE RegisterRoot \/ StatFails \/ RegisterDone \/ DispatchDone \/ Timeout \/ CheckRoot
           \/ RestoreRoot \/ Quit
  <2>1. UNCHANGED <<fs, queue, batch, kwd>>
    BY <1>5 DEF RegisterRoot, StatFails, RegisterDone, DispatchDone, Timeout, CheckRoot,
                RestoreRoot, Quit, SameTree, SameNodes
  <2>2. QED
    BY <1>1, <2>1 DEF EventsOk
<1>6. CASE ReadEvents
  <2>1. UNCHANGED <<fs, kwd>> /\ batch' = queue /\ queue' = <<>>
    BY <1>6 DEF ReadEvents, SameNodes
  <2>2. QED
    BY <1>1, <2>1, EmptySeq DEF EventsOk
<1>7. CASE Dispatch
  <2>1. UNCHANGED <<fs, queue>> /\ batch' = Tail(batch) /\ batch # <<>>
    BY <1>7 DEF Dispatch, SameTree
  <2>2. batch' \in Seq(Events)
    BY <1>1, <2>1, HeadTailProperties DEF EventsOk
  <2>3. UNCHANGED kwd \/ \E ids : RmWatches(ids)
    BY <1>7 DEF Dispatch, ProcessEvent, DropKid, CheckRootRemoval
  <2>4. MarksOk
    BY <1>2, <1>3, <2>3
  <2>5. QED
    BY <1>1, <2>1, <2>2, <2>4 DEF EventsOk
<1>8. CASE Shutdown
  <2>1. DOMAIN kwd' = {} /\ queue' = <<>> /\ UNCHANGED <<fs, batch>>
    BY <1>8 DEF Shutdown, ShutdownFreeing
  <2>2. QED
    BY <1>1, <2>1, EmptySeq DEF EventsOk
<1>9. CASE UpdateRoots
  <2>1. UNCHANGED <<fs, queue, batch>> /\ \E ids : RmWatches(ids)
    BY <1>9 DEF UpdateRoots, SameTree
  <2>2. QED
    BY <1>1, <1>3, <2>1 DEF EventsOk
<1>10. CASE Others
  <2>1. FileTreeNext({stack[i].dir : i \in DOMAIN stack}) /\ UNCHANGED batch
    BY <1>10 DEF Others
  <2>2. QED
    BY <1>1, <2>1, TreeEventsOk DEF EventsOk
<1>11. CASE UNCHANGED vars
  <2>1. UNCHANGED <<fs, queue, batch, kwd>>
    BY <1>11 DEF vars, treeVars
  <2>2. QED
    BY <1>1, <2>1 DEF EventsOk
<1>12. QED
  BY <1>4, <1>5, <1>6, <1>7, <1>8, <1>9, <1>10, <1>11 DEF FsNext, Watcher

----------------------------------------------------------------------------
LEMMA FsInitInv == FsInit => FsInv
<1> SUFFICES ASSUME FsInit PROVE FsInv
  OBVIOUS
<1>1. IInv
  BY InitIInv DEF FsInit
<1>2. StackOk /\ WalksForATask
  BY EmptyIsGood DEF FsInit, StackOk, WalksForATask
<1>3. EventsOk
  BY InitDirsAssumption, EmptySeq DEF FsInit, FileTreeInit, EventsOk
<1>4. QED
  BY <1>1, <1>2, <1>3 DEF FsInv

LEMMA FsNextInv == FsInv /\ [FsNext]_vars => FsInv' /\ [Next]_wtVars
<1> SUFFICES ASSUME FsInv, [FsNext]_vars PROVE FsInv' /\ [Next]_wtVars
  OBVIOUS
<1>1. StepOk /\ EventsOk'
  BY EveryStep, EventsStep
<1>2. IInv'
  BY <1>1, NextIInv DEF StepOk, FsInv
<1>3. QED
  BY <1>1, <1>2 DEF StepOk, FsInv

\* inotify.c and main.c change the watch nodes only in ways that rm_watch, add_watch
\* and the table are written for: every behaviour of the notifier, whatever the other
\* processes do and whichever system call fails, is one of WatchTree.
THEOREM NotifierImplementsWatchTree == FsSpec => ImplementsWatchTree
<1>1. FsInit => Init
  BY DEF FsInit
<1>2. QED
  BY FsInitInv, FsNextInv, <1>1, PTL DEF FsSpec, Spec, ImplementsWatchTree

\* Hence no reachable state of the notifier has a dangling parent or kid pointer, a
\* cycle, or a table slot that leads to a freed node.
THEOREM NotifierForest == FsSpec => []Forest
  BY NotifierImplementsWatchTree, WatchForest, PTL DEF ImplementsWatchTree
----------------------------------------------------------------------------
\* A registered root is a record with the result of its last walk.
IsRoot(r) == r \in [path : {r.path}, flat : {r.flat}, id : Wds \cup -4..-1]
GoodRoots(rs) == rs \in Seq({rs[i] : i \in DOMAIN rs}) /\ \A i \in DOMAIN rs : IsRoot(rs[i])
RootsOk == GoodRoots(roots)

\* A frame has the id of a live node once add_watch has returned, and none before; and the
\* frames above the first have found the node of the frame below.
WalkIds ==
  \A i \in DOMAIN stack :
    /\ stack[i].at \in {"enter", "add", "compare", "list", "scan"}
    /\ IF stack[i].at \in {"list", "scan"} THEN stack[i].id \in Live ELSE stack[i].id = Nil
    /\ i > 1 => stack[i].parent # Nil
EventWalk == task = "event" /\ stack # <<>> => stack[1].parent # Nil
Restoring ==
  task = "restat" \/ (task = "restore" /\ stack # <<>>) => idx \in DOMAIN roots /\ roots[idx].id < 0

\* A node without a parent is the node of a root, or of the walk that will make it one: what
\* unregister_roots, which knows the root ids only, can reach.
RootSlotIn(rs, w) == \E i \in DOMAIN rs : rs[i].id \in Wds /\ Slot(rs[i].id) = Slot(w)
WalkRootIn(st, w) == st # <<>> /\ st[1].parent = Nil /\ st[1].id = w
Anchored == \A w \in Live : node[w].parent = Nil => RootSlotIn(roots, w) \/ WalkRootIn(stack, w)

LeakInv == RootsOk /\ WalkIds /\ EventWalk /\ Restoring /\ Anchored /\ ExitFreesAll

\* Lists of roots.
LEMMA AllRootsGood ==
  ASSUME NEW S, NEW rs \in Seq(S), \A i \in 1..Len(rs) : IsRoot(rs[i])
  PROVE  GoodRoots(rs)
<1>1. Len(rs) \in Nat /\ rs \in [1..Len(rs) -> S] /\ DOMAIN rs = 1..Len(rs)
  BY LenProperties
<1> DEFINE F == {rs[i] : i \in DOMAIN rs}
<1>2. rs \in [1..Len(rs) -> F]
  BY <1>1
<1>3. Seq(F) = UNION {[1..n -> F] : n \in Nat}
  BY SeqDef
<1>4. rs \in Seq(F)
  BY <1>1, <1>2, <1>3
<1> QED BY <1>1, <1>4 DEF GoodRoots

LEMMA NoRootsGood == GoodRoots(<<>>)
<1>1. PICK rs : rs = <<>>
  OBVIOUS
<1>2. rs \in Seq({}) /\ Len(rs) = 0
  BY <1>1, EmptySeq
<1>3. \A i \in 1..Len(rs) : FALSE
  BY <1>2
<1>4. GoodRoots(rs)
  BY <1>2, <1>3, AllRootsGood
<1> QED BY <1>1, <1>4

\* A further root.
LEMMA AppendRoot ==
  ASSUME NEW rs, GoodRoots(rs), NEW r, IsRoot(r)
  PROVE  /\ GoodRoots(Append(rs, r))
         /\ \A w : RootSlotIn(rs, w) => RootSlotIn(Append(rs, r), w)
         /\ \A w : r.id = w /\ w \in Wds => RootSlotIn(Append(rs, r), w)
<1> DEFINE F == {rs[i] : i \in DOMAIN rs} \cup {r}  new == Append(rs, r)
<1>1. rs \in Seq(F) /\ \A i \in DOMAIN rs : IsRoot(rs[i])
  BY SeqMonotonic DEF GoodRoots
<1>2. Len(rs) \in Nat /\ DOMAIN rs = 1..Len(rs)
  BY <1>1, LenProperties
<1>3. /\ new \in Seq(F) /\ Len(new) = Len(rs) + 1
      /\ \A j \in 1..Len(rs) : new[j] = rs[j]
      /\ new[Len(rs) + 1] = r
  BY <1>1, AppendProperties
<1>4. DOMAIN new = 1..Len(rs) + 1
  BY <1>3, LenProperties
<1>5. \A i \in 1..Len(new) : IsRoot(new[i])
  BY <1>1, <1>2, <1>3
<1>6. GoodRoots(new)
  BY <1>3, <1>5, AllRootsGood
<1> HIDE DEF new
<1>7. \A w : RootSlotIn(rs, w) => RootSlotIn(new, w)
  BY <1>2, <1>3, <1>4 DEF RootSlotIn
<1>8. \A w : r.id = w /\ w \in Wds => RootSlotIn(new, w)
  <2>1. Len(rs) + 1 \in DOMAIN new
    BY <1>2, <1>4
  <2> QED BY <2>1, <1>3 DEF RootSlotIn
<1> QED BY <1>6, <1>7, <1>8 DEF new

\* The ids of some roots change: a list of the same length, whose paths are kept.
LEMMA IdsChange ==
  ASSUME NEW rs, GoodRoots(rs), NEW T \in SUBSET DOMAIN rs, NEW new,
         new = [i \in DOMAIN rs |-> IF i \in T THEN [rs[i] EXCEPT !.id = new[i].id] ELSE rs[i]],
         \A i \in T : new[i].id \in Wds \cup -4..-1
  PROVE  /\ GoodRoots(new) /\ DOMAIN new = DOMAIN rs
         /\ \A i \in DOMAIN rs \ T : new[i] = rs[i]
<1>1. DOMAIN new = DOMAIN rs /\ \A i \in DOMAIN rs \ T : new[i] = rs[i]
  OBVIOUS
<1>2. ASSUME NEW r, IsRoot(r), NEW v \in Wds \cup -4..-1 PROVE IsRoot([r EXCEPT !.id = v])
  <2>1. PICK s : s = [r EXCEPT !.id = v]
    OBVIOUS
  <2>2. s \in [path : {r.path}, flat : {r.flat}, id : Wds \cup -4..-1]
    BY <1>2, <2>1 DEF IsRoot
  <2>3. IsRoot(s)
    BY <2>2 DEF IsRoot
  <2> QED BY <2>1, <2>3
<1>3. ASSUME NEW i \in DOMAIN rs PROVE IsRoot(new[i])
  <2>1. CASE i \in T
    <3>1. IsRoot([rs[i] EXCEPT !.id = new[i].id])
      BY <1>2, <2>1 DEF GoodRoots
    <3>2. new[i] = [rs[i] EXCEPT !.id = new[i].id]
      BY <2>1
    <3> QED BY <3>1, <3>2
  <2>2. CASE i \notin T
    BY <1>1, <2>2 DEF GoodRoots
  <2> QED BY <2>1, <2>2
<1>4. Len(rs) \in Nat /\ DOMAIN rs = 1..Len(rs)
  BY LenProperties DEF GoodRoots
<1> DEFINE S == {new[i] : i \in DOMAIN new}
<1>5. new \in [1..Len(rs) -> S]
  BY <1>1, <1>4
<1>6. new \in Seq(S)
  BY <1>4, <1>5, SeqDef
<1>7. GoodRoots(new)
  BY <1>1, <1>3, <1>6 DEF GoodRoots
<1> QED BY <1>1, <1>7

\* The caller of the outermost walk_tree keeps its result, where it keeps any, and no root that
\* is watched loses its id.
LEMMA FinishKeeps ==
  ASSUME RootsOk, NEW v \in Wds \cup -4..-1, Finish(v),
         \/ task \in {"register", "event"}
         \/ task \in {"restore", "restat"} /\ idx \in DOMAIN roots /\ roots[idx].id < 0
  PROVE  /\ RootsOk' /\ task' \notin {"restat", "exited", "event"}
         /\ \A w : RootSlotIn(roots, w) => RootSlotIn(roots', w)
         /\ \A w \in Wds : v = w /\ task # "event" => RootSlotIn(roots', w)
<1>0. GoodRoots(roots)
  BY DEF RootsOk
<1>1. CASE task = "register"
  <2>1. task' \in {"giveup", "register"}
    BY <1>1 DEF Finish
  <2>2. CASE v >= 0 \/ v = ERR_MISSING
    <3> DEFINE r == [path |-> Head(pending).path, flat |-> Head(pending).flat, id |-> v]
    <3>1. IsRoot(r) /\ r.id = v
      BY DEF IsRoot
    <3>2. roots' = Append(roots, r)
      BY <1>1, <2>2 DEF Finish
    <3> HIDE DEF r
    <3>3. /\ GoodRoots(roots')
          /\ \A w : RootSlotIn(roots, w) => RootSlotIn(roots', w)
          /\ \A w : r.id = w /\ w \in Wds => RootSlotIn(roots', w)
      BY <1>0, <3>1, <3>2, AppendRoot
    <3> QED BY <2>1, <3>1, <3>3 DEF RootsOk
  <2>3. CASE ~(v >= 0 \/ v = ERR_MISSING)
    <3>1. roots' = roots
      BY <1>1, <2>3 DEF Finish
    <3>2. v \notin Wds
      BY <2>3, WdsAssumption
    <3> QED BY <1>0, <2>1, <3>1, <3>2 DEF RootsOk
  <2> QED BY <2>2, <2>3
<1>2. CASE task = "event"
  <2>1. roots' = roots /\ task' \in {"giveup", "dispatch"}
    BY <1>2 DEF Finish
  <2> QED BY <1>0, <1>2, <2>1 DEF RootsOk
<1>3. CASE task \in {"restore", "restat"}
  <2>1. roots' = [roots EXCEPT ![idx].id = v] /\ task' = "restore"
    BY <1>3 DEF Finish
  <2>2. idx \in DOMAIN roots /\ roots[idx].id < 0 /\ IsRoot(roots[idx])
    BY <1>0, <1>3 DEF GoodRoots
  <2>3. roots'[idx] = [roots[idx] EXCEPT !.id = v]
    BY <2>1, <2>2
  <2>4. roots'[idx].id = v
    BY <2>2, <2>3 DEF IsRoot
  <2>5. roots' = [i \in DOMAIN roots |-> IF i \in {idx} THEN [roots[i] EXCEPT !.id = roots'[i].id] ELSE roots[i]]
    BY <2>1, <2>2, <2>4
  <2>6. GoodRoots(roots') /\ DOMAIN roots' = DOMAIN roots /\ \A i \in DOMAIN roots \ {idx} : roots'[i] = roots[i]
    <3>1. PICK new, T : new = roots' /\ T = {idx}
      OBVIOUS
    <3>2. T \in SUBSET DOMAIN roots /\ \A i \in T : new[i].id \in Wds \cup -4..-1
      BY <2>2, <2>4, <3>1
    <3>3. new = [i \in DOMAIN roots |-> IF i \in T THEN [roots[i] EXCEPT !.id = new[i].id] ELSE roots[i]]
      BY <2>5, <3>1
    <3>4. GoodRoots(new) /\ DOMAIN new = DOMAIN roots /\ \A i \in DOMAIN roots \ T : new[i] = roots[i]
      BY <1>0, <3>2, <3>3, IdsChange
    <3> QED BY <3>1, <3>4
  <2>7. roots[idx].id \notin Wds
    <3>1. \A x \in Wds : ~(x < 0)
      BY WdsAssumption
    <3> QED BY <2>2, <3>1
  <2>8. \A w : RootSlotIn(roots, w) => RootSlotIn(roots', w)
    BY <2>6, <2>7 DEF RootSlotIn
  <2>9. \A w \in Wds : v = w => RootSlotIn(roots', w)
    BY <2>2, <2>4, <2>6 DEF RootSlotIn
  <2> QED BY <2>1, <2>6, <2>8, <2>9 DEF RootsOk
<1> QED BY <1>1, <1>2, <1>3

----------------------------------------------------------------------------
\* rm_watch frees the node at the slot of each id it is called for.
LEMMA RmWatchesFrees ==
  ASSUME IInv, NEW marks, NEW ids, RmWatchesFrom(marks, ids)
  PROVE  \A w \in Live' : /\ w \in Live /\ node'[w].parent = node[w].parent
                          /\ \A id \in ids \cap Wds : Slot(id) # Slot(w)
<1>0. Live \subseteq Wds /\ node \in [Live -> Nodes] /\ TableMatchesNodes
  BY DEF IInv, TypeOK, Forest
<1>1. ASSUME NEW w \in Live, NEW id \in ids \cap Wds, Slot(id) = Slot(w) PROVE w \in NodesAt(ids)
  <2>1. NodeAt(id) = w /\ w # Nil
    BY <1>0, <1>1, WdsAssumption DEF NodeAt, TableMatchesNodes
  <2> QED BY <2>1 DEF NodesAt
<1>2. NodesAt(ids) \subseteq Live
  BY SlotInRange DEF NodesAt, NodeAt, IInv, Forest, TableMatchesNodes
<1>3. CASE NodesAt(ids) = {}
  <2>1. UNCHANGED node /\ Live' = Live
    BY <1>3 DEF RmWatchesFrom, wtVars, Live
  <2> QED BY <1>1, <1>3, <2>1
<1>4. CASE NodesAt(ids) # {}
  <2> DEFINE D == Doomed(NodesAt(ids))
  <2>1. FreeNodes(NodesAt(ids))
    BY <1>4 DEF RmWatchesFrom
  <2>2. NodesAt(ids) \subseteq D
    BY <1>2, DoomedLive
  <2>3. Live' = Live \ D
    BY <2>1 DEF FreeNodes, Live
  <2>4. \A w \in Live' : node'[w] = [node[w] EXCEPT !.kids = @ \ {k \in NodesAt(ids) : node[k].parent = w}]
    BY <2>1, <2>3 DEF FreeNodes
  <2>5. ASSUME NEW w \in Live' PROVE node'[w].parent = node[w].parent
    <3>1. node[w] \in Nodes
      BY <1>0, <2>3
    <3> QED BY <2>4, <3>1 DEF Nodes
  <2>6. \A w \in Live' : \A id \in ids \cap Wds : Slot(id) # Slot(w)
    BY <1>1, <2>2, <2>3
  <2> HIDE DEF D
  <2> QED BY <2>3, <2>5, <2>6
<1> QED BY <1>3, <1>4

\* When no walk is under way, rm_watch of all the roots frees every node: a node it left would
\* have an ancestor without a parent, and that is the node of a root.
LEMMA RootsReachAll ==
  ASSUME IInv, Anchored, stack = <<>>
  PROVE  Live \subseteq Doomed(NodesAt(RootIds(roots)))
<1> DEFINE N == NodesAt(RootIds(roots))  S == Live \ Doomed(N)
<1>1. N \subseteq Live
  BY SlotInRange DEF NodesAt, NodeAt, IInv, Forest, TableMatchesNodes
<1>2. N \subseteq Doomed(N)
  BY <1>1, DoomedLive
<1>3. KidsAreLive /\ ParentsAreLive /\ NoCycles /\ TableMatchesNodes /\ Live \subseteq Wds
  BY DEF IInv, Forest, TypeOK
<1>4. SUFFICES ASSUME S # {} PROVE FALSE
  OBVIOUS
<1>5. PICK x \in S : node[x].parent \notin S
  BY <1>3, <1>4 DEF NoCycles
<1>6. CASE node[x].parent = Nil
  <2>1. PICK i \in DOMAIN roots : roots[i].id \in Wds /\ Slot(roots[i].id) = Slot(x)
    BY <1>6 DEF Anchored, WalkRootIn, RootSlotIn
  <2>2. NodeAt(roots[i].id) = x /\ x # Nil
    BY <2>1, <1>3, WdsAssumption DEF NodeAt, TableMatchesNodes
  <2>3. x \in N
    BY <2>1, <2>2 DEF NodesAt, RootIds
  <2> QED BY <1>2, <2>3
<1>7. CASE node[x].parent # Nil
  <2>1. node[x].parent \in Live /\ x \in node[node[x].parent].kids
    BY <1>3, <1>7 DEF ParentsAreLive
  <2>2. node[x].parent \in Doomed(N)
    BY <1>5, <2>1
  <2>3. x \in Doomed(N)
    BY <1>1, <1>3, <2>1, <2>2, DoomedKids
  <2> QED BY <2>3
<1> QED BY <1>6, <1>7

----------------------------------------------------------------------------
\* The steps of the notifier again, for the walk's ids, the roots and the kernel's marks.
LEMMA OutsideLeak ==
  ASSUME LeakInv, stack = <<>>, stack' = <<>>, RootsOk', Restoring', ExitFreesAll',
         \A w \in Live' : /\ w \in Live /\ node'[w].parent = node[w].parent
                          /\ RootSlotIn(roots, w) => RootSlotIn(roots', w)
  PROVE  LeakInv'
<1>1. WalkIds' /\ EventWalk'
  <2>1. \A i : i \notin DOMAIN <<>>
    OBVIOUS
  <2> QED BY <2>1 DEF WalkIds, EventWalk
<1>2. Anchored'
  BY DEF LeakInv, Anchored, WalkRootIn
<1> QED BY <1>1, <1>2 DEF LeakInv

LEMMA CallersSame ==
  ASSUME FsInv, stack # <<>>
  PROVE  /\ Len(stack) \in Nat \ {0} /\ DOMAIN stack = 1..Len(stack) /\ Top = stack[Len(stack)]
         /\ DOMAIN Callers = 1..(Len(stack) - 1)
         /\ \A i \in 1..(Len(stack) - 1) : Callers[i] = stack[i]
         /\ Callers = <<>> <=> Len(stack) = 1
<1> DEFINE F == {stack[i] : i \in DOMAIN stack}  n == Len(stack) - 1
<1>1. Len(stack) \in Nat \ {0} /\ DOMAIN stack = 1..Len(stack)
  BY StackLength DEF FsInv, StackOk
<1>2. n \in Nat /\ \A i \in 1..n : stack[i] \in F
  BY <1>1
<1>3. /\ SubSeq(stack, 1, n) \in Seq(F)
      /\ Len(SubSeq(stack, 1, n)) = n
      /\ \A i \in 1..n : SubSeq(stack, 1, n)[i] = stack[i]
  <2> HIDE DEF F, n
  <2>1. /\ SubSeq(stack, 1, n) \in Seq(F)
        /\ Len(SubSeq(stack, 1, n)) = IF 1 <= n THEN n - 1 + 1 ELSE 0
        /\ \A i \in 1..(n - 1 + 1) : SubSeq(stack, 1, n)[i] = stack[1 + i - 1]
    BY <1>2, SubSeqProperties
  <2>2. n - 1 + 1 = n /\ \A i \in 1..n : 1 + i - 1 = i
    BY <1>2
  <2> QED BY <1>2, <2>1, <2>2
<1>4. Callers = SubSeq(stack, 1, n)
  BY DEF Callers
<1> HIDE DEF n
<1>5. DOMAIN Callers = 1..n /\ Callers \in Seq(F) /\ Len(Callers) = n
  BY <1>3, <1>4, LenProperties
<1>6. Callers = <<>> <=> n = 0
  BY <1>5, EmptySeq
<1> QED BY <1>1, <1>3, <1>4, <1>5, <1>6 DEF n, Top

\* A frame returns its id, or an error before it has one.
LEMMA ReturnLeaks ==
  ASSUME FsInv, LeakInv, stack # <<>>, NEW v, NEW marks, ReturnFrom(v, marks), task # "exited",
         \/ v \in -4..-1 /\ Top.id = Nil
         \/ v \in Live /\ v = Top.id
  PROVE  LeakInv'
<1>0. IInv /\ Live \subseteq Wds /\ Nil \notin Wds /\ Wds \subseteq Nat
  BY WdsAssumption DEF FsInv, IInv, TypeOK
<1>1. v \in Wds \cup -4..-1
  BY <1>0
<1>2. task \in {"register", "event", "restore"} /\ (task = "restore" => idx \in DOMAIN roots /\ roots[idx].id < 0)
  BY DEF FsInv, WalksForATask, LeakInv, Restoring
<1>3. /\ \A w \in Live' : w \in Live /\ node'[w].parent = node[w].parent
      /\ Fatal(v) => \A w \in Live' : \A id \in WatchesOfCallers \cap Wds : Slot(id) # Slot(w)
  <2>1. CASE Fatal(v)
    <3>1. RmWatchesFrom(marks, WatchesOfCallers)
      BY <2>1 DEF ReturnFrom, ReturnTo
    <3> QED BY <1>0, <3>1, RmWatchesFrees DEF LeakInv
  <2>2. CASE ~Fatal(v)
    <3>1. RmWatchesFrom(marks, {})
      BY <2>2 DEF ReturnFrom, ReturnTo
    <3> QED BY <1>0, <2>2, <3>1, RmWatchesFrees DEF LeakInv
  <2> QED BY <2>1, <2>2
<1>4. CASE stack' # <<>>
  <2>1. ~Fatal(v) /\ stack' = Callers /\ UNCHANGED <<roots, task, idx>>
    BY <1>4 DEF ReturnFrom, ReturnTo, loopVars
  <2>2. /\ DOMAIN stack' \subseteq DOMAIN stack /\ \A i \in DOMAIN stack' : stack'[i] = stack[i]
        /\ Len(stack) # 1
    BY <1>4, <2>1, CallersSame
  <2>3. Live' = Live
    BY <2>1, RmNothing DEF ReturnFrom, ReturnTo, wtVars, Live
  <2>4. WalkIds'
    BY <2>2, <2>3 DEF LeakInv, WalkIds
  <2>5. stack'[1] = stack[1]
    BY <1>4, <2>1, <2>2, CallersSame
  <2>6. EventWalk' /\ Restoring' /\ RootsOk' /\ ExitFreesAll'
    BY <2>1, <2>3, <2>5, <1>4 DEF LeakInv, EventWalk, Restoring, RootsOk, ExitFreesAll
  <2>7. Anchored'
    BY <1>3, <1>4, <2>1, <2>5 DEF LeakInv, Anchored, WalkRootIn
  <2> QED BY <1>3, <2>4, <2>6, <2>7 DEF LeakInv
<1>5. CASE stack' = <<>>
  <2>1. Finish(v) /\ (Fatal(v) \/ Len(stack) = 1)
    BY <1>5, CallersSame DEF ReturnFrom, ReturnTo
  <2>2. /\ RootsOk' /\ task' \notin {"restat", "exited", "event"}
        /\ \A w : RootSlotIn(roots, w) => RootSlotIn(roots', w)
        /\ \A w \in Wds : v = w /\ task # "event" => RootSlotIn(roots', w)
    BY <1>1, <1>2, <2>1, FinishKeeps DEF LeakInv
  <2>3. Restoring' /\ ExitFreesAll' /\ EventWalk'
    BY <1>5, <2>2 DEF Restoring, ExitFreesAll, EventWalk
  <2>4. WalkIds'
    <3>1. \A i : i \notin DOMAIN <<>>
      OBVIOUS
    <3> QED BY <1>5, <3>1 DEF WalkIds
  <2>5. ASSUME NEW w \in Live', node'[w].parent = Nil PROVE RootSlotIn(roots', w)
    <3>1. w \in Live /\ node[w].parent = Nil /\ w \in Wds
      BY <1>0, <1>3, <2>5
    <3>2. CASE RootSlotIn(roots, w)
      BY <2>2, <3>2
    <3>3. CASE WalkRootIn(stack, w)
      <4>1. stack[1].parent = Nil /\ stack[1].id = w /\ w # Nil
        BY <1>0, <3>1, <3>3 DEF WalkRootIn
      <4>2. task # "event"
        BY <4>1 DEF LeakInv, EventWalk
      <4>3. CASE Len(stack) = 1
        <5>1. Top.id = w
          BY <4>1, <4>3, CallersSame
        <5> QED BY <2>2, <3>1, <4>1, <4>2, <5>1
      <4>4. CASE Len(stack) # 1
        <5>1. Fatal(v) /\ 1 \in DOMAIN Callers /\ Callers[1] = stack[1]
          BY <2>1, <4>4, CallersSame
        <5>2. w \in WatchesOfCallers \cap Wds
          BY <3>1, <4>1, <5>1 DEF WatchesOfCallers
        <5> QED BY <1>3, <5>1, <5>2
      <4> QED BY <4>3, <4>4
    <3> QED BY <3>1, <3>2, <3>3 DEF LeakInv, Anchored
  <2>6. Anchored'
    BY <2>5 DEF Anchored
  <2> QED BY <1>3, <2>2, <2>3, <2>4, <2>6 DEF LeakInv
<1> QED BY <1>4, <1>5

\* The frame on top changes: it keeps its parent_node, and its id once it has one.
LEMMA SetTopLeak ==
  ASSUME FsInv, LeakInv, stack # <<>>, NEW f, SetTop(f), UNCHANGED loopVars, task # "exited",
         f.parent = Top.parent, f.at \in {"enter", "add", "compare", "list", "scan"},
         IF f.at \in {"list", "scan"} THEN f.id \in Live' ELSE f.id = Nil,
         Top.id # Nil => f.id = Top.id,
         Live \subseteq Live',
         \A w \in Live' : node'[w].parent = Nil =>
            \/ w \in Live /\ node[w].parent = Nil
            \/ Len(stack) = 1 /\ f.id = w /\ f.parent = Nil
  PROVE  LeakInv'
<1>1. Len(stack) \in Nat \ {0} /\ DOMAIN stack = 1..Len(stack) /\ Top = stack[Len(stack)]
  BY CallersSame
<1>2. /\ DOMAIN stack' = DOMAIN stack /\ stack'[Len(stack)] = f
      /\ \A i \in DOMAIN stack : i # Len(stack) => stack'[i] = stack[i]
  <2>1. stack' = [stack EXCEPT ![Len(stack)] = f]
    BY DEF SetTop
  <2>2. stack = [i \in DOMAIN stack |-> stack[i]]
    <3>1. stack \in Seq({stack[i] : i \in DOMAIN stack})
      BY DEF FsInv, StackOk, GoodStack
    <3> QED BY <3>1, <1>1, LenProperties
  <2> QED BY <1>1, <2>1, <2>2
<1>3. /\ stack' # <<>> /\ stack'[1].parent = stack[1].parent
      /\ Len(stack) # 1 => stack'[1] = stack[1]
      /\ Len(stack) = 1 => stack'[1] = f /\ stack[1] = Top
  <2>1. \A i : i \notin DOMAIN <<>>
    OBVIOUS
  <2>2. 1 \in DOMAIN stack
    BY <1>1
  <2> QED BY <1>1, <1>2, <2>1, <2>2
<1>4. WalkIds'
  <2>1. ASSUME NEW i \in DOMAIN stack'
        PROVE  /\ stack'[i].at \in {"enter", "add", "compare", "list", "scan"}
               /\ IF stack'[i].at \in {"list", "scan"} THEN stack'[i].id \in Live' ELSE stack'[i].id = Nil
               /\ i > 1 => stack'[i].parent # Nil
    <3>1. CASE i = Len(stack)
      BY <1>1, <1>2, <3>1 DEF LeakInv, WalkIds
    <3>2. CASE i # Len(stack)
      BY <1>2, <3>2 DEF LeakInv, WalkIds
    <3> QED BY <3>1, <3>2
  <2> QED BY <2>1 DEF WalkIds
<1>5. RootsOk' /\ EventWalk' /\ Restoring' /\ ExitFreesAll'
  BY <1>3 DEF LeakInv, RootsOk, EventWalk, Restoring, ExitFreesAll, loopVars
<1>6. Anchored'
  <2>1. ASSUME NEW w \in Live', node'[w].parent = Nil
        PROVE  RootSlotIn(roots', w) \/ WalkRootIn(stack', w)
    <3>1. CASE Len(stack) = 1 /\ f.id = w /\ f.parent = Nil
      BY <1>3, <3>1 DEF WalkRootIn
    <3>2. CASE w \in Live /\ node[w].parent = Nil
      <4>1. RootSlotIn(roots, w) \/ WalkRootIn(stack, w)
        BY <3>2 DEF LeakInv, Anchored
      <4>2. CASE RootSlotIn(roots, w)
        BY <4>2 DEF loopVars
      <4>3. CASE WalkRootIn(stack, w)
        <5>1. w # Nil
          BY WdsAssumption, <3>2 DEF FsInv, IInv, TypeOK
        <5> QED BY <1>3, <4>3, <5>1 DEF WalkRootIn
      <4> QED BY <4>1, <4>2, <4>3
    <3> QED BY <2>1, <3>1, <3>2
  <2> QED BY <2>1 DEF Anchored
<1> QED BY <1>4, <1>5, <1>6 DEF LeakInv

\* A walk that starts while none is under way, with the parent_node that its task wants.
LEMMA FirstFrameLeak ==
  ASSUME LeakInv, stack = <<>>, UNCHANGED <<node, kwd>>, NEW path, NEW parent,
         stack' = <<EnterFrame(path, parent)>>, task' # "exited",
         RootsOk', \A w : RootSlotIn(roots, w) => RootSlotIn(roots', w),
         task' = "event" => parent # Nil, Restoring'
  PROVE  LeakInv'
<1>1. PICK f : f = EnterFrame(path, parent)
  OBVIOUS
<1>2. f.parent = parent /\ f.at = "enter" /\ f.id = Nil
  BY <1>1 DEF EnterFrame
<1>3. DOMAIN stack' = {1} /\ stack'[1] = f
  BY <1>1
<1>4. Live' = Live
  BY DEF Live
<1>5. WalkIds' /\ EventWalk' /\ ExitFreesAll'
  BY <1>2, <1>3, <1>4 DEF WalkIds, EventWalk, ExitFreesAll, LeakInv
<1>6. Anchored'
  <2>1. ASSUME NEW w \in Live', node'[w].parent = Nil PROVE RootSlotIn(roots', w)
    BY <1>4, <2>1 DEF LeakInv, Anchored, WalkRootIn
  <2> QED BY <2>1 DEF Anchored
<1> QED BY <1>5, <1>6 DEF LeakInv

\* What the steps of walk_tree leave alone in the frame on top.
LEMMA TopFields ==
  ASSUME FsInv, stack # <<>>, NEW d, NEW wd, NEW a, NEW n
  PROVE  /\ LET g == [Top EXCEPT !.at = "add", !.dir = d]
            IN /\ g.parent = Top.parent /\ g.at = "add" /\ g.id = Top.id
               /\ g.path = Top.path /\ g.dir = d /\ g.met = Top.met /\ g.names = Top.names
         /\ LET g == [Top EXCEPT !.id = wd, !.names = {}, !.at = a]
            IN /\ g.parent = Top.parent /\ g.at = a /\ g.id = wd
               /\ g.path = Top.path /\ g.dir = Top.dir /\ g.met = Top.met /\ g.names = {}
         /\ LET g == [Top EXCEPT !.at = "scan", !.names = n]
            IN /\ g.parent = Top.parent /\ g.at = "scan" /\ g.id = Top.id
               /\ g.path = Top.path /\ g.dir = Top.dir /\ g.met = Top.met /\ g.names = n
         /\ LET g == [Top EXCEPT !.names = n]
            IN /\ g.parent = Top.parent /\ g.at = Top.at /\ g.id = Top.id
               /\ g.path = Top.path /\ g.dir = Top.dir /\ g.met = Top.met /\ g.names = n
         /\ LET g == [Top EXCEPT !.at = "compare", !.met = wd]
            IN /\ g.parent = Top.parent /\ g.at = "compare" /\ g.id = Top.id
               /\ g.path = Top.path /\ g.dir = Top.dir /\ g.met = wd /\ g.names = Top.names
<1>1. PICK f : f = Top
  OBVIOUS
<1>2. f \in [path : {f.path}, parent : {f.parent}, at : {f.at}, dir : {f.dir},
             met : {f.met}, id : {f.id}, names : {f.names}]
  BY <1>1, TopOk DEF FrameOk, IsFrame
<1>3. [f EXCEPT !.at = "add", !.dir = d] \in
        [path : {f.path}, parent : {f.parent}, at : {"add"}, dir : {d},
         met : {f.met}, id : {f.id}, names : {f.names}]
  BY <1>2
<1>4. [f EXCEPT !.id = wd, !.names = {}, !.at = a] \in
        [path : {f.path}, parent : {f.parent}, at : {a}, dir : {f.dir},
         met : {f.met}, id : {wd}, names : {{}}]
  BY <1>2
<1>5. [f EXCEPT !.at = "scan", !.names = n] \in
        [path : {f.path}, parent : {f.parent}, at : {"scan"}, dir : {f.dir},
         met : {f.met}, id : {f.id}, names : {n}]
  BY <1>2
<1>6. [f EXCEPT !.names = n] \in
        [path : {f.path}, parent : {f.parent}, at : {f.at}, dir : {f.dir},
         met : {f.met}, id : {f.id}, names : {n}]
  BY <1>2
<1>7. [f EXCEPT !.at = "compare", !.met = wd] \in
        [path : {f.path}, parent : {f.parent}, at : {"compare"}, dir : {f.dir},
         met : {wd}, id : {f.id}, names : {f.names}]
  BY <1>2
<1> QED BY <1>1, <1>3, <1>4, <1>5, <1>6, <1>7

LEMMA TopLeak ==
  ASSUME FsInv, LeakInv, stack # <<>>
  PROVE  /\ task # "exited" /\ Top.at \in {"enter", "add", "compare", "list", "scan"}
         /\ Top.at \in {"list", "scan"} => Top.id \in Live
         /\ Top.at \in {"enter", "add", "compare"} => Top.id = Nil
         /\ Top.parent = Nil => Len(stack) = 1
<1>1. Len(stack) \in Nat \ {0} /\ DOMAIN stack = 1..Len(stack) /\ Top = stack[Len(stack)]
  BY CallersSame
<1>2. Len(stack) \in DOMAIN stack
  BY <1>1
<1>3. task # "exited"
  BY DEF FsInv, WalksForATask
<1> QED BY <1>1, <1>2, <1>3 DEF LeakInv, WalkIds

\* A frame on top changes while the nodes stay as they are.
LEMMA SetTopSame ==
  ASSUME FsInv, LeakInv, stack # <<>>, NEW f, SetTop(f), UNCHANGED loopVars, SameNodes,
         f.parent = Top.parent, f.at \in {"enter", "add", "compare", "list", "scan"},
         IF f.at \in {"list", "scan"} THEN f.id \in Live ELSE f.id = Nil,
         Top.id # Nil => f.id = Top.id
  PROVE  LeakInv'
<1>1. UNCHANGED <<node, kwd>> /\ Live' = Live
  BY DEF SameNodes, wtVars, Live
<1>2. \A w \in Live' : node'[w].parent = Nil => w \in Live /\ node[w].parent = Nil
  BY <1>1
<1> QED BY <1>1, <1>2, TopLeak, SetTopLeak

LEMMA OpenDirLeak == FsInv /\ LeakInv /\ OpenDir => LeakInv'
<1> SUFFICES ASSUME FsInv, LeakInv, OpenDir PROVE LeakInv'
  OBVIOUS
<1>1. stack # <<>> /\ Top.at = "enter" /\ Top.id = Nil /\ task # "exited"
  BY TopLeak DEF OpenDir, WalkStep
<1>2. ASSUME NEW v \in -4..-1, NEW marks, ReturnFrom(v, marks) PROVE LeakInv'
  BY <1>1, <1>2, ReturnLeaks
<1>3. ASSUME NEW d, SetTop([Top EXCEPT !.at = "add", !.dir = d]), SameNodes, UNCHANGED loopVars
      PROVE  LeakInv'
  <2> DEFINE f == [Top EXCEPT !.at = "add", !.dir = d]
  <2>1. f.parent = Top.parent /\ f.at = "add" /\ f.id = Top.id
    BY <1>1, TopFields
  <2>2. SetTop(f)
    BY <1>3
  <2> HIDE DEF f
  <2> QED BY <1>1, <1>3, <2>1, <2>2, SetTopSame
<1>4. -1 \in -4..-1 /\ -2 \in -4..-1
  OBVIOUS
<1>5. CASE Return(ERR_IGNORE) \/ Return(ERR_CONTINUE)
  BY <1>2, <1>4, <1>5 DEF Return, ERR_IGNORE, ERR_CONTINUE
<1> QED BY <1>3, <1>5 DEF OpenDir

LEMMA ReadDirLeak == FsInv /\ LeakInv /\ ReadDir => LeakInv'
<1> SUFFICES ASSUME FsInv, LeakInv, ReadDir PROVE LeakInv'
  OBVIOUS
<1> DEFINE f == [Top EXCEPT !.at = "scan", !.names = EntriesOf(Top.dir)]
<1>1. stack # <<>> /\ Top.at = "list" /\ Top.id \in Live
  BY TopLeak DEF ReadDir, WalkStep
<1>2. f.parent = Top.parent /\ f.at = "scan" /\ f.id = Top.id
  BY <1>1, TopFields
<1>3. SetTop(f) /\ SameNodes /\ UNCHANGED loopVars
  BY DEF ReadDir
<1> HIDE DEF f
<1> QED BY <1>1, <1>2, <1>3, SetTopSame

LEMMA WalkEndLeak == FsInv /\ LeakInv /\ WalkEnd => LeakInv'
<1> SUFFICES ASSUME FsInv, LeakInv, WalkEnd PROVE LeakInv'
  OBVIOUS
<1>1. stack # <<>> /\ Top.id \in Live /\ task # "exited" /\ Return(Top.id)
  BY TopLeak DEF WalkEnd, WalkStep
<1> QED BY <1>1, ReturnLeaks DEF Return

LEMMA ComparePathsLeak == FsInv /\ LeakInv /\ ComparePaths => LeakInv'
<1> SUFFICES ASSUME FsInv, LeakInv, ComparePaths PROVE LeakInv'
  OBVIOUS
<1>1. stack # <<>> /\ Top.id = Nil /\ task # "exited"
  BY TopLeak DEF ComparePaths, WalkStep
<1>2. ERR_IGNORE \in -4..-1 /\ ERR_ABORT \in -4..-1
  BY DEF ERR_IGNORE, ERR_ABORT
<1>3. ReturnFrom(ERR_IGNORE, kwd) \/ ReturnFrom(ERR_ABORT, kwd)
  BY DEF ComparePaths, Return
<1> QED BY <1>1, <1>2, <1>3, ReturnLeaks

LEMMA WalkEntryLeak == FsInv /\ LeakInv /\ WalkEntry => LeakInv'
<1> SUFFICES ASSUME FsInv, LeakInv, WalkEntry PROVE LeakInv'
  OBVIOUS
<1>1. /\ stack # <<>> /\ Top.at = "scan" /\ Top.id \in Live
      /\ UNCHANGED <<node, kwd, roots, task, idx>> /\ Live' = Live
  BY TopLeak DEF WalkEntry, WalkStep, SameNodes, loopVars, wtVars, Live
<1>2. PICK n \in Top.names :
        stack' = Append([stack EXCEPT ![Len(stack)].names = @ \ {n}],
                        EnterFrame(Child(Top.path, n), NodeAt(Top.id)))
  BY DEF WalkEntry
<1> DEFINE f == [Top EXCEPT !.names = @ \ {n}]
           rest == [stack EXCEPT ![Len(stack)] = f]
           new == EnterFrame(Child(Top.path, n), NodeAt(Top.id))
<1>3. f.parent = Top.parent /\ f.at = Top.at /\ f.id = Top.id /\ FrameOk(f, Live)
  BY <1>1, TopFields, TopOk, NamedOk
<1>4. new.at = "enter" /\ new.id = Nil /\ new.parent = NodeAt(Top.id)
  BY DEF EnterFrame
<1>5. NodeAt(Top.id) = Top.id /\ Top.id # Nil
  BY <1>1, WdsAssumption DEF NodeAt, FsInv, IInv, Forest, TypeOK, TableMatchesNodes
<1>6. stack' = Append(rest, new)
  BY <1>2 DEF Top
<1> HIDE DEF f, new
<1>7. Len(stack) \in Nat \ {0} /\ DOMAIN stack = 1..Len(stack) /\ Top = stack[Len(stack)]
  BY <1>1, CallersSame
<1>8. /\ DOMAIN stack' = 1..(Len(stack) + 1) /\ stack'[Len(stack)] = f
      /\ \A i \in DOMAIN stack : i # Len(stack) => stack'[i] = stack[i]
      /\ stack'[Len(stack) + 1] = new
  <2> DEFINE F == {stack[i] : i \in DOMAIN stack} \cup {f}
  <2>1. stack \in Seq(F)
    BY SeqMonotonic DEF FsInv, StackOk, GoodStack
  <2>2. /\ rest \in Seq(F) /\ Len(rest) = Len(stack)
        /\ \A j \in 1..Len(stack) : rest[j] = IF j = Len(stack) THEN f ELSE stack[j]
    BY <1>7, <2>1, ExceptSeq
  <2> DEFINE G == F \cup {new}
  <2>3. rest \in Seq(G)
    BY <2>2, SeqMonotonic
  <2> HIDE DEF rest, F
  <2>4. /\ stack' \in Seq(G) /\ Len(stack') = Len(stack) + 1
        /\ \A j \in 1..Len(stack) : stack'[j] = rest[j]
        /\ stack'[Len(stack) + 1] = new
    BY <1>6, <2>2, <2>3, AppendProperties
  <2>5. DOMAIN stack' = 1..(Len(stack) + 1)
    BY <2>4, LenProperties
  <2>6. \A j \in 1..Len(stack) : stack'[j] = IF j = Len(stack) THEN f ELSE stack[j]
    BY <2>2, <2>4
  <2>7. Len(stack) \in 1..Len(stack)
    BY <1>7
  <2>8. stack'[Len(stack)] = f
    BY <2>6, <2>7
  <2>9. ASSUME NEW i \in DOMAIN stack, i # Len(stack) PROVE stack'[i] = stack[i]
    <3>1. i \in 1..Len(stack)
      BY <1>7
    <3> QED BY <2>6, <2>9, <3>1
  <2> QED BY <2>4, <2>5, <2>8, <2>9
<1> HIDE DEF rest
<1>9. WalkIds'
  <2>1. ASSUME NEW i \in DOMAIN stack'
        PROVE  /\ stack'[i].at \in {"enter", "add", "compare", "list", "scan"}
               /\ IF stack'[i].at \in {"list", "scan"} THEN stack'[i].id \in Live' ELSE stack'[i].id = Nil
               /\ i > 1 => stack'[i].parent # Nil
    <3>1. CASE i = Len(stack) + 1
      BY <1>4, <1>5, <1>8, <3>1
    <3>2. CASE i = Len(stack)
      BY <1>1, <1>3, <1>7, <1>8, <3>2 DEF LeakInv, WalkIds
    <3>3. CASE i \notin {Len(stack), Len(stack) + 1}
      <4>1. i \in DOMAIN stack /\ stack'[i] = stack[i]
        BY <1>7, <1>8, <3>3
      <4> QED BY <1>1, <4>1 DEF LeakInv, WalkIds
    <3> QED BY <3>1, <3>2, <3>3
  <2> QED BY <2>1 DEF WalkIds
<1>10. stack' # <<>> /\ stack'[1].parent = stack[1].parent /\ stack'[1].id = stack[1].id
  <2>1. \A i : i \notin DOMAIN <<>>
    OBVIOUS
  <2>2. 1 \in DOMAIN stack /\ 1 \in DOMAIN stack'
    BY <1>7, <1>8
  <2> QED BY <1>3, <1>7, <1>8, <2>1, <2>2
<1>11. RootsOk' /\ EventWalk' /\ Restoring' /\ ExitFreesAll'
  BY <1>1, <1>10 DEF LeakInv, RootsOk, EventWalk, Restoring, ExitFreesAll
<1>12. Anchored'
  BY <1>1, <1>10 DEF LeakInv, Anchored, WalkRootIn
<1> QED BY <1>9, <1>11, <1>12 DEF LeakInv

\* The new node is the frame's.
LEMMA NewNodeLeak ==
  ASSUME FsInv, LeakInv, stack # <<>>, Top.at = "add", UNCHANGED loopVars, NEW wd \in Wds,
         AddNode(wd, Top.path, Top.parent), NEW a \in {"list", "scan"},
         SetTop([Top EXCEPT !.id = wd, !.names = {}, !.at = a])
  PROVE  LeakInv'
<1> DEFINE f == [Top EXCEPT !.id = wd, !.names = {}, !.at = a]
<1>1. f.parent = Top.parent /\ f.at = a /\ f.id = wd
  BY TopFields
<1>2. SetTop(f)
  OBVIOUS
<1> HIDE DEF f
<1>3. TypeOK /\ TableMatchesNodes /\ Nil \notin Wds
  BY WdsAssumption DEF FsInv, IInv, Forest
<1>4. Live' = Live \cup {wd} /\ wd \notin Live
  BY <1>3 DEF AddNode, Live, NodeAt, TableMatchesNodes, TypeOK
<1>5. node' = [w \in Live \cup {wd} |->
                IF w = wd THEN [path |-> Top.path, parent |-> Top.parent, kids |-> {}]
                ELSE IF w = Top.parent THEN [node[w] EXCEPT !.kids = @ \cup {wd}]
                ELSE node[w]]
  BY DEF AddNode
<1>6. node'[wd].parent = Top.parent
  BY <1>5
<1>7. ASSUME NEW w \in Live PROVE node'[w].parent = node[w].parent
  <2>1. node[w] \in Nodes
    BY <1>3 DEF TypeOK
  <2>2. node'[w] = IF w = Top.parent THEN [node[w] EXCEPT !.kids = @ \cup {wd}] ELSE node[w]
    BY <1>4, <1>5
  <2>3. [node[w] EXCEPT !.kids = @ \cup {wd}].parent = node[w].parent
    BY <2>1 DEF Nodes
  <2> QED BY <2>2, <2>3
<1>8. \A w \in Live' : node'[w].parent = Nil =>
         \/ w \in Live /\ node[w].parent = Nil
         \/ Len(stack) = 1 /\ f.id = w /\ f.parent = Nil
  BY <1>1, <1>4, <1>6, <1>7, TopLeak
<1> QED BY <1>1, <1>2, <1>4, <1>8, TopLeak, SetTopLeak

LEMMA AddWatchLeak == FsInv /\ LeakInv /\ AddWatch => LeakInv'
<1> SUFFICES ASSUME FsInv, LeakInv, AddWatch PROVE LeakInv'
  OBVIOUS
<1>1. stack # <<>> /\ Top.at = "add" /\ Top.id = Nil /\ task # "exited"
  BY TopLeak DEF AddWatch, WalkStep
<1>2. ASSUME NEW v \in -4..-1, NEW marks, ReturnFrom(v, marks) PROVE LeakInv'
  BY <1>1, <1>2, ReturnLeaks
<1>3. ERR_IGNORE \in -4..-1 /\ ERR_CONTINUE \in -4..-1 /\ ERR_ABORT \in -4..-1
  BY DEF ERR_IGNORE, ERR_CONTINUE, ERR_ABORT
<1>4. CASE AddWatchErrno
  BY <1>2, <1>3, <1>4 DEF AddWatchErrno, AddWatchFails, Return
<1>5. ASSUME NEW wd \in Wds, AddWatchTo(wd) PROVE LeakInv'
  <2> DEFINE a == IF walk.recursive THEN "list" ELSE "scan"
             f == [Top EXCEPT !.id = wd, !.names = {}, !.at = a]
             g == [Top EXCEPT !.at = "compare", !.met = wd]
  <2>1. \/ AddNode(wd, Top.path, Top.parent) /\ SetTop(f) /\ UNCHANGED loopVars
        \/ NodeAt(wd) = wd /\ SameNodes /\ SetTop(f) /\ UNCHANGED loopVars
        \/ SameNodes /\ SetTop(g) /\ UNCHANGED loopVars
        \/ ReturnFrom(ERR_ABORT, MarkedAs(wd))
    BY <1>5, ZenonT(60) DEF AddWatchTo
  <2>2. a \in {"list", "scan"}
    OBVIOUS
  <2> HIDE DEF a
  <2>3. CASE NodeAt(wd) = wd /\ SameNodes /\ SetTop(f) /\ UNCHANGED loopVars
    <3>1. wd \in Live
      BY <2>3, SlotInRange, WdsAssumption DEF NodeAt, FsInv, IInv, Forest, TableMatchesNodes
    <3>2. f.parent = Top.parent /\ f.at = a /\ f.id = wd
      BY <1>1, TopFields
    <3> HIDE DEF f
    <3> QED BY <1>1, <2>2, <2>3, <3>1, <3>2, SetTopSame
  <2>4. CASE SameNodes /\ SetTop(g) /\ UNCHANGED loopVars
    <3>1. g.parent = Top.parent /\ g.at = "compare" /\ g.id = Top.id
      BY <1>1, TopFields
    <3> HIDE DEF g
    <3> QED BY <1>1, <2>4, <3>1, SetTopSame
  <2> QED BY <1>1, <1>2, <1>3, <1>5, <2>1, <2>2, <2>3, <2>4, NewNodeLeak
<1> QED BY <1>4, <1>5 DEF AddWatch

----------------------------------------------------------------------------
\* The steps outside walk_tree.
LEMMA RegisterRootLeak == FsInv /\ LeakInv /\ RegisterRoot => LeakInv'
<1> SUFFICES ASSUME FsInv, LeakInv, RegisterRoot PROVE LeakInv'
  OBVIOUS
<1>1. /\ stack = <<>> /\ task = "register" /\ UNCHANGED <<node, kwd, task>>
      /\ Live' = Live /\ GoodRoots(roots)
  BY DEF RegisterRoot, SameNodes, wtVars, Live, LeakInv, RootsOk
<1>2. CASE UNCHANGED <<roots, stack>>
  <2>1. RootsOk' /\ Restoring' /\ ExitFreesAll'
    BY <1>1, <1>2 DEF RootsOk, Restoring, ExitFreesAll
  <2> QED BY <1>1, <1>2, <2>1, OutsideLeak
<1>3. CASE \E path : stack' = <<EnterFrame(path, Nil)>> /\ UNCHANGED roots
  <2>1. RootsOk' /\ Restoring'
    BY <1>1, <1>3 DEF RootsOk, Restoring
  <2> QED BY <1>1, <1>3, <2>1, FirstFrameLeak
<1>4. CASE /\ UNCHANGED stack
           /\ roots' = Append(roots, [path |-> Head(pending).path, flat |-> Head(pending).flat,
                                      id |-> ERR_MISSING])
  <2> DEFINE r == [path |-> Head(pending).path, flat |-> Head(pending).flat, id |-> ERR_MISSING]
  <2>1. IsRoot(r)
    BY DEF IsRoot, ERR_MISSING
  <2> HIDE DEF r
  <2>2. roots' = Append(roots, r)
    BY <1>4 DEF r
  <2>3. GoodRoots(roots') /\ \A w : RootSlotIn(roots, w) => RootSlotIn(roots', w)
    BY <1>1, <2>1, <2>2, AppendRoot
  <2>4. RootsOk' /\ Restoring' /\ ExitFreesAll'
    BY <1>1, <1>4, <2>3 DEF RootsOk, Restoring, ExitFreesAll
  <2> QED BY <1>1, <1>4, <2>3, <2>4, OutsideLeak
<1> QED BY <1>1, <1>2, <1>3, <1>4 DEF RegisterRoot, StartWalk

\* watch() ends before a walk has started.
LEMMA NoWalkLeak ==
  ASSUME FsInv, LeakInv, stack = <<>>, UNCHANGED stack, SameNodes, NEW v \in -4..-1, Finish(v),
         task \in {"register", "restat"}
  PROVE  LeakInv'
<1>1. UNCHANGED <<node, kwd>> /\ Live' = Live
  BY DEF SameNodes, wtVars, Live, LeakInv
<1>2. task = "restat" => idx \in DOMAIN roots /\ roots[idx].id < 0
  BY DEF LeakInv, Restoring
<1>3. /\ RootsOk' /\ task' \notin {"restat", "exited", "event"}
      /\ \A w : RootSlotIn(roots, w) => RootSlotIn(roots', w)
  BY <1>2, FinishKeeps DEF LeakInv
<1>4. Restoring' /\ ExitFreesAll'
  BY <1>3 DEF Restoring, ExitFreesAll
<1> QED BY <1>1, <1>3, <1>4, OutsideLeak

LEMMA StatFailsLeak == FsInv /\ LeakInv /\ StatFails => LeakInv'
<1> SUFFICES ASSUME FsInv, LeakInv, StatFails PROVE LeakInv'
  OBVIOUS
<1>1. /\ stack = <<>> /\ UNCHANGED stack /\ SameNodes /\ task \in {"register", "restat"}
      /\ Finish(ERR_CONTINUE) \/ Finish(ERR_ABORT)
  BY DEF StatFails
<1>2. ERR_CONTINUE \in -4..-1 /\ ERR_ABORT \in -4..-1
  BY DEF ERR_CONTINUE, ERR_ABORT
<1> QED BY <1>1, <1>2, NoWalkLeak

LEMMA RestoreRootLeak == FsInv /\ LeakInv /\ RestoreRoot => LeakInv'
<1> SUFFICES ASSUME FsInv, LeakInv, RestoreRoot PROVE LeakInv'
  OBVIOUS
<1>1. stack = <<>> /\ SameNodes /\ task = "restat" /\ UNCHANGED <<node, kwd>>
  BY DEF RestoreRoot, SameNodes, wtVars
<1>2. CASE \E path : stack' = <<EnterFrame(path, Nil)>> /\ task' = "restore" /\ UNCHANGED <<roots, idx>>
  <2>1. RootsOk' /\ Restoring'
    BY <1>1, <1>2 DEF LeakInv, RootsOk, Restoring
  <2> QED BY <1>1, <1>2, <2>1, FirstFrameLeak
<1>3. CASE Finish(ERR_MISSING) /\ UNCHANGED stack
  <2>1. ERR_MISSING \in -4..-1
    BY DEF ERR_MISSING
  <2> QED BY <1>1, <1>3, <2>1, NoWalkLeak
<1> QED BY <1>2, <1>3 DEF RestoreRoot, StartWalk

\* Steps that change no root, no node and no mark.
LEMMA QuietLeak ==
  ASSUME FsInv, LeakInv, stack = <<>>, UNCHANGED <<roots, node, kwd, stack>>,
         task' # "exited", Restoring'
  PROVE  LeakInv'
<1>1. Live' = Live /\ RootsOk' /\ ExitFreesAll'
  BY DEF Live, LeakInv, RootsOk, ExitFreesAll
<1> QED BY <1>1, OutsideLeak

LEMMA LoopLeak ==
  FsInv /\ LeakInv /\ (RegisterDone \/ ReadEvents \/ DispatchDone \/ Timeout \/ CheckRoot \/ Quit)
    => LeakInv'
<1> SUFFICES ASSUME FsInv, LeakInv,
                    RegisterDone \/ ReadEvents \/ DispatchDone \/ Timeout \/ CheckRoot \/ Quit
             PROVE  LeakInv'
  OBVIOUS
<1>1. stack = <<>> /\ UNCHANGED <<roots, node, kwd, stack>>
  BY DEF RegisterDone, ReadEvents, DispatchDone, Timeout, CheckRoot, Quit, SameNodes, wtVars,
         FsInv, WalksForATask
<1>2. task' # "exited" /\ Restoring'
  <2>1. CASE CheckRoot
    BY <1>1, <2>1 DEF CheckRoot, Restoring
  <2>2. CASE RegisterDone \/ ReadEvents \/ DispatchDone \/ Timeout \/ Quit
    BY <1>1, <2>2 DEF RegisterDone, ReadEvents, DispatchDone, Timeout, Quit, Restoring
  <2> QED BY <2>1, <2>2
<1> QED BY <1>1, <1>2, QuietLeak

\* rm_watch outside a walk, while the roots that keep a node of their own keep their ids.
LEMMA RemovalLeak ==
  ASSUME FsInv, LeakInv, stack = <<>>, UNCHANGED stack, NEW ids, RmWatches(ids),
         task' \notin {"exited", "restat", "restore"}, RootsOk',
         \A w : RootSlotIn(roots, w) =>
                  RootSlotIn(roots', w) \/ \E id \in ids \cap Wds : Slot(id) = Slot(w)
  PROVE  LeakInv'
<1>1. \A w \in Live' : /\ w \in Live /\ node'[w].parent = node[w].parent
                       /\ \A id \in ids \cap Wds : Slot(id) # Slot(w)
  BY RmWatchesFrees DEF FsInv, RmWatches
<1>2. Restoring' /\ ExitFreesAll'
  BY DEF Restoring, ExitFreesAll
<1>3. \A w \in Live' : RootSlotIn(roots, w) => RootSlotIn(roots', w)
  BY <1>1
<1> QED BY <1>1, <1>2, <1>3, OutsideLeak

\* check_root_removal: a root that loses its id has lost its node.
LEMMA RemovedRootsLeak ==
  ASSUME RootsOk, NEW p, CheckRootRemoval(p)
  PROVE  /\ RootsOk'
         /\ \A w : RootSlotIn(roots, w) =>
              \/ RootSlotIn(roots', w)
              \/ \E id \in {roots[i].id : i \in RemovedRoots(p)} \cap Wds : Slot(id) = Slot(w)
<1>1. PICK new : new = roots'
  OBVIOUS
<1>2. RemovedRoots(p) \in SUBSET DOMAIN roots
  BY DEF RemovedRoots
<1> DEFINE T == RemovedRoots(p)
<1>3. new = [i \in DOMAIN roots |-> IF i \in T THEN [roots[i] EXCEPT !.id = -1] ELSE roots[i]]
  BY <1>1 DEF CheckRootRemoval
<1>4. T \in SUBSET DOMAIN roots
  BY <1>2
<1> HIDE DEF T
<1>5. \A i \in T : new[i].id = -1
  <2>1. TAKE i \in T
  <2>2. new[i] = [roots[i] EXCEPT !.id = -1] /\ IsRoot(roots[i])
    BY <1>3, <1>4 DEF RootsOk, GoodRoots
  <2> QED BY <2>2 DEF IsRoot
<1>6. new = [i \in DOMAIN roots |-> IF i \in T THEN [roots[i] EXCEPT !.id = new[i].id] ELSE roots[i]]
  BY <1>3, <1>5
<1>7. \A i \in T : new[i].id \in Wds \cup -4..-1
  BY <1>5
<1>8. GoodRoots(new) /\ DOMAIN new = DOMAIN roots /\ \A i \in DOMAIN roots \ T : new[i] = roots[i]
  BY <1>4, <1>6, <1>7, IdsChange DEF RootsOk
<1>9. ASSUME NEW w, RootSlotIn(roots, w)
      PROVE  RootSlotIn(new, w) \/ \E id \in {roots[i].id : i \in T} \cap Wds : Slot(id) = Slot(w)
  BY <1>8, <1>9 DEF RootSlotIn
<1> QED BY <1>1, <1>8, <1>9 DEF RootsOk, T

LEMMA DispatchLeak == FsInv /\ LeakInv /\ Dispatch => LeakInv'
<1> SUFFICES ASSUME FsInv, LeakInv, Dispatch PROVE LeakInv'
  OBVIOUS
<1> DEFINE e == Head(batch)
           n == IF e.kind = "overflow" THEN Nil ELSE NodeAt(e.wd)
           p == IF e.name = NoName THEN node[n].path ELSE Child(node[n].path, e.name)
<1>1. stack = <<>> /\ task = "dispatch" /\ ProcessEvent(e) /\ RootsOk /\ UNCHANGED idx
  BY DEF Dispatch, FsInv, WalksForATask, LeakInv
<1>2. CASE UNCHANGED <<wtVars, kwd, roots, task, stack>>
  <2>1. UNCHANGED node /\ Restoring' /\ task' # "exited"
    BY <1>1, <1>2 DEF wtVars, Restoring
  <2> QED BY <1>1, <1>2, <2>1, QuietLeak
<1>3. CASE /\ n # Nil /\ stack' = <<EnterFrame(p, n)>> /\ task' = "event"
           /\ UNCHANGED <<wtVars, kwd, roots>>
  <2>1. UNCHANGED <<node, kwd>> /\ RootsOk' /\ Restoring'
    BY <1>1, <1>3 DEF wtVars, RootsOk, Restoring
  <2> HIDE DEF e, n, p
  <2> QED BY <1>1, <1>3, <2>1, FirstFrameLeak
<1>4. CASE UNCHANGED <<roots, task, stack>> /\ \E ids : RmWatches(ids)
  <2>1. RootsOk'
    BY <1>1, <1>4 DEF RootsOk
  <2> QED BY <1>1, <1>4, <2>1, RemovalLeak
<1>5. CASE CheckRootRemoval(p) /\ UNCHANGED <<task, stack>>
  <2>1. RmWatches({roots[i].id : i \in RemovedRoots(p)})
    BY <1>5 DEF CheckRootRemoval
  <2> HIDE DEF e, n, p
  <2> QED BY <1>1, <1>5, <2>1, RemovedRootsLeak, RemovalLeak
<1> QED BY <1>1, <1>2, <1>3, <1>4, <1>5 DEF ProcessEvent, DropKid

LEMMA UpdateRootsLeak == FsInv /\ LeakInv /\ UpdateRoots => LeakInv'
<1> SUFFICES ASSUME FsInv, LeakInv, UpdateRoots PROVE LeakInv'
  OBVIOUS
<1>1. /\ stack = <<>> /\ UNCHANGED stack /\ RmWatches(RootIds(roots)) /\ roots' = <<>>
      /\ task' \in {"select", "register", "giveup"}
  BY DEF UpdateRoots, FsInv, WalksForATask
<1>2. RootsOk'
  BY <1>1, NoRootsGood DEF RootsOk
<1>3. \A w : RootSlotIn(roots, w) => \E id \in RootIds(roots) \cap Wds : Slot(id) = Slot(w)
  BY DEF RootSlotIn, RootIds
<1> QED BY <1>1, <1>2, <1>3, RemovalLeak

\* The last unregister_roots leaves nothing.
LEMMA ShutdownLeak == FsInv /\ LeakInv /\ Shutdown => LeakInv'
<1> SUFFICES ASSUME FsInv, LeakInv, Shutdown PROVE LeakInv'
  OBVIOUS
<1> DEFINE N == NodesAt(RootIds(roots))
<1>1. /\ stack = <<>> /\ UNCHANGED stack /\ DOMAIN kwd' = {} /\ roots' = <<>> /\ task' = "exited"
      /\ IF N = {} THEN UNCHANGED wtVars ELSE FreeNodes(N)
  BY DEF Shutdown, ShutdownFreeing, FsInv, WalksForATask
<1>2. Live \subseteq Doomed(N)
  BY <1>1, RootsReachAll DEF FsInv, LeakInv
<1>3. Live' = {}
  <2>1. CASE N = {}
    <3>1. KidClosed({}) /\ {} \in SUBSET Live
      BY DEF KidClosed
    <3>2. Doomed(N) = {}
      BY <2>1, <3>1 DEF Doomed
    <3> QED BY <1>1, <1>2, <2>1, <3>2 DEF wtVars, Live
  <2>2. CASE N # {}
    <3>1. node' = [w \in Live \ Doomed(N) |->
                     [node[w] EXCEPT !.kids = @ \ {k \in N : node[k].parent = w}]]
      BY <1>1, <2>2 DEF FreeNodes
    <3> HIDE DEF N
    <3> QED BY <1>2, <3>1 DEF Live
  <2> QED BY <2>1, <2>2
<1>4. RootsOk' /\ Restoring' /\ ExitFreesAll'
  BY <1>1, <1>3, NoRootsGood DEF RootsOk, Restoring, ExitFreesAll
<1> QED BY <1>1, <1>3, <1>4, OutsideLeak

\* The other processes touch neither the nodes nor the roots.
LEMMA OthersLeak == FsInv /\ LeakInv /\ Others => LeakInv'
<1> SUFFICES ASSUME FsInv, LeakInv, Others PROVE LeakInv'
  OBVIOUS
<1>1. UNCHANGED <<node, roots, task, idx, stack>> /\ Live' = Live
  BY DEF Others, wtVars, loopVars, Live
<1> QED BY <1>1 DEF LeakInv, RootsOk, WalkIds, EventWalk, Restoring, Anchored, ExitFreesAll

----------------------------------------------------------------------------
LEMMA LeakInit == FsInit => LeakInv
<1> SUFFICES ASSUME FsInit PROVE LeakInv
  OBVIOUS
<1>1. Live = {} /\ stack = <<>> /\ roots = <<>> /\ task = "select" /\ DOMAIN kwd = {}
  BY DEF FsInit, Init, FileTreeInit, Live
<1>2. RootsOk
  BY <1>1, NoRootsGood DEF RootsOk
<1>3. \A i : i \notin DOMAIN <<>>
  OBVIOUS
<1> QED BY <1>1, <1>2, <1>3 DEF LeakInv, WalkIds, EventWalk, Restoring, Anchored, ExitFreesAll

LEMMA LeakNext == FsInv /\ LeakInv /\ [FsNext]_vars => LeakInv'
<1> SUFFICES ASSUME FsInv, LeakInv, [FsNext]_vars PROVE LeakInv'
  OBVIOUS
<1>1. CASE WalkTree
  BY <1>1, OpenDirLeak, AddWatchLeak, ComparePathsLeak, ReadDirLeak, WalkEntryLeak, WalkEndLeak DEF WalkTree
<1>2. CASE RegisterRoot \/ StatFails \/ RestoreRoot \/ Dispatch \/ Shutdown
  BY <1>2, RegisterRootLeak, StatFailsLeak, RestoreRootLeak, DispatchLeak, ShutdownLeak
<1>3. CASE RegisterDone \/ ReadEvents \/ DispatchDone \/ Timeout \/ CheckRoot \/ Quit
  BY <1>3, LoopLeak
<1>4. CASE UpdateRoots \/ Others
  BY <1>4, UpdateRootsLeak, OthersLeak
<1>5. CASE UNCHANGED vars
  <2>1. UNCHANGED <<node, kwd, roots, task, idx, stack>> /\ Live' = Live
    BY <1>5 DEF vars, wtVars, treeVars, loopVars, Live
  <2> QED BY <2>1 DEF LeakInv, RootsOk, WalkIds, EventWalk, Restoring, Anchored, ExitFreesAll
<1> QED BY <1>1, <1>2, <1>3, <1>4, <1>5 DEF FsNext, Watcher

\* However the process ends, unregister_roots has freed every node on the way out of main.
THEOREM ExitFrees == FsSpec => []ExitFreesAll
<1>1. LeakInv => ExitFreesAll
  BY DEF LeakInv
<1> QED BY FsInitInv, FsNextInv, LeakInit, LeakNext, <1>1, PTL DEF FsSpec

----------------------------------------------------------------------------
\* Paths, as sequences of any names.
LEMMA PrefixFacts ==
  ASSUME NEW T, NEW p \in Seq(T), NEW k \in 1..Len(p)
  PROVE  /\ SubSeq(p, 1, k) \in Seq(T) /\ Len(SubSeq(p, 1, k)) = k
         /\ \A i \in 1..k : SubSeq(p, 1, k)[i] = p[i]
<1>1. Len(p) \in Nat /\ k \in Nat /\ \A i \in 1..k : i \in 1..Len(p)
  BY LenProperties
<1>2. \A i \in 1..k : p[i] \in T
  BY <1>1, ElementOfSeq
<1>3. /\ SubSeq(p, 1, k) \in Seq(T)
      /\ Len(SubSeq(p, 1, k)) = IF 1 <= k THEN k - 1 + 1 ELSE 0
      /\ \A i \in 1..(k - 1 + 1) : SubSeq(p, 1, k)[i] = p[1 + i - 1]
  BY <1>1, <1>2, SubSeqProperties
<1>4. k - 1 + 1 = k /\ 1 <= k /\ \A i \in 1..k : 1 + i - 1 = i
  BY <1>1
<1> QED BY <1>3, <1>4

LEMMA ParentPathMeans ==
  ASSUME NEW T, NEW q \in Seq(T), NEW p \in Seq(T), q # <<>>
  PROVE  IsParentPath(q, p) <=> Len(q) <= Len(p) /\ \A i \in 1..Len(q) : p[i] = q[i]
<1>1. Len(q) \in Nat \ {0} /\ Len(p) \in Nat
  BY EmptySeq, LenProperties
<1>2. CASE Len(q) <= Len(p)
  <2>1. Len(q) \in 1..Len(p)
    BY <1>1, <1>2
  <2>2. PICK s : s = SubSeq(p, 1, Len(q))
    OBVIOUS
  <2>3. s \in Seq(T) /\ Len(s) = Len(q) /\ \A i \in 1..Len(q) : s[i] = p[i]
    BY <2>1, <2>2, PrefixFacts
  <2>4. (\A i \in 1..Len(q) : p[i] = q[i]) => s = q
    BY <2>3, SeqEqual
  <2> QED BY <1>2, <2>2, <2>3, <2>4 DEF IsParentPath
<1> QED BY <1>2 DEF IsParentPath

LEMMA PrefixOfPrefix ==
  ASSUME NEW T, NEW p \in Seq(T), NEW k \in 1..Len(p), NEW j \in 1..k
  PROVE  SubSeq(SubSeq(p, 1, k), 1, j) = SubSeq(p, 1, j)
<1>1. PICK s : s = SubSeq(p, 1, k)
  OBVIOUS
<1>2. s \in Seq(T) /\ Len(s) = k /\ \A i \in 1..k : s[i] = p[i]
  BY <1>1, PrefixFacts
<1>3. Len(p) \in Nat /\ j \in 1..Len(p) /\ j \in 1..Len(s) /\ \A i \in 1..j : i \in 1..k
  BY <1>2, LenProperties
<1>4. PICK a, b : a = SubSeq(s, 1, j) /\ b = SubSeq(p, 1, j)
  OBVIOUS
<1>5. /\ a \in Seq(T) /\ Len(a) = j /\ \A i \in 1..j : a[i] = s[i]
      /\ b \in Seq(T) /\ Len(b) = j /\ \A i \in 1..j : b[i] = p[i]
  BY <1>2, <1>3, <1>4, PrefixFacts
<1>6. a = b
  BY <1>2, <1>3, <1>5, SeqEqual
<1> QED BY <1>1, <1>4, <1>6

\* What is above a path whose own directory is in a prefix-closed set is in that set.
LEMMA AboveIsThere ==
  ASSUME NEW T, NEW S \in SUBSET Seq(T), PrefixClosed(S), NEW p \in Seq(T),
         p \in S \/ Len(p) = 1 \/ ParentOf(p) \in S
  PROVE  \A k \in 1..Len(p) - 1 : SubSeq(p, 1, k) \in S
<1> SUFFICES ASSUME NEW k \in 1..Len(p) - 1 PROVE SubSeq(p, 1, k) \in S
  OBVIOUS
<1>0. Len(p) \in Nat
  BY LenProperties
<1>1. k \in 1..Len(p) /\ k # Len(p) /\ Len(p) # 1
  <2>1. PICK n \in Nat : n = Len(p)
    BY <1>0
  <2> QED BY <2>1
<1>2. CASE p \in S
  BY <1>1, <1>2 DEF PrefixClosed
<1>3. CASE ParentOf(p) \in S
  <2>1. PICK n : n = Len(p) - 1
    OBVIOUS
  <2>2. n \in 1..Len(p) /\ k \in 1..n /\ ParentOf(p) = SubSeq(p, 1, n)
    BY <1>0, <1>1, <2>1 DEF ParentOf
  <2>3. Len(SubSeq(p, 1, n)) = n
    BY <2>2, PrefixFacts
  <2>4. SubSeq(SubSeq(p, 1, n), 1, k) \in S
    BY <1>3, <2>2, <2>3 DEF PrefixClosed
  <2> QED BY <2>2, <2>4, PrefixOfPrefix
<1> QED BY <1>1, <1>2, <1>3

LEMMA GrowClosed ==
  ASSUME NEW T, NEW S \in SUBSET Seq(T), PrefixClosed(S), NEW p \in Seq(T),
         Len(p) = 1 \/ ParentOf(p) \in S
  PROVE  PrefixClosed(S \cup {p})
<1>1. \A k \in 1..Len(p) - 1 : SubSeq(p, 1, k) \in S
  BY AboveIsThere
<1>2. Len(p) \in Nat /\ SubSeq(p, 1, Len(p)) = p
  BY LenProperties, SubSeqFull
<1>3. \A k \in 1..Len(p) : k \in 1..Len(p) - 1 \/ k = Len(p)
  <2>1. PICK n \in Nat : n = Len(p)
    BY <1>2
  <2> QED BY <2>1
<1>4. \A k \in 1..Len(p) : SubSeq(p, 1, k) \in S \cup {p}
  BY <1>1, <1>2, <1>3
<1> QED BY <1>4 DEF PrefixClosed

\* Below a path, all or nothing.
LEMMA ParentPathTrans ==
  ASSUME NEW T, NEW p \in Seq(T), p # <<>>, NEW x \in Seq(T), NEW k \in 1..Len(x),
         IsParentPath(p, SubSeq(x, 1, k))
  PROVE  IsParentPath(p, x)
<1>1. PICK s : s = SubSeq(x, 1, k)
  OBVIOUS
<1>2. s \in Seq(T) /\ Len(s) = k /\ \A i \in 1..k : s[i] = x[i]
  BY <1>1, PrefixFacts
<1>3. Len(p) \in Nat /\ Len(x) \in Nat
  BY LenProperties
<1>4. Len(p) <= Len(s) /\ \A i \in 1..Len(p) : s[i] = p[i]
  <2>1. s \in Seq(T) /\ IsParentPath(p, s)
    BY <1>1, <1>2
  <2> QED BY <2>1, ParentPathMeans
<1>5. Len(p) <= Len(x) /\ \A i \in 1..Len(p) : x[i] = p[i]
  BY <1>2, <1>3, <1>4
<1> QED BY <1>5, ParentPathMeans

LEMMA DropClosed ==
  ASSUME NEW T, NEW S \in SUBSET Seq(T), PrefixClosed(S), NEW p \in Seq(T), p # <<>>
  PROVE  PrefixClosed({x \in S : ~IsParentPath(p, x)})
<1>1. ASSUME NEW x \in S, ~IsParentPath(p, x), NEW k \in 1..Len(x)
      PROVE  SubSeq(x, 1, k) \in S /\ ~IsParentPath(p, SubSeq(x, 1, k))
  BY <1>1, ParentPathTrans DEF PrefixClosed
<1> QED BY <1>1 DEF PrefixClosed

LEMMA SelfParent ==
  ASSUME NEW T, NEW p \in Seq(T)
  PROVE  IsParentPath(p, p)
<1>1. Len(p) \in Nat
  BY LenProperties
<1> QED BY <1>1, SubSeqFull DEF IsParentPath
----------------------------------------------------------------------------
\* Inodes and descriptors are numbers below the next one, and what is above a directory is one.
InodesOk == fs \in [DOMAIN fs -> Nat] /\ nextIno \in Nat
DirsOk == DOMAIN fs \subseteq Paths /\ PrefixClosed(DOMAIN fs)
MarksOld == nextWd \in Nat /\ \A i \in DOMAIN kwd : kwd[i] < nextWd
TreeOk == InodesOk /\ DirsOk /\ MarksOld

LEMMA PathNames ==
  ASSUME NEW p \in Paths
  PROVE  /\ p \in Seq(Names) /\ p # <<>> /\ Len(p) \in Nat \ {0} /\ DOMAIN p = 1..Len(p)
         /\ p = SubSeq(p, 1, Len(p)) /\ IsParentPath(p, p) /\ NameOf(p) \in Names
<1>1. p \in Seq(Names) /\ p # <<>>
  BY NamesAssumption
<1> QED BY <1>1, EmptySeq, LenProperties, SubSeqFull, SelfParent DEF Names

\* rename: the path that x, below p, gets below q, and the way back.
MovedTo(p, q, x) == q \o SubSeq(x, Len(p) + 1, Len(x))
Renamed(p, q, x, y) ==
  /\ Len(y) = Len(q) + Len(x) - Len(p)
  /\ \A i \in 1..Len(q) : y[i] = q[i]
  /\ \A i \in Len(q) + 1..Len(q) + Len(x) - Len(p) : y[i] = x[i - Len(q) + Len(p)]

LEMMA MovedFacts ==
  ASSUME NEW T, NEW p \in Seq(T), p # <<>>, NEW q \in Seq(T), NEW x \in Seq(T), IsParentPath(p, x)
  PROVE  MovedTo(p, q, x) \in Seq(T) /\ Renamed(p, q, x, MovedTo(p, q, x))
<1>1. PICK m, n, l : m = Len(p) /\ n = Len(x) /\ l = Len(q)
  OBVIOUS
<1>2. m \in Nat \ {0} /\ n \in Nat /\ l \in Nat /\ m <= n
  BY <1>1, LenProperties, EmptySeq DEF IsParentPath
<1>3. \A i \in m + 1..n : x[i] \in T
  <2>1. \A i \in m + 1..n : i \in 1..Len(x)
    BY <1>1, <1>2
  <2> QED BY <2>1, ElementOfSeq
<1>4. PICK s : s = SubSeq(x, m + 1, n)
  OBVIOUS
<1>5. s \in Seq(T) /\ Len(s) = n - m /\ \A i \in 1..n - m : s[i] = x[i + m]
  <2>1. m + 1 \in Int /\ n \in Int
    BY <1>2
  <2>2. /\ s \in Seq(T) /\ Len(s) = IF m + 1 <= n THEN n - (m + 1) + 1 ELSE 0
        /\ \A i \in 1..(n - (m + 1) + 1) : s[i] = x[m + 1 + i - 1]
    BY <1>3, <1>4, <2>1, SubSeqProperties
  <2>3. n - (m + 1) + 1 = n - m /\ \A i \in 1..n - m : m + 1 + i - 1 = i + m
    BY <1>2
  <2>4. ~(m + 1 <= n) => n - m = 0
    BY <1>2
  <2> QED BY <2>2, <2>3, <2>4
<1>0. /\ q \o s \in Seq(T) /\ Len(q \o s) = Len(q) + Len(s)
      /\ \A i \in 1..Len(q) + Len(s) : (q \o s)[i] = IF i <= Len(q) THEN q[i] ELSE s[i - Len(q)]
  BY <1>5, ConcatProperties
<1>6. PICK y : y = q \o s
  OBVIOUS
<1>7. /\ y \in Seq(T) /\ Len(y) = l + (n - m)
      /\ \A i \in 1..l + (n - m) : y[i] = IF i <= l THEN q[i] ELSE s[i - l]
  BY <1>0, <1>1, <1>5, <1>6
<1>8. \A i \in 1..l : y[i] = q[i]
  BY <1>2, <1>7
<1>9. ASSUME NEW i \in l + 1..l + n - m PROVE y[i] = x[i - l + m]
  <2>1. i \in 1..l + (n - m) /\ ~(i <= l) /\ i - l \in 1..n - m
    BY <1>2
  <2>2. y[i] = s[i - l]
    BY <1>7, <2>1
  <2>3. s[i - l] = x[i - l + m]
    BY <1>5, <2>1
  <2> QED BY <2>2, <2>3
<1>10. l + (n - m) = l + n - m
  BY <1>2
<1>11. y = MovedTo(p, q, x)
  BY <1>1, <1>4, <1>6 DEF MovedTo
<1>12. Len(y) = l + n - m /\ \A i \in l + 1..l + n - m : y[i] = x[i - l + m]
  BY <1>7, <1>9, <1>10
<1>13. Renamed(p, q, x, y)
  BY <1>1, <1>8, <1>12 DEF Renamed
<1> QED BY <1>7, <1>11, <1>13

LEMMA MovedBack ==
  ASSUME NEW T, NEW p \in Seq(T), p # <<>>, NEW q \in Seq(T), q # <<>>, NEW x \in Seq(T),
         IsParentPath(p, x)
  PROVE  /\ IsParentPath(q, MovedTo(p, q, x))
         /\ MovedTo(q, p, MovedTo(p, q, x)) = x
<1>1. PICK m, n, l : m = Len(p) /\ n = Len(x) /\ l = Len(q)
  OBVIOUS
<1>2. m \in Nat \ {0} /\ n \in Nat /\ l \in Nat \ {0} /\ m <= n
  BY <1>1, LenProperties, EmptySeq DEF IsParentPath
<1>3. PICK y \in Seq(T) : y = MovedTo(p, q, x) /\ Renamed(p, q, x, y)
  BY MovedFacts
<1>4. /\ Len(y) = l + n - m /\ \A i \in 1..l : y[i] = q[i]
      /\ \A i \in l + 1..l + n - m : y[i] = x[i - l + m]
  BY <1>1, <1>3 DEF Renamed
<1>5. IsParentPath(q, y)
  <2>1. Len(q) <= Len(y)
    BY <1>1, <1>2, <1>4
  <2> QED BY <1>1, <1>4, <2>1, ParentPathMeans
<1>6. PICK z \in Seq(T) : z = MovedTo(q, p, y) /\ Renamed(q, p, y, z)
  BY <1>5, MovedFacts
<1>7. /\ Len(z) = m + (l + n - m) - l /\ \A i \in 1..m : z[i] = p[i]
      /\ \A i \in m + 1..m + (l + n - m) - l : z[i] = y[i - m + l]
  BY <1>1, <1>4, <1>6 DEF Renamed
<1>8. m + (l + n - m) - l = n
  BY <1>2
<1>9. ASSUME NEW i \in 1..n PROVE z[i] = x[i]
  <2>1. CASE i \in 1..m
    BY <1>1, <1>7, <2>1, ParentPathMeans
  <2>2. CASE i \notin 1..m
    <3>1. i \in m + 1..n /\ i - m + l \in l + 1..l + n - m /\ (i - m + l) - l + m = i
      BY <1>2, <2>2
    <3>2. z[i] = y[i - m + l]
      BY <1>7, <1>8, <3>1
    <3>3. PICK j : j = i - m + l
      OBVIOUS
    <3>4. y[j] = x[j - l + m]
      BY <1>4, <3>1, <3>3
    <3> QED BY <3>1, <3>2, <3>3, <3>4
  <2> QED BY <2>1, <2>2
<1>10. z = x
  BY <1>1, <1>7, <1>8, <1>9, SeqEqual
<1> QED BY <1>3, <1>5, <1>6, <1>10

\* What is above a renamed directory: what is above the new place, or what was renamed with it.
LEMMA AboveMoved ==
  ASSUME NEW T, NEW p \in Seq(T), p # <<>>, NEW q \in Seq(T), q # <<>>, NEW x \in Seq(T),
         IsParentPath(p, x), NEW k \in 1..Len(MovedTo(p, q, x))
  PROVE  \/ k \in 1..Len(q) - 1 /\ SubSeq(MovedTo(p, q, x), 1, k) = SubSeq(q, 1, k)
         \/ \E j \in 1..Len(x) : /\ IsParentPath(p, SubSeq(x, 1, j))
                                 /\ SubSeq(MovedTo(p, q, x), 1, k) = MovedTo(p, q, SubSeq(x, 1, j))
<1>1. PICK m, n, l : m = Len(p) /\ n = Len(x) /\ l = Len(q)
  OBVIOUS
<1>2. m \in Nat \ {0} /\ n \in Nat /\ l \in Nat \ {0} /\ m <= n
  BY <1>1, LenProperties, EmptySeq DEF IsParentPath
<1>3. PICK y \in Seq(T) : y = MovedTo(p, q, x) /\ Renamed(p, q, x, y)
  BY MovedFacts
<1>4. /\ Len(y) = l + n - m /\ \A i \in 1..l : y[i] = q[i]
      /\ \A i \in l + 1..l + n - m : y[i] = x[i - l + m]
  BY <1>1, <1>3 DEF Renamed
<1>5. k \in 1..Len(y) /\ k \in 1..l + n - m
  BY <1>3, <1>4
<1>6. PICK s : s = SubSeq(y, 1, k)
  OBVIOUS
<1>7. s \in Seq(T) /\ Len(s) = k /\ \A i \in 1..k : s[i] = y[i]
  BY <1>4, <1>5, <1>6, PrefixFacts
<1>8. CASE k < l
  <2>1. k \in 1..Len(q) /\ k \in 1..Len(q) - 1 /\ \A i \in 1..k : i \in 1..l
    BY <1>1, <1>2, <1>5, <1>8
  <2>2. PICK r : r = SubSeq(q, 1, k)
    OBVIOUS
  <2>3. r \in Seq(T) /\ Len(r) = k /\ \A i \in 1..k : r[i] = q[i]
    BY <2>1, <2>2, PrefixFacts
  <2>4. s = r
    BY <1>4, <1>7, <2>1, <2>3, SeqEqual
  <2> QED BY <1>3, <1>6, <2>1, <2>2, <2>4
<1>9. CASE k >= l
  <2>1. PICK j : j = k - l + m
    OBVIOUS
  <2>2. j \in 1..n /\ m <= j /\ l + j - m = k
    BY <1>2, <1>5, <1>9, <2>1
  <2>3. PICK r : r = SubSeq(x, 1, j)
    OBVIOUS
  <2>4. r \in Seq(T) /\ Len(r) = j /\ \A i \in 1..j : r[i] = x[i]
    BY <1>1, <2>2, <2>3, PrefixFacts
  <2>5. \A i \in 1..m : x[i] = p[i]
    BY <1>1, ParentPathMeans
  <2>6. IsParentPath(p, r)
    <3>1. Len(p) <= Len(r) /\ \A i \in 1..Len(p) : r[i] = p[i]
      BY <1>1, <1>2, <2>2, <2>4, <2>5
    <3> QED BY <2>4, <3>1, ParentPathMeans
  <2>7. PICK z \in Seq(T) : z = MovedTo(p, q, r) /\ Renamed(p, q, r, z)
    BY <2>4, <2>6, MovedFacts
  <2>8. /\ Len(z) = k /\ \A i \in 1..l : z[i] = q[i]
        /\ \A i \in l + 1..k : z[i] = r[i - l + m]
    BY <1>1, <2>2, <2>4, <2>7 DEF Renamed
  <2>9. ASSUME NEW i \in 1..k PROVE s[i] = z[i]
    <3>1. CASE i \in 1..l
      BY <1>4, <1>7, <2>8, <3>1
    <3>2. CASE i \notin 1..l
      <4>1. i \in l + 1..k /\ i \in l + 1..l + n - m /\ i - l + m \in 1..j
        BY <1>2, <1>5, <2>1, <2>2, <3>2
      <4>2. z[i] = r[i - l + m] /\ r[i - l + m] = x[i - l + m]
        BY <2>4, <2>8, <4>1
      <4>3. s[i] = y[i] /\ y[i] = x[i - l + m]
        BY <1>4, <1>7, <4>1
      <4> QED BY <4>2, <4>3
    <3> QED BY <3>1, <3>2
  <2>10. s = z
    BY <1>7, <2>8, <2>9, SeqEqual
  <2> QED BY <1>1, <1>3, <1>6, <2>2, <2>3, <2>6, <2>7, <2>10
<1>10. k < l \/ k >= l
  BY <1>2, <1>5
<1> QED BY <1>8, <1>9, <1>10
----------------------------------------------------------------------------
LEMMA InitInodesFacts ==
  /\ Cardinality(InitDirs) \in Nat /\ InitInodes \in [InitDirs -> 1..Cardinality(InitDirs)]
  /\ \A p, q \in InitDirs : p # q => InitInodes[p] # InitInodes[q]
<1>1. IsFiniteSet(InitDirs)
  BY PathsAssumption, InitDirsAssumption, FS_Subset
<1>2. PICK n \in Nat : n = Cardinality(InitDirs)
  BY <1>1, FS_CardinalityType
<1>3. \E f \in [InitDirs -> 1..n] : \A p, q \in InitDirs : p # q => f[p] # f[q]
  <2>1. ExistsBijection(1..n, InitDirs)
    BY <1>1, <1>2, FS_CardinalityType
  <2>2. PICK g \in Bijection(1..n, InitDirs) : TRUE
    BY <2>1 DEF ExistsBijection
  <2>3. g \in [1..n -> InitDirs] /\ \A p \in InitDirs : \E i \in 1..n : g[i] = p
    BY <2>2, Fun_BijectionProperties
  <2> DEFINE f == [p \in InitDirs |-> CHOOSE i \in 1..n : g[i] = p]
  <2>4. \A p \in InitDirs : f[p] \in 1..n /\ g[f[p]] = p
    BY <2>3
  <2>5. f \in [InitDirs -> 1..n]
    BY <2>4
  <2>6. \A p, q \in InitDirs : p # q => f[p] # f[q]
    BY <2>4
  <2> HIDE DEF f
  <2> QED BY <2>5, <2>6
<1> QED BY <1>2, <1>3 DEF InitInodes

LEMMA TreeOkInit == FileTreeInit => TreeOk
<1> SUFFICES ASSUME FileTreeInit PROVE TreeOk
  OBVIOUS
<1>1. PICK n \in Nat : n = Cardinality(InitDirs) /\ InitInodes \in [InitDirs -> 1..n]
  BY InitInodesFacts
<1>2. InodesOk
  <2>1. DOMAIN fs = InitDirs /\ \A p \in InitDirs : fs[p] \in 1..n
    BY <1>1 DEF FileTreeInit
  <2>2. fs = [p \in DOMAIN fs |-> fs[p]] /\ \A p \in DOMAIN fs : fs[p] \in Nat
    BY <2>1 DEF FileTreeInit
  <2>3. nextIno \in Nat
    BY <1>1 DEF FileTreeInit
  <2> QED BY <2>2, <2>3 DEF InodesOk
<1> QED BY <1>2, InitDirsAssumption DEF FileTreeInit, TreeOk, DirsOk, MarksOld

\* Marks that are dropped, or left as they are.
LEMMA FewerMarks ==
  ASSUME MarksOld, nextWd' = nextWd, NEW D \in SUBSET DOMAIN kwd, kwd' = [i \in D |-> kwd[i]]
  PROVE  MarksOld'
  BY DEF MarksOld

LEMMA MkDirTree ==
  ASSUME TreeOk, NEW p \in Paths, MkDir(p)
  PROVE  TreeOk'
<1>1. /\ fs' = [q \in DOMAIN fs \cup {p} |-> IF q = p THEN nextIno ELSE fs[q]]
      /\ nextIno' = nextIno + 1 /\ UNCHANGED <<kwd, nextWd>> /\ CanCreate(p)
  BY DEF MkDir
<1>2. InodesOk'
  <2>1. DOMAIN fs' = DOMAIN fs \cup {p} /\ \A q \in DOMAIN fs' : fs'[q] \in Nat
    BY <1>1 DEF TreeOk, InodesOk
  <2>2. fs' = [q \in DOMAIN fs' |-> fs'[q]]
    BY <1>1
  <2>3. nextIno' \in Nat
    BY <1>1 DEF TreeOk, InodesOk
  <2> QED BY <2>1, <2>2, <2>3 DEF InodesOk
<1>3. DirsOk'
  <2>1. DOMAIN fs \in SUBSET Seq(Names) /\ p \in Seq(Names) /\ PrefixClosed(DOMAIN fs)
    BY NamesAssumption DEF TreeOk, DirsOk
  <2>2. Len(p) = 1 \/ ParentOf(p) \in DOMAIN fs
    BY <1>1 DEF CanCreate
  <2>3. PrefixClosed(DOMAIN fs \cup {p})
    BY <2>1, <2>2, GrowClosed
  <2> QED BY <1>1, <2>3 DEF TreeOk, DirsOk
<1>4. MarksOld'
  BY <1>1 DEF TreeOk, MarksOld
<1> QED BY <1>2, <1>3, <1>4 DEF TreeOk

LEMMA RmDirTree ==
  ASSUME TreeOk, NEW p \in Paths, RmDir(p)
  PROVE  TreeOk'
<1>1. /\ fs' = [q \in DOMAIN fs \ {p} |-> fs[q]] /\ DirsBelow(p) = {}
      /\ kwd' = [i \in DOMAIN kwd \ {fs[p]} |-> kwd[i]] /\ UNCHANGED <<nextIno, nextWd>>
  BY DEF RmDir
<1>2. InodesOk'
  BY <1>1 DEF TreeOk, InodesOk
<1>3. DirsOk'
  <2>1. DOMAIN fs \in SUBSET Seq(Names) /\ PrefixClosed(DOMAIN fs) /\ DOMAIN fs \subseteq Paths
    BY NamesAssumption DEF TreeOk, DirsOk
  <2>2. {x \in DOMAIN fs : ~IsParentPath(p, x)} = DOMAIN fs \ {p}
    BY <1>1, PathNames DEF DirsBelow
  <2>3. PrefixClosed({x \in DOMAIN fs : ~IsParentPath(p, x)})
    BY <2>1, PathNames, DropClosed
  <2> QED BY <1>1, <2>1, <2>2, <2>3 DEF DirsOk
<1>4. MarksOld'
  <2>1. DOMAIN kwd \ {fs[p]} \in SUBSET DOMAIN kwd
    OBVIOUS
  <2> QED BY <1>1, <2>1, FewerMarks DEF TreeOk
<1> QED BY <1>2, <1>3, <1>4 DEF TreeOk

\* The directories after a rename: those outside what was renamed, and that at its new place.
LEMMA MoveTree ==
  ASSUME TreeOk, NEW p \in Paths, NEW q \in Paths, Move(p, q)
  PROVE  TreeOk'
<1> DEFINE moved == {x \in DOMAIN fs : IsParentPath(p, x)}
           there == {MovedTo(p, q, x) : x \in moved}
<1>1. /\ p \in DOMAIN fs /\ ~IsParentPath(p, q) /\ ~IsParentPath(q, p)
      /\ CanCreate(q) \/ (q \in DOMAIN fs /\ DirsBelow(q) = {})
      /\ there \subseteq Paths
      /\ fs' = [y \in (DOMAIN fs \ moved) \cup there |->
                  IF IsParentPath(q, y) THEN fs[MovedTo(q, p, y)] ELSE fs[y]]
      /\ UNCHANGED <<nextIno, nextWd>>
  BY DEF Move, MovedTo
<1>2. \E D \in SUBSET DOMAIN kwd : kwd' = [i \in D |-> kwd[i]]
  BY DEF Move
<1>3. DOMAIN fs \in SUBSET Seq(Names) /\ PrefixClosed(DOMAIN fs) /\ DOMAIN fs \subseteq Paths
  BY NamesAssumption DEF TreeOk, DirsOk
<1>4. p \in Seq(Names) /\ p # <<>> /\ q \in Seq(Names) /\ q # <<>>
  BY PathNames
<1>5. \A x \in moved : IsParentPath(q, MovedTo(p, q, x)) /\ MovedTo(q, p, MovedTo(p, q, x)) = x
  BY <1>3, <1>4, MovedBack
<1>6. \A y \in DOMAIN fs : IsParentPath(q, y) => y = q
  <2>1. ASSUME NEW y \in DOMAIN fs, IsParentPath(q, y), y # q PROVE FALSE
    <3>1. CASE q \in DOMAIN fs
      BY <1>1, <2>1, <3>1 DEF DirsBelow, CanCreate
    <3>2. CASE q \notin DOMAIN fs
      <4>1. SubSeq(y, 1, Len(q)) = q /\ Len(q) <= Len(y)
        BY <2>1 DEF IsParentPath
      <4>2. Len(q) \in Nat \ {0} /\ Len(y) \in Nat
        BY <1>3, PathNames
      <4>3. Len(q) \in 1..Len(y)
        BY <4>1, <4>2
      <4>4. SubSeq(y, 1, Len(q)) \in DOMAIN fs
        BY <1>3, <4>3 DEF PrefixClosed
      <4> QED BY <3>2, <4>1, <4>4
    <3> QED BY <3>1, <3>2
  <2> QED BY <2>1
<1>7. p \in moved /\ MovedTo(p, q, p) = q
  <2>1. p \in moved
    BY <1>1, PathNames
  <2>2. SubSeq(p, Len(p) + 1, Len(p)) = <<>>
    BY PathNames, SubSeqEmpty
  <2>3. q \o <<>> = q
    BY <1>4, ConcatEmptySeq
  <2> QED BY <2>1, <2>2, <2>3 DEF MovedTo
<1>8. InodesOk'
  <2>1. ASSUME NEW y \in DOMAIN fs' PROVE fs'[y] \in Nat
    <3>1. CASE IsParentPath(q, y)
      <4>1. y \in there
        <5>1. CASE y \in DOMAIN fs
          BY <1>6, <1>7, <3>1, <5>1
        <5>2. CASE y \notin DOMAIN fs
          BY <1>1, <2>1, <5>2
        <5> QED BY <5>1, <5>2
      <4>2. PICK x \in moved : y = MovedTo(p, q, x)
        BY <4>1
      <4>3. fs'[y] = fs[MovedTo(q, p, y)]
        BY <1>1, <2>1, <3>1
      <4>4. fs'[y] = fs[x] /\ x \in DOMAIN fs
        BY <1>5, <4>2, <4>3
      <4> QED BY <4>4 DEF TreeOk, InodesOk
    <3>2. CASE ~IsParentPath(q, y)
      <4>1. fs'[y] = fs[y]
        BY <1>1, <2>1, <3>2
      <4>2. y \in DOMAIN fs
        BY <1>1, <1>5, <2>1, <3>2
      <4> QED BY <4>1, <4>2 DEF TreeOk, InodesOk
    <3> QED BY <3>1, <3>2
  <2>2. fs' = [y \in DOMAIN fs' |-> fs'[y]]
    BY <1>1
  <2>3. nextIno' \in Nat
    BY <1>1 DEF TreeOk, InodesOk
  <2> QED BY <2>1, <2>2, <2>3 DEF InodesOk
<1>9. DirsOk'
  <2>1. DOMAIN fs' = (DOMAIN fs \ moved) \cup there
    BY <1>1
  <2>2. PrefixClosed({x \in DOMAIN fs : ~IsParentPath(p, x)})
    BY <1>3, <1>4, DropClosed
  <2>3. {x \in DOMAIN fs : ~IsParentPath(p, x)} = DOMAIN fs \ moved
    OBVIOUS
  <2>4. ASSUME NEW k \in 1..Len(q) - 1 PROVE SubSeq(q, 1, k) \in DOMAIN fs \ moved
    <3>1. q \in DOMAIN fs \/ Len(q) = 1 \/ ParentOf(q) \in DOMAIN fs
      BY <1>1 DEF CanCreate
    <3>2. SubSeq(q, 1, k) \in DOMAIN fs
      BY <1>3, <1>4, <3>1, AboveIsThere
    <3>3. k \in 1..Len(q)
      <4>1. PICK n \in Nat : n = Len(q)
        BY PathNames
      <4> QED BY <4>1
    <3>4. ~IsParentPath(p, SubSeq(q, 1, k))
      BY <1>1, <1>4, <3>3, ParentPathTrans
    <3> QED BY <3>2, <3>4
  <2>5. ASSUME NEW x \in moved, NEW k \in 1..Len(MovedTo(p, q, x))
        PROVE  SubSeq(MovedTo(p, q, x), 1, k) \in (DOMAIN fs \ moved) \cup there
    <3>1. x \in Seq(Names) /\ IsParentPath(p, x) /\ x \in DOMAIN fs
      BY <1>3
    <3>2. CASE k \in 1..Len(q) - 1 /\ SubSeq(MovedTo(p, q, x), 1, k) = SubSeq(q, 1, k)
      BY <2>4, <3>2
    <3>3. CASE \E j \in 1..Len(x) : /\ IsParentPath(p, SubSeq(x, 1, j))
                                    /\ SubSeq(MovedTo(p, q, x), 1, k) = MovedTo(p, q, SubSeq(x, 1, j))
      <4>1. PICK j \in 1..Len(x) : /\ IsParentPath(p, SubSeq(x, 1, j))
                                   /\ SubSeq(MovedTo(p, q, x), 1, k) = MovedTo(p, q, SubSeq(x, 1, j))
        BY <3>3
      <4>2. SubSeq(x, 1, j) \in DOMAIN fs
        BY <1>3, <3>1 DEF PrefixClosed
      <4> QED BY <4>1, <4>2
    <3> QED BY <1>4, <3>1, <3>2, <3>3, AboveMoved
  <2>6. ASSUME NEW y \in DOMAIN fs', NEW k \in 1..Len(y) PROVE SubSeq(y, 1, k) \in DOMAIN fs'
    <3>1. CASE y \in DOMAIN fs \ moved
      <4>1. SubSeq(y, 1, k) \in DOMAIN fs \ moved
        <5> HIDE DEF moved
        <5> QED BY <2>2, <2>3, <3>1 DEF PrefixClosed
      <4> QED BY <2>1, <4>1
    <3>2. CASE y \in there
      <4>1. PICK x \in moved : y = MovedTo(p, q, x)
        BY <3>2
      <4>2. SubSeq(y, 1, k) \in (DOMAIN fs \ moved) \cup there
        BY <2>5, <4>1
      <4> QED BY <2>1, <4>2
    <3> QED BY <2>1, <3>1, <3>2
  <2>7. DOMAIN fs' \subseteq Paths
    BY <1>1, <1>3, <2>1
  <2> QED BY <2>6, <2>7 DEF DirsOk, PrefixClosed
<1>10. MarksOld'
  BY <1>1, <1>2, FewerMarks DEF TreeOk
<1> QED BY <1>8, <1>9, <1>10 DEF TreeOk

LEMMA UnmountTree ==
  ASSUME TreeOk, NEW d \in Disks, NEW busy, Unmount(d, busy)
  PROVE  TreeOk'
<1> DEFINE gone == {p \in DOMAIN fs : IsParentPath(d, p)}
<1>1. /\ fs' = [p \in (DOMAIN fs \ gone) \cup {d} |-> IF p = d THEN nextIno ELSE fs[p]]
      /\ nextIno' = nextIno + 1 /\ UNCHANGED nextWd
  BY DEF Unmount
<1>2. \E D \in SUBSET DOMAIN kwd : kwd' = [i \in D |-> kwd[i]]
  BY DEF Unmount
<1>3. d \in Paths /\ Len(d) = 1
  BY DisksAssumption, InitDirsAssumption
<1>4. InodesOk'
  <2>1. \A p \in DOMAIN fs' : fs'[p] \in Nat
    BY <1>1 DEF TreeOk, InodesOk
  <2>2. fs' = [p \in DOMAIN fs' |-> fs'[p]]
    BY <1>1
  <2>3. nextIno' \in Nat
    BY <1>1 DEF TreeOk, InodesOk
  <2> QED BY <2>1, <2>2, <2>3 DEF InodesOk
<1>5. DirsOk'
  <2>1. DOMAIN fs \in SUBSET Seq(Names) /\ PrefixClosed(DOMAIN fs) /\ DOMAIN fs \subseteq Paths
    BY NamesAssumption DEF TreeOk, DirsOk
  <2> DEFINE S == {x \in DOMAIN fs : ~IsParentPath(d, x)}
  <2>2. PrefixClosed(S) /\ S \in SUBSET Seq(Names) /\ d \in Seq(Names)
    BY <1>3, <2>1, PathNames, DropClosed
  <2>3. DOMAIN fs' = S \cup {d}
    BY <1>1
  <2>4. S \subseteq Paths
    BY <2>1
  <2> HIDE DEF S
  <2>5. PrefixClosed(S \cup {d})
    BY <1>3, <2>2, GrowClosed
  <2> QED BY <1>3, <2>3, <2>4, <2>5 DEF DirsOk
<1>6. MarksOld'
  BY <1>1, <1>2, FewerMarks DEF TreeOk
<1> QED BY <1>4, <1>5, <1>6 DEF TreeOk

\* mkdir, rmdir, rename and umount.
LEMMA TreeSteps ==
  ASSUME TreeOk, NEW busy, FileTreeNext(busy)
  PROVE  TreeOk'
  BY MkDirTree, RmDirTree, MoveTree, UnmountTree DEF FileTreeNext
----------------------------------------------------------------------------
\* What a frame holds besides its ids, and what main_loop holds.
FrameData(f) ==
  f.path \in Seq(Names) /\ f.dir \in Nat /\ f.names \subseteq Names /\ f.met \in Wds \cup {Nil}
FramesOk == \A i \in DOMAIN stack : FrameData(stack[i])
PathsIn(rs) == \A i \in DOMAIN rs : rs[i].path \in Paths
LoopOk ==
  /\ PathsIn(roots) /\ pending \in Seq(RootSpec)
  /\ task \in Tasks /\ out \subseteq Seq(Names) /\ unwatchable \subseteq Paths
Registering == task = "register" /\ stack # <<>> => pending # <<>>
TypeInv == TreeOk /\ FramesOk /\ LoopOk /\ Registering

\* The kernel's part of a step of the notifier: marks are dropped, or one is made.
LEMMA KeptMarks == TreeOk /\ UNCHANGED <<kwd, nextWd>> => MarksOld'
  BY DEF TreeOk, MarksOld

LEMMA RmWatchesKernel ==
  ASSUME NEW marks, NEW ids, RmWatchesFrom(marks, ids), nextWd' \in Nat,
         \A i \in DOMAIN marks : marks[i] < nextWd'
  PROVE  MarksOld'
<1>1. DOMAIN kwd' \subseteq DOMAIN marks /\ \A i \in DOMAIN kwd' : kwd'[i] = marks[i]
  BY DEF RmWatchesFrom, InotifyRmWatches
<1> QED BY <1>1 DEF MarksOld

LEMMA SomeDropped ==
  ASSUME TreeOk, NEW ids, RmWatchesFrom(kwd, ids), UNCHANGED nextWd
  PROVE  MarksOld'
<1>1. PICK marks : marks = kwd
  OBVIOUS
<1>2. nextWd' \in Nat /\ \A i \in DOMAIN marks : marks[i] < nextWd'
  BY <1>1 DEF TreeOk, MarksOld
<1>3. RmWatchesFrom(marks, ids)
  BY <1>1
<1> QED BY <1>2, <1>3, RmWatchesKernel

\* The mark that is left without a node is as old as the others, or the newest.
LEMMA MarkedKernel ==
  ASSUME TreeOk, EventsOk, NEW wd, wd = AddWatchResult(Top.path),
         nextWd' = IF wd = nextWd THEN nextWd + 1 ELSE nextWd
  PROVE  /\ nextWd' \in Nat
         /\ \A i \in DOMAIN MarkedAs(wd) : MarkedAs(wd)[i] < nextWd'
<1>1. nextWd \in Nat /\ \A i \in DOMAIN kwd : kwd[i] \in Nat /\ kwd[i] < nextWd
  BY WdsAssumption DEF TreeOk, MarksOld, EventsOk
<1>2. nextWd' \in Nat /\ \A w \in Nat : w < nextWd => w < nextWd'
  BY <1>1
<1>3. wd = nextWd \/ \E i \in DOMAIN kwd : wd = kwd[i]
  BY DEF AddWatchResult
<1>4. wd < nextWd'
  BY <1>1, <1>2, <1>3
<1>5. \A i \in DOMAIN MarkedAs(wd) : MarkedAs(wd)[i] = wd \/ \E j \in DOMAIN kwd : MarkedAs(wd)[i] = kwd[j]
  BY DEF MarkedAs
<1> QED BY <1>1, <1>2, <1>4, <1>5

LEMMA AddWatchKernel ==
  ASSUME TreeOk, EventsOk, InotifyAddWatch(Top.path)
  PROVE  MarksOld'
<1>1. CASE UNCHANGED <<kwd, nextWd>>
  BY <1>1, KeptMarks
<1>2. CASE /\ kwd' = [i \in DOMAIN kwd \cup {InodeAt(Top.path)} |->
                       IF i = InodeAt(Top.path) THEN nextWd ELSE kwd[i]]
           /\ nextWd' = nextWd + 1
  <2>1. nextWd \in Nat /\ \A i \in DOMAIN kwd : kwd[i] < nextWd
    BY DEF TreeOk, MarksOld
  <2>2. PICK ino : ino = InodeAt(Top.path)
    OBVIOUS
  <2>3. \A i \in DOMAIN kwd' : kwd'[i] = IF i = ino THEN nextWd ELSE kwd[i]
    BY <1>2, <2>2
  <2>4. DOMAIN kwd' = DOMAIN kwd \cup {ino}
    BY <1>2, <2>2
  <2>5. ASSUME NEW i \in DOMAIN kwd' PROVE kwd'[i] < nextWd'
    <3>1. CASE i = ino
      <4>1. kwd'[i] = nextWd
        BY <2>3, <3>1
      <4> QED BY <1>2, <2>1, <4>1
    <3>2. CASE i # ino
      <4>1. kwd'[i] = kwd[i] /\ i \in DOMAIN kwd
        BY <2>3, <2>4, <3>2
      <4>2. kwd[i] \in Nat
        BY <4>1, WdsAssumption DEF EventsOk
      <4> QED BY <1>2, <2>1, <4>1, <4>2
    <3> QED BY <3>1, <3>2
  <2> QED BY <1>2, <2>1, <2>5 DEF MarksOld
<1> QED BY <1>1, <1>2 DEF InotifyAddWatch

\* The directories, as the notifier's own steps leave them.
LEMMA NotifierTree ==
  ASSUME FsInv, TreeOk, [FsNext]_vars
  PROVE  TreeOk'
<1>0. EventsOk
  BY DEF FsInv
<1>1. CASE Others
  BY <1>1, TreeSteps DEF Others
<1>2. ASSUME UNCHANGED <<fs, nextIno>>, MarksOld' PROVE TreeOk'
  BY <1>2 DEF TreeOk, InodesOk, DirsOk
<1>3. ASSUME NEW v, Return(v) PROVE MarksOld'
  BY <1>3, SomeDropped DEF Return, ReturnFrom, ReturnTo
<1>4. CASE WalkTree
  <2>1. UNCHANGED <<fs, nextIno>>
    BY <1>4 DEF WalkTree, OpenDir, AddWatch, ComparePaths, ReadDir, WalkEntry, WalkEnd, SameTree
  <2>2. ASSUME OpenDir PROVE MarksOld'
    BY <1>3, <2>2, KeptMarks DEF OpenDir, SameNodes
  <2>3. ASSUME ReadDir \/ WalkEntry PROVE MarksOld'
    BY <2>3, KeptMarks DEF ReadDir, WalkEntry, SameNodes
  <2>4. ASSUME WalkEnd \/ ComparePaths PROVE MarksOld'
    BY <1>3, <2>4 DEF WalkEnd, ComparePaths
  <2>5. ASSUME AddWatch PROVE MarksOld'
    <3>1. CASE AddWatchErrno
      BY <1>3, <3>1 DEF AddWatchErrno, AddWatchFails
    <3>2. ASSUME NEW wd, wd = AddWatchResult(Top.path), AddWatchTo(wd) PROVE MarksOld'
      <4>1. \/ UNCHANGED <<kwd, nextWd>> \/ InotifyAddWatch(Top.path)
            \/ /\ ReturnFrom(ERR_ABORT, MarkedAs(wd))
               /\ nextWd' = IF wd = nextWd THEN nextWd + 1 ELSE nextWd
        BY <3>2, ZenonT(60) DEF AddWatchTo, SameNodes
      <4>2. CASE /\ ReturnFrom(ERR_ABORT, MarkedAs(wd))
                 /\ nextWd' = IF wd = nextWd THEN nextWd + 1 ELSE nextWd
        <5>1. /\ nextWd' \in Nat
              /\ \A i \in DOMAIN MarkedAs(wd) : MarkedAs(wd)[i] < nextWd'
          BY <1>0, <3>2, <4>2, MarkedKernel
        <5>2. \E ids : RmWatchesFrom(MarkedAs(wd), ids)
          BY <4>2 DEF ReturnFrom, ReturnTo
        <5>3. PICK marks : marks = MarkedAs(wd)
          OBVIOUS
        <5> QED BY <5>1, <5>2, <5>3, RmWatchesKernel
      <4> QED BY <1>0, <4>1, <4>2, KeptMarks, AddWatchKernel
    <3> QED BY <2>5, <3>1, <3>2 DEF AddWatch
  <2> QED BY <1>2, <1>4, <2>1, <2>2, <2>3, <2>4, <2>5 DEF WalkTree
<1>5. CASE \/ RegisterRoot \/ StatFails \/ RegisterDone \/ ReadEvents \/ DispatchDone \/ Timeout
           \/ CheckRoot \/ RestoreRoot \/ Quit
  <2>1. UNCHANGED <<fs, nextIno, kwd, nextWd>>
    BY <1>5 DEF RegisterRoot, StatFails, RegisterDone, ReadEvents, DispatchDone, Timeout, CheckRoot,
                RestoreRoot, Quit, SameTree, SameNodes
  <2> QED BY <1>2, <2>1, KeptMarks
<1>6. CASE Dispatch
  <2>1. UNCHANGED <<fs, nextIno, nextWd>>
    BY <1>6 DEF Dispatch, SameTree
  <2>2. UNCHANGED kwd \/ \E ids : RmWatches(ids)
    BY <1>6 DEF Dispatch, ProcessEvent, DropKid, CheckRootRemoval
  <2> QED BY <1>2, <2>1, <2>2, KeptMarks, SomeDropped DEF RmWatches
<1>7. CASE UpdateRoots
  <2>1. UNCHANGED <<fs, nextIno, nextWd>> /\ \E ids : RmWatches(ids)
    BY <1>7 DEF UpdateRoots, SameTree
  <2> QED BY <1>2, <2>1, SomeDropped DEF RmWatches
<1>8. CASE Shutdown
  <2>1. UNCHANGED <<fs, nextIno, nextWd>> /\ DOMAIN kwd' = {}
    BY <1>8 DEF Shutdown, ShutdownFreeing
  <2> QED BY <1>2, <2>1 DEF TreeOk, MarksOld
<1>9. CASE UNCHANGED vars
  <2>1. UNCHANGED <<fs, nextIno, kwd, nextWd>>
    BY <1>9 DEF vars, treeVars
  <2> QED BY <1>2, <2>1, KeptMarks
<1> QED BY <1>1, <1>4, <1>5, <1>6, <1>7, <1>8, <1>9 DEF FsNext, Watcher

----------------------------------------------------------------------------
\* How the stack of frames changes: a frame returns to its callers, the frame on top changes, or
\* another is put on it.
LEMMA ReturnFrames ==
  ASSUME FsInv, stack # <<>>, NEW v, NEW marks, ReturnFrom(v, marks)
  PROVE  DOMAIN stack' \subseteq DOMAIN stack /\ \A i \in DOMAIN stack' : stack'[i] = stack[i]
<1>1. CASE stack' = <<>>
  <2>1. DOMAIN <<>> = {}
    OBVIOUS
  <2> QED BY <1>1, <2>1
<1>2. CASE stack' = Callers
  <2>1. /\ Len(stack) \in Nat \ {0} /\ DOMAIN stack = 1..Len(stack)
        /\ DOMAIN Callers = 1..(Len(stack) - 1)
        /\ \A i \in 1..(Len(stack) - 1) : Callers[i] = stack[i]
    BY CallersSame
  <2> QED BY <1>2, <2>1
<1> QED BY <1>1, <1>2 DEF ReturnFrom, ReturnTo

LEMMA SetTopFrames ==
  ASSUME FsInv, stack # <<>>, NEW f, SetTop(f)
  PROVE  /\ DOMAIN stack' = DOMAIN stack /\ stack'[Len(stack)] = f /\ stack' # <<>>
         /\ \A i \in DOMAIN stack : i # Len(stack) => stack'[i] = stack[i]
<1>1. Len(stack) \in Nat \ {0} /\ DOMAIN stack = 1..Len(stack)
  BY CallersSame
<1>2. stack' = [stack EXCEPT ![Len(stack)] = f]
  BY DEF SetTop
<1>3. stack = [i \in DOMAIN stack |-> stack[i]]
  <2>1. stack \in Seq({stack[i] : i \in DOMAIN stack})
    BY DEF FsInv, StackOk, GoodStack
  <2> QED BY <2>1, <1>1, LenProperties
<1>4. /\ DOMAIN stack' = DOMAIN stack /\ stack'[Len(stack)] = f
      /\ \A i \in DOMAIN stack : i # Len(stack) => stack'[i] = stack[i]
  BY <1>1, <1>2, <1>3
<1>5. stack' # <<>>
  <2>1. DOMAIN <<>> = {}
    OBVIOUS
  <2> QED BY <1>1, <1>4, <2>1
<1> QED BY <1>4, <1>5

LEMMA PushFrames ==
  ASSUME FsInv, stack # <<>>, NEW f, NEW new,
         stack' = Append([stack EXCEPT ![Len(stack)] = f], new)
  PROVE  /\ Len(stack) \in Nat \ {0} /\ DOMAIN stack = 1..Len(stack)
         /\ DOMAIN stack' = 1..(Len(stack) + 1) /\ stack'[Len(stack)] = f
         /\ \A i \in DOMAIN stack : i # Len(stack) => stack'[i] = stack[i]
         /\ stack'[Len(stack) + 1] = new
<1>1. Len(stack) \in Nat \ {0} /\ DOMAIN stack = 1..Len(stack)
  BY CallersSame
<1> DEFINE F == {stack[i] : i \in DOMAIN stack} \cup {f}  rest == [stack EXCEPT ![Len(stack)] = f]
<1>2. stack \in Seq(F)
  BY SeqMonotonic DEF FsInv, StackOk, GoodStack
<1>3. /\ rest \in Seq(F) /\ Len(rest) = Len(stack)
      /\ \A j \in 1..Len(stack) : rest[j] = IF j = Len(stack) THEN f ELSE stack[j]
  BY <1>1, <1>2, ExceptSeq
<1> DEFINE G == F \cup {new}
<1>4. rest \in Seq(G)
  BY <1>3, SeqMonotonic
<1> HIDE DEF rest, F
<1>5. stack' = Append(rest, new)
  BY DEF rest
<1>12. new \in G
  OBVIOUS
<1> HIDE DEF G
<1>13. /\ Append(rest, new) \in Seq(G) /\ Len(Append(rest, new)) = Len(rest) + 1
       /\ \A j \in 1..Len(rest) : Append(rest, new)[j] = rest[j]
       /\ Append(rest, new)[Len(rest) + 1] = new
  BY <1>4, <1>12, AppendProperties
<1>6. /\ stack' \in Seq(G) /\ Len(stack') = Len(stack) + 1
      /\ \A j \in 1..Len(stack) : stack'[j] = rest[j]
      /\ stack'[Len(stack) + 1] = new
  BY <1>3, <1>5, <1>13
<1>7. DOMAIN stack' = 1..(Len(stack) + 1)
  BY <1>6, LenProperties
<1>8. \A j \in 1..Len(stack) : stack'[j] = IF j = Len(stack) THEN f ELSE stack[j]
  BY <1>3, <1>6
<1>9. Len(stack) \in 1..Len(stack)
  BY <1>1
<1>10. stack'[Len(stack)] = f
  BY <1>8, <1>9
<1>11. ASSUME NEW i \in DOMAIN stack, i # Len(stack) PROVE stack'[i] = stack[i]
  <2>1. i \in 1..Len(stack)
    BY <1>1
  <2> QED BY <1>8, <1>11, <2>1
<1> QED BY <1>1, <1>6, <1>7, <1>10, <1>11

----------------------------------------------------------------------------
\* Lists of roots keep to paths that can exist.
LEMMA AppendPath ==
  ASSUME NEW rs, GoodRoots(rs), PathsIn(rs), NEW r, r.path \in Paths
  PROVE  PathsIn(Append(rs, r))
<1> DEFINE F == {rs[i] : i \in DOMAIN rs} \cup {r}
<1>1. rs \in Seq(F) /\ r \in F
  BY SeqMonotonic DEF GoodRoots
<1>2. Len(rs) \in Nat /\ DOMAIN rs = 1..Len(rs)
  BY <1>1, LenProperties
<1> HIDE DEF F
<1>3. PICK new : new = Append(rs, r)
  OBVIOUS
<1>4. /\ new \in Seq(F) /\ Len(new) = Len(rs) + 1
      /\ \A j \in 1..Len(rs) : new[j] = rs[j]
      /\ new[Len(rs) + 1] = r
  BY <1>1, <1>3, AppendProperties
<1>5. DOMAIN new = 1..Len(rs) + 1
  BY <1>4, LenProperties
<1>6. \A i \in DOMAIN new : new[i].path \in Paths
  BY <1>2, <1>4, <1>5 DEF PathsIn
<1> QED BY <1>3, <1>6 DEF PathsIn

LEMMA SetIdPath ==
  ASSUME NEW r, IsRoot(r), NEW v
  PROVE  [r EXCEPT !.id = v].path = r.path
  BY DEF IsRoot

LEMMA FinishLoop ==
  ASSUME RootsOk, LoopOk, NEW v, Finish(v),
         \/ task = "register" /\ pending # <<>>
         \/ task = "event"
         \/ task \in {"restore", "restat"} /\ idx \in DOMAIN roots
  PROVE  LoopOk'
<1>1. /\ PathsIn(roots) /\ GoodRoots(roots) /\ pending \in Seq(RootSpec) /\ unwatchable \subseteq Paths
  BY DEF LoopOk, RootsOk
<1>2. CASE task = "register" /\ pending # <<>>
  <2>1. Head(pending) \in RootSpec /\ Tail(pending) \in Seq(RootSpec)
    BY <1>1, <1>2, HeadTailProperties
  <2>2. /\ \/ roots' = roots
           \/ roots' = Append(roots, [path |-> Head(pending).path, flat |-> Head(pending).flat, id |-> v])
        /\ pending' = Tail(pending) /\ task' \in {"giveup", "register"} /\ out' = {}
        /\ unwatchable' \subseteq unwatchable \cup {Head(pending).path} \cup Paths
    BY <1>2, MountsAssumption DEF Finish, Unwatchable, InnerMounts, Quiet
  <2>3. PICK r : r = [path |-> Head(pending).path, flat |-> Head(pending).flat, id |-> v]
    OBVIOUS
  <2>4. r.path \in Paths /\ Head(pending).path \in Paths
    BY <2>1, <2>3 DEF RootSpec
  <2>5. PathsIn(roots')
    BY <1>1, <2>2, <2>3, <2>4, AppendPath
  <2> QED BY <1>1, <2>1, <2>2, <2>4, <2>5 DEF LoopOk, Tasks
<1>3. CASE task = "event"
  <2>1. UNCHANGED <<roots, unwatchable, pending>> /\ task' \in {"giveup", "dispatch"} /\ out' = {}
    BY <1>3 DEF Finish, Quiet
  <2> QED BY <1>1, <2>1 DEF LoopOk, Tasks
<1>4. CASE task \in {"restore", "restat"} /\ idx \in DOMAIN roots
  <2>1. /\ roots' = [roots EXCEPT ![idx].id = v] /\ task' = "restore" /\ out' = {roots[idx].path}
        /\ UNCHANGED <<unwatchable, pending>>
    BY <1>4 DEF Finish, Report
  <2>2. DOMAIN roots' = DOMAIN roots /\ \A i \in DOMAIN roots : i # idx => roots'[i] = roots[i]
    BY <2>1
  <2>3. roots'[idx] = [roots[idx] EXCEPT !.id = v] /\ IsRoot(roots[idx])
    BY <1>1, <1>4, <2>1 DEF GoodRoots
  <2>4. roots'[idx].path = roots[idx].path
    BY <2>3, SetIdPath
  <2>5. PathsIn(roots')
    BY <1>1, <2>2, <2>4 DEF PathsIn
  <2>6. out' \subseteq Seq(Names)
    BY <1>1, <1>4, <2>1, NamesAssumption DEF PathsIn
  <2> QED BY <1>1, <2>1, <2>5, <2>6 DEF LoopOk, Tasks
<1> QED BY <1>2, <1>3, <1>4

\* The steps of walk_tree.
LEMMA TopTyped ==
  ASSUME FsInv, FramesOk, stack # <<>>
  PROVE  FrameData(Top)
<1>1. Len(stack) \in Nat \ {0} /\ DOMAIN stack = 1..Len(stack) /\ Top = stack[Len(stack)]
  BY CallersSame
<1>2. Len(stack) \in DOMAIN stack
  BY <1>1
<1> QED BY <1>1, <1>2 DEF FramesOk

LEMMA ReturnTypes ==
  ASSUME FsInv, LeakInv, TypeInv, stack # <<>>, NEW v, NEW marks, ReturnFrom(v, marks)
  PROVE  FramesOk' /\ LoopOk' /\ Registering'
<1>1. FramesOk'
  BY ReturnFrames DEF TypeInv, FramesOk
<1>2. CASE stack' = <<>>
  <2>1. Finish(v)
    BY <1>2 DEF ReturnFrom, ReturnTo
  <2>2. task \in {"register", "event", "restore"}
    BY DEF FsInv, WalksForATask
  <2>3. \/ task = "register" /\ pending # <<>>
        \/ task = "event"
        \/ task \in {"restore", "restat"} /\ idx \in DOMAIN roots
    BY <2>2 DEF TypeInv, Registering, LeakInv, Restoring
  <2>4. LoopOk'
    BY <2>1, <2>3, FinishLoop DEF TypeInv, LeakInv
  <2> QED BY <1>1, <1>2, <2>4 DEF Registering
<1>3. CASE stack' # <<>>
  <2>1. out' = {} /\ UNCHANGED <<roots, unwatchable, task, pending>>
    BY <1>3 DEF ReturnFrom, ReturnTo, Quiet, loopVars
  <2> QED BY <1>1, <2>1 DEF TypeInv, LoopOk, Registering
<1> QED BY <1>2, <1>3

LEMMA SetTopTypes ==
  ASSUME FsInv, TypeInv, stack # <<>>, NEW f, FrameData(f), SetTop(f), UNCHANGED loopVars, Quiet
  PROVE  FramesOk' /\ LoopOk' /\ Registering'
<1>1. FramesOk'
  BY SetTopFrames DEF TypeInv, FramesOk
<1>2. out' = {} /\ UNCHANGED <<roots, unwatchable, task, pending>>
  BY DEF Quiet, loopVars
<1> QED BY <1>1, <1>2 DEF TypeInv, LoopOk, Registering

LEMMA OpenDirTypes == FsInv /\ LeakInv /\ TypeInv /\ OpenDir => FramesOk' /\ LoopOk' /\ Registering'
<1> SUFFICES ASSUME FsInv, LeakInv, TypeInv, OpenDir PROVE FramesOk' /\ LoopOk' /\ Registering'
  OBVIOUS
<1>1. stack # <<>> /\ FrameData(Top)
  BY TopTyped DEF OpenDir, WalkStep, TypeInv
<1>2. ASSUME NEW v, NEW marks, ReturnFrom(v, marks) PROVE FramesOk' /\ LoopOk' /\ Registering'
  BY <1>1, <1>2, ReturnTypes
<1>3. ASSUME NEW d \in Nat, SetTop([Top EXCEPT !.at = "add", !.dir = d]), UNCHANGED loopVars, Quiet
      PROVE  FramesOk' /\ LoopOk' /\ Registering'
  <2> DEFINE f == [Top EXCEPT !.at = "add", !.dir = d]
  <2>1. f.path = Top.path /\ f.dir = d /\ f.names = Top.names /\ f.met = Top.met
    BY <1>1, TopFields
  <2>2. SetTop(f)
    BY <1>3
  <2> HIDE DEF f
  <2>3. FrameData(f)
    BY <1>1, <2>1 DEF FrameData
  <2> QED BY <1>1, <1>3, <2>2, <2>3, SetTopTypes
<1>4. \A d : d = (IF walk.recursive THEN InodeAt(Top.path) ELSE 0) /\ (walk.recursive => Exists(Top.path)) => d \in Nat
  <2>1. Exists(Top.path) => InodeAt(Top.path) \in Nat
    BY DEF Exists, InodeAt, TypeInv, TreeOk, InodesOk
  <2> QED BY <2>1
<1>5. \/ \E v : Return(v)
      \/ \E d : /\ d = (IF walk.recursive THEN InodeAt(Top.path) ELSE 0) /\ (walk.recursive => Exists(Top.path))
                /\ SetTop([Top EXCEPT !.at = "add", !.dir = d]) /\ UNCHANGED loopVars /\ Quiet
  BY DEF OpenDir
<1> QED BY <1>2, <1>3, <1>4, <1>5 DEF Return

LEMMA ReadDirTypes == FsInv /\ TypeInv /\ ReadDir => FramesOk' /\ LoopOk' /\ Registering'
<1> SUFFICES ASSUME FsInv, TypeInv, ReadDir PROVE FramesOk' /\ LoopOk' /\ Registering'
  OBVIOUS
<1> DEFINE f == [Top EXCEPT !.at = "scan", !.names = EntriesOf(Top.dir)]
<1>1. stack # <<>> /\ FrameData(Top)
  BY TopTyped DEF ReadDir, WalkStep, TypeInv
<1>2. f.path = Top.path /\ f.dir = Top.dir /\ f.names = EntriesOf(Top.dir) /\ f.met = Top.met
  BY <1>1, TopFields
<1>3. EntriesOf(Top.dir) \subseteq Names
  BY DEF EntriesOf, Names, TypeInv, TreeOk, DirsOk
<1>4. SetTop(f) /\ UNCHANGED loopVars /\ Quiet
  BY DEF ReadDir
<1> HIDE DEF f
<1>5. FrameData(f)
  BY <1>1, <1>2, <1>3 DEF FrameData
<1> QED BY <1>1, <1>4, <1>5, SetTopTypes

LEMMA AddWatchTypes == FsInv /\ LeakInv /\ TypeInv /\ AddWatch => FramesOk' /\ LoopOk' /\ Registering'
<1> SUFFICES ASSUME FsInv, LeakInv, TypeInv, AddWatch PROVE FramesOk' /\ LoopOk' /\ Registering'
  OBVIOUS
<1>1. stack # <<>> /\ FrameData(Top)
  BY TopTyped DEF AddWatch, WalkStep, TypeInv
<1>2. ASSUME NEW v, NEW marks, ReturnFrom(v, marks) PROVE FramesOk' /\ LoopOk' /\ Registering'
  BY <1>1, <1>2, ReturnTypes
<1>3. CASE AddWatchErrno
  BY <1>2, <1>3 DEF AddWatchErrno, AddWatchFails, Return
<1>4. ASSUME NEW wd \in Wds, AddWatchTo(wd) PROVE FramesOk' /\ LoopOk' /\ Registering'
  <2> DEFINE a == IF walk.recursive THEN "list" ELSE "scan"
             f == [Top EXCEPT !.id = wd, !.names = {}, !.at = a]
             g == [Top EXCEPT !.at = "compare", !.met = wd]
  <2>1. \/ (SetTop(f) \/ SetTop(g)) /\ UNCHANGED loopVars /\ Quiet
        \/ \E v, marks : ReturnFrom(v, marks)
    BY <1>4, ZenonT(60) DEF AddWatchTo
  <2> HIDE DEF a
  <2>2. /\ f.path = Top.path /\ f.dir = Top.dir /\ f.names = {} /\ f.met = Top.met
        /\ g.path = Top.path /\ g.dir = Top.dir /\ g.names = Top.names /\ g.met = wd
    BY <1>1, TopFields
  <2> HIDE DEF f, g
  <2>3. FrameData(f) /\ FrameData(g)
    BY <1>1, <2>2 DEF FrameData
  <2> QED BY <1>1, <1>2, <2>1, <2>3, SetTopTypes
<1> QED BY <1>3, <1>4 DEF AddWatch

LEMMA WalkEntryTypes == FsInv /\ TypeInv /\ WalkEntry => FramesOk' /\ LoopOk' /\ Registering'
<1> SUFFICES ASSUME FsInv, TypeInv, WalkEntry PROVE FramesOk' /\ LoopOk' /\ Registering'
  OBVIOUS
<1>1. stack # <<>> /\ FrameData(Top) /\ out' = {} /\ UNCHANGED <<roots, unwatchable, task, pending>>
  BY TopTyped DEF WalkEntry, WalkStep, TypeInv, Quiet, loopVars
<1>2. PICK n \in Top.names :
        stack' = Append([stack EXCEPT ![Len(stack)].names = @ \ {n}],
                        EnterFrame(Child(Top.path, n), NodeAt(Top.id)))
  BY DEF WalkEntry
<1> DEFINE f == [Top EXCEPT !.names = @ \ {n}]
           new == EnterFrame(Child(Top.path, n), NodeAt(Top.id))
<1>3. f.path = Top.path /\ f.dir = Top.dir /\ f.names = Top.names \ {n} /\ f.met = Top.met
  BY <1>1, TopFields
<1>4. Child(Top.path, n) \in Seq(Names)
  BY <1>1, AppendProperties DEF Child, FrameData
<1>5. FrameData(new)
  <2>1. new.path = Child(Top.path, n) /\ new.dir = 0 /\ new.names = {} /\ new.met = Nil
    BY DEF EnterFrame
  <2> HIDE DEF new
  <2> QED BY <1>4, <2>1 DEF FrameData
<1>6. stack' = Append([stack EXCEPT ![Len(stack)] = f], new)
  BY <1>2 DEF Top
<1> HIDE DEF f, new
<1>7. FrameData(f)
  BY <1>1, <1>3 DEF FrameData
<1>8. /\ Len(stack) \in Nat \ {0} /\ DOMAIN stack = 1..Len(stack)
      /\ DOMAIN stack' = 1..(Len(stack) + 1) /\ stack'[Len(stack)] = f
      /\ \A i \in DOMAIN stack : i # Len(stack) => stack'[i] = stack[i]
      /\ stack'[Len(stack) + 1] = new
  BY <1>1, <1>6, PushFrames
<1>9. FramesOk'
  <2>1. ASSUME NEW i \in DOMAIN stack' PROVE FrameData(stack'[i])
    <3>1. CASE i = Len(stack) + 1
      BY <1>5, <1>8, <3>1
    <3>2. CASE i = Len(stack)
      BY <1>7, <1>8, <3>2
    <3>3. CASE i \notin {Len(stack), Len(stack) + 1}
      <4>1. i \in DOMAIN stack
        BY <1>8, <3>3
      <4> QED BY <1>8, <3>3, <4>1 DEF TypeInv, FramesOk
    <3> QED BY <3>1, <3>2, <3>3
  <2> QED BY <2>1 DEF FramesOk
<1> QED BY <1>1, <1>9 DEF TypeInv, LoopOk, Registering

----------------------------------------------------------------------------
\* The steps outside walk_tree.
LEMMA FirstFrameTypes ==
  ASSUME NEW path \in Seq(Names), NEW parent, stack' = <<EnterFrame(path, parent)>>
  PROVE  FramesOk'
<1>1. PICK f : f = EnterFrame(path, parent)
  OBVIOUS
<1>2. FrameData(f)
  BY <1>1 DEF EnterFrame, FrameData
<1>3. DOMAIN stack' = {1} /\ stack'[1] = f
  BY <1>1
<1> QED BY <1>2, <1>3 DEF FramesOk

LEMMA HeadRoot ==
  ASSUME LoopOk, pending # <<>>
  PROVE  Head(pending).path \in Paths /\ Tail(pending) \in Seq(RootSpec)
<1>1. Head(pending) \in RootSpec /\ Tail(pending) \in Seq(RootSpec)
  BY HeadTailProperties DEF LoopOk
<1> QED BY <1>1 DEF RootSpec

LEMMA RegisterRootTypes ==
  FsInv /\ LeakInv /\ TypeInv /\ RegisterRoot => FramesOk' /\ LoopOk' /\ Registering'
<1> SUFFICES ASSUME FsInv, LeakInv, TypeInv, RegisterRoot PROVE FramesOk' /\ LoopOk' /\ Registering'
  OBVIOUS
<1>1. /\ stack = <<>> /\ task = "register" /\ pending # <<>> /\ out' = {} /\ UNCHANGED task
      /\ LoopOk /\ RootsOk /\ FramesOk
  BY DEF RegisterRoot, Quiet, TypeInv, LeakInv
<1>2. Head(pending).path \in Paths /\ Tail(pending) \in Seq(RootSpec)
  BY <1>1, HeadRoot
<1>3. InnerMounts(Head(pending).path) \subseteq Paths
  BY MountsAssumption DEF InnerMounts
<1>4. /\ unwatchable' \subseteq unwatchable \cup {Head(pending).path} \cup InnerMounts(Head(pending).path)
      /\ \/ UNCHANGED stack
         \/ stack' = <<EnterFrame(Head(pending).path, Nil)>> /\ UNCHANGED pending
      /\ pending' = Tail(pending) \/ UNCHANGED pending
      /\ \/ roots' = roots
         \/ roots' = Append(roots, [path |-> Head(pending).path, flat |-> Head(pending).flat,
                                    id |-> ERR_MISSING])
  BY DEF RegisterRoot, Unwatchable, StartWalk
<1>5. FramesOk'
  <2>1. Head(pending).path \in Seq(Names)
    BY <1>2, PathNames
  <2>2. UNCHANGED stack => FramesOk'
    BY <1>1 DEF FramesOk
  <2> QED BY <1>4, <2>1, <2>2, FirstFrameTypes
<1>6. PathsIn(roots')
  <2>1. PICK r : r = [path |-> Head(pending).path, flat |-> Head(pending).flat, id |-> ERR_MISSING]
    OBVIOUS
  <2>2. r.path \in Paths
    BY <1>2, <2>1
  <2> QED BY <1>1, <1>4, <2>1, <2>2, AppendPath DEF LoopOk, RootsOk
<1>7. LoopOk'
  BY <1>1, <1>2, <1>3, <1>4, <1>6 DEF LoopOk
<1>8. Registering'
  BY <1>1, <1>4 DEF Registering
<1> QED BY <1>5, <1>7, <1>8

LEMMA RestoreRootTypes ==
  FsInv /\ LeakInv /\ TypeInv /\ RestoreRoot => FramesOk' /\ LoopOk' /\ Registering'
<1> SUFFICES ASSUME FsInv, LeakInv, TypeInv, RestoreRoot PROVE FramesOk' /\ LoopOk' /\ Registering'
  OBVIOUS
<1>1. /\ stack = <<>> /\ task = "restat" /\ idx \in DOMAIN roots
      /\ LoopOk /\ RootsOk /\ FramesOk
  BY DEF RestoreRoot, LeakInv, Restoring, TypeInv
<1>2. CASE /\ stack' = <<EnterFrame(roots[idx].path, Nil)>> /\ task' = "restore" /\ out' = {}
           /\ UNCHANGED <<roots, unwatchable, pending>>
  <2>1. roots[idx].path \in Seq(Names)
    BY <1>1, PathNames DEF LoopOk, PathsIn
  <2> QED BY <1>1, <1>2, <2>1, FirstFrameTypes DEF LoopOk, Registering, Tasks
<1>3. CASE Finish(ERR_MISSING) /\ UNCHANGED stack
  <2>1. FramesOk' /\ Registering'
    BY <1>1, <1>3 DEF FramesOk, Registering
  <2>2. LoopOk'
    BY <1>1, <1>3, FinishLoop
  <2> QED BY <2>1, <2>2
<1> QED BY <1>2, <1>3 DEF RestoreRoot, StartWalk, Quiet

LEMMA StatFailsTypes ==
  FsInv /\ LeakInv /\ TypeInv /\ StatFails => FramesOk' /\ LoopOk' /\ Registering'
<1> SUFFICES ASSUME FsInv, LeakInv, TypeInv, StatFails PROVE FramesOk' /\ LoopOk' /\ Registering'
  OBVIOUS
<1>1. /\ stack = <<>> /\ UNCHANGED stack /\ LoopOk /\ RootsOk /\ FramesOk
      /\ \/ task = "register" /\ pending # <<>>
         \/ task = "restat"
      /\ \E v : Finish(v)
  BY DEF StatFails, TypeInv, LeakInv
<1>2. task = "restat" => idx \in DOMAIN roots
  BY DEF LeakInv, Restoring
<1>3. LoopOk'
  BY <1>1, <1>2, FinishLoop
<1> QED BY <1>1, <1>3 DEF FramesOk, Registering

\* process_inotify_event: paths of nodes, and of what is in them.
LEMMA RemovedPaths ==
  ASSUME RootsOk, PathsIn(roots), NEW p, CheckRootRemoval(p)
  PROVE  PathsIn(roots')
<1>1. roots' = [i \in DOMAIN roots |->
                  IF i \in RemovedRoots(p) THEN [roots[i] EXCEPT !.id = -1] ELSE roots[i]]
  BY DEF CheckRootRemoval
<1>2. ASSUME NEW i \in DOMAIN roots PROVE roots'[i].path = roots[i].path
  <2>1. [roots[i] EXCEPT !.id = -1].path = roots[i].path
    BY SetIdPath DEF RootsOk, GoodRoots
  <2> QED BY <1>1, <2>1
<1>3. DOMAIN roots' = DOMAIN roots
  BY <1>1
<1> QED BY <1>2, <1>3 DEF PathsIn

LEMMA DispatchTypes ==
  FsInv /\ LeakInv /\ TypeInv /\ Dispatch => FramesOk' /\ LoopOk' /\ Registering'
<1> SUFFICES ASSUME FsInv, LeakInv, TypeInv, Dispatch PROVE FramesOk' /\ LoopOk' /\ Registering'
  OBVIOUS
<1> DEFINE e == Head(batch)
           n == IF e.kind = "overflow" THEN Nil ELSE NodeAt(e.wd)
           p == IF e.name = NoName THEN node[n].path ELSE Child(node[n].path, e.name)
<1>1. /\ stack = <<>> /\ task = "dispatch" /\ ProcessEvent(e) /\ UNCHANGED <<unwatchable, pending>>
      /\ LoopOk /\ RootsOk /\ FramesOk
  BY DEF Dispatch, FsInv, WalksForATask, LeakInv, TypeInv
<1>2. e \in Events
  BY HeadTailProperties DEF Dispatch, FsInv, EventsOk
<1>3. n # Nil => p \in Seq(Names)
  <2>1. Slot(e.wd) \in Slots
    BY <1>2, CapacityAssumption, SMT DEF Events, Slot, Slots
  <2>2. n # Nil => n \in Live
    BY <2>1 DEF NodeAt, FsInv, IInv, Forest, TableMatchesNodes
  <2>3. n # Nil => node[n].path \in Paths
    BY <2>2 DEF FsInv, IInv, TypeOK, Nodes
  <2>4. n # Nil => node[n].path \in Seq(Names)
    BY <2>3, PathNames
  <2>5. e.name # NoName => e.name \in Names
    BY <1>2 DEF Events
  <2> HIDE DEF n, e
  <2> QED BY <2>4, <2>5, AppendProperties DEF Child
<1>4. CASE UNCHANGED <<roots, task, stack>> /\ (out' = {} \/ (n # Nil /\ out' = {p}))
  <2> HIDE DEF e, n, p
  <2> QED BY <1>1, <1>3, <1>4 DEF FramesOk, LoopOk, Registering
<1>5. CASE /\ n # Nil /\ stack' = <<EnterFrame(p, n)>> /\ task' = "event" /\ out' = {p}
           /\ UNCHANGED roots
  <2> HIDE DEF e, n, p
  <2>1. FramesOk'
    BY <1>3, <1>5, FirstFrameTypes
  <2> QED BY <1>1, <1>3, <1>5, <2>1 DEF LoopOk, Registering, Tasks
<1>6. CASE n # Nil /\ CheckRootRemoval(p) /\ UNCHANGED <<task, stack>>
  <2> HIDE DEF e, n, p
  <2>1. PathsIn(roots')
    BY <1>1, <1>6, RemovedPaths DEF LoopOk
  <2>2. out' \subseteq {p}
    BY <1>6 DEF CheckRootRemoval, Report
  <2> QED BY <1>1, <1>3, <1>6, <2>1, <2>2 DEF FramesOk, LoopOk, Registering
<1>7. \/ UNCHANGED <<roots, task, stack>> /\ (out' = {} \/ (n # Nil /\ out' = {p}))
      \/ /\ n # Nil /\ stack' = <<EnterFrame(p, n)>> /\ task' = "event" /\ out' = {p}
         /\ UNCHANGED roots
      \/ n # Nil /\ CheckRootRemoval(p) /\ UNCHANGED <<task, stack>>
  <2>1. \/ out' = {} /\ UNCHANGED <<wtVars, kwd, roots, task, stack, walk>>
        \/ /\ n # Nil /\ out' = {p} /\ task' = "event"
           /\ stack' = <<EnterFrame(p, n)>> /\ UNCHANGED <<wtVars, kwd, roots>>
        \/ n # Nil /\ out' = {p} /\ UNCHANGED <<roots, task, stack, walk>>
        \/ n # Nil /\ CheckRootRemoval(p) /\ UNCHANGED <<task, stack, walk>>
    <3>1. ProcessEvent(e)
      BY <1>1
    <3> HIDE DEF e
    <3> QED BY <3>1, Zenon DEF ProcessEvent, Quiet, Report
  <2> HIDE DEF e, n, p
  <2> QED BY <2>1
<1> HIDE DEF e, n, p
<1> QED BY <1>4, <1>5, <1>6, <1>7

LEMMA UpdateRootsTypes ==
  FsInv /\ LeakInv /\ TypeInv /\ UpdateRoots => FramesOk' /\ LoopOk' /\ Registering'
<1> SUFFICES ASSUME FsInv, LeakInv, TypeInv, UpdateRoots PROVE FramesOk' /\ LoopOk' /\ Registering'
  OBVIOUS
<1>1. /\ stack = <<>> /\ UNCHANGED stack /\ roots' = <<>> /\ unwatchable' = {} /\ out' = {}
      /\ pending' \in RootLists \cup {pending} /\ task' \in {"select", "register", "giveup"}
  BY DEF UpdateRoots, FsInv, WalksForATask, Quiet
<1>2. PathsIn(roots')
  <2>1. DOMAIN <<>> = {}
    OBVIOUS
  <2> QED BY <1>1, <2>1 DEF PathsIn
<1>3. pending' \in Seq(RootSpec)
  BY <1>1, RootListsAssumption DEF TypeInv, LoopOk
<1> QED BY <1>1, <1>2, <1>3 DEF TypeInv, FramesOk, LoopOk, Registering, Tasks

\* The steps that only move main_loop on.
LEMMA OtherTypes ==
  /\ FsInv /\ LeakInv /\ TypeInv
  /\ \/ RegisterDone \/ ReadEvents \/ DispatchDone \/ Timeout \/ CheckRoot \/ Quit \/ Shutdown
     \/ Others \/ UNCHANGED vars
  => FramesOk' /\ LoopOk' /\ Registering'
<1> SUFFICES ASSUME FsInv, LeakInv, TypeInv,
                    \/ RegisterDone \/ ReadEvents \/ DispatchDone \/ Timeout \/ CheckRoot \/ Quit
                    \/ Shutdown \/ Others \/ UNCHANGED vars
             PROVE  FramesOk' /\ LoopOk' /\ Registering'
  OBVIOUS
<1>1. UNCHANGED stack => FramesOk'
  BY DEF TypeInv, FramesOk
<1>2. CASE Others \/ UNCHANGED vars
  <2>1. UNCHANGED <<stack, roots, unwatchable, task, pending>> /\ (out' = {} \/ UNCHANGED out)
    BY <1>2 DEF Others, vars, loopVars, Quiet
  <2> QED BY <1>1, <2>1 DEF TypeInv, LoopOk, Registering
<1>3. CASE ReadEvents \/ DispatchDone \/ Timeout \/ CheckRoot \/ Quit
  <2>1. /\ UNCHANGED <<stack, roots, unwatchable, pending>> /\ out' = {} /\ stack = <<>>
        /\ task' \in Tasks
    BY <1>3 DEF ReadEvents, DispatchDone, Timeout, CheckRoot, Quit, Quiet, FsInv, WalksForATask, Tasks,
                TypeInv, LoopOk
  <2> QED BY <1>1, <2>1 DEF TypeInv, LoopOk, Registering
<1>4. CASE RegisterDone
  <2>1. /\ UNCHANGED <<stack, roots, unwatchable, pending>> /\ stack = <<>> /\ task' = "select"
        /\ out' = {roots[i].path : i \in DOMAIN roots}
    BY <1>4 DEF RegisterDone, Report
  <2>2. out' \subseteq Seq(Names)
    BY <2>1, NamesAssumption DEF TypeInv, LoopOk, PathsIn
  <2> QED BY <1>1, <2>1, <2>2 DEF TypeInv, LoopOk, Registering, Tasks
<1>5. CASE Shutdown
  <2>1. UNCHANGED <<stack, unwatchable, pending>> /\ out' = {} /\ roots' = <<>> /\ task' = "exited"
    BY <1>5 DEF Shutdown, ShutdownFreeing, Quiet
  <2>2. PathsIn(roots')
    <3>1. DOMAIN <<>> = {}
      OBVIOUS
    <3> QED BY <2>1, <3>1 DEF PathsIn
  <2> QED BY <1>1, <2>1, <2>2 DEF TypeInv, LoopOk, Registering, Tasks
<1> QED BY <1>2, <1>3, <1>4, <1>5

----------------------------------------------------------------------------
LEMMA TypesInit == FsInit => TypeInv
<1> SUFFICES ASSUME FsInit PROVE TypeInv
  OBVIOUS
<1>1. TreeOk
  BY TreeOkInit DEF FsInit
<1>2. stack = <<>> /\ roots = <<>> /\ unwatchable = {} /\ task = "select" /\ pending = <<>> /\ out = {}
  BY DEF FsInit
<1>3. DOMAIN <<>> = {} /\ <<>> \in Seq(RootSpec)
  BY EmptySeq
<1> QED BY <1>1, <1>2, <1>3 DEF TypeInv, FramesOk, LoopOk, PathsIn, Registering, Tasks

LEMMA TypesNext == FsInv /\ LeakInv /\ TypeInv /\ [FsNext]_vars => TypeInv'
<1> SUFFICES ASSUME FsInv, LeakInv, TypeInv, [FsNext]_vars PROVE TypeInv'
  OBVIOUS
<1>1. TreeOk'
  BY NotifierTree DEF TypeInv
<1>2. CASE WalkEnd \/ ComparePaths
  <2>1. stack # <<>> /\ \E v : ReturnFrom(v, kwd)
    BY <1>2 DEF WalkEnd, ComparePaths, WalkStep, Return
  <2> QED BY <1>1, <2>1, ReturnTypes DEF TypeInv
<1>3. CASE OpenDir \/ AddWatch \/ ReadDir \/ WalkEntry
  BY <1>1, <1>3, OpenDirTypes, AddWatchTypes, ReadDirTypes, WalkEntryTypes DEF TypeInv
<1>4. CASE RegisterRoot \/ RestoreRoot \/ StatFails \/ Dispatch \/ UpdateRoots
  BY <1>1, <1>4, RegisterRootTypes, RestoreRootTypes, StatFailsTypes, DispatchTypes, UpdateRootsTypes
  DEF TypeInv
<1>5. CASE \/ RegisterDone \/ ReadEvents \/ DispatchDone \/ Timeout \/ CheckRoot \/ Quit \/ Shutdown
           \/ Others \/ UNCHANGED vars
  <2>1. FramesOk' /\ LoopOk' /\ Registering'
    BY <1>5, OtherTypes
  <2> QED BY <1>1, <2>1 DEF TypeInv
<1> QED BY <1>2, <1>3, <1>4, <1>5 DEF FsNext, Watcher, WalkTree

\* The types of the notifier, the kernel and the directories it runs on: directories hang together,
\* a mark was handed out before, and whatever the process holds or reports is a path of names,
\* however the directories changed since it was read.
THEOREM NotifierTypes == FsSpec => []FsTypeOK
<1>1. FsInv /\ LeakInv /\ TypeInv => FsTypeOK
  <2> SUFFICES ASSUME FsInv, LeakInv, TypeInv PROVE FsTypeOK
    OBVIOUS
  <2>1. TypeOK /\ EventsOk /\ Live \subseteq Wds
    BY DEF FsInv, IInv, TypeOK
  <2>2. ASSUME NEW p \in DOMAIN fs PROVE Len(p) = 1 \/ ParentOf(p) \in DOMAIN fs
    <3>1. PrefixClosed(DOMAIN fs) /\ p \in Paths
      BY DEF TypeInv, TreeOk, DirsOk
    <3>2. Len(p) \in Nat \ {0}
      BY <3>1, PathNames
    <3>3. Len(p) # 1 => Len(p) - 1 \in 1..Len(p)
      <4>1. \A n \in Nat \ {0} : n # 1 => n - 1 \in 1..n
        OBVIOUS
      <4> QED BY <3>2, <4>1
    <3> QED BY <3>1, <3>3 DEF PrefixClosed, ParentOf
  <2>3. \A i \in DOMAIN kwd : kwd[i] \in Wds /\ kwd[i] < nextWd
    BY <2>1 DEF EventsOk, TypeInv, TreeOk, MarksOld
  <2>4. ASSUME NEW i \in DOMAIN stack PROVE stack[i] \in Frame
    <3>1. PICK f : f = stack[i]
      OBVIOUS
    <3>2. FrameOk(f, Live)
      BY <3>1 DEF FsInv, StackOk, GoodStack
    <3>3. FrameData(f) /\ f.at \in {"enter", "add", "compare", "list", "scan"} /\ (f.id \in Live \/ f.id = Nil)
      BY <3>1 DEF TypeInv, FramesOk, LeakInv, WalkIds
    <3>4. f.parent \in Wds \cup {Nil} /\ f.id \in Wds \cup {Nil}
      BY <2>1, <3>2, <3>3 DEF FrameOk
    <3>5. f \in [path : {f.path}, parent : {f.parent}, at : {f.at}, dir : {f.dir},
                 met : {f.met}, id : {f.id}, names : {f.names}]
      BY <3>2 DEF FrameOk, IsFrame
    <3>6. f \in Frame
      BY <3>3, <3>4, <3>5 DEF Frame, FrameData
    <3> QED BY <3>1, <3>6
  <2>5. \A i \in DOMAIN roots : roots[i].id \in Wds \cup -4..-1
    BY DEF LeakInv, RootsOk, GoodRoots, IsRoot
  <2>6. DOMAIN fs \subseteq Paths /\ queue \in Seq(Events) /\ batch \in Seq(Events)
    BY <2>1 DEF EventsOk
  <2>7. task \in Tasks /\ out \subseteq Seq(Names) /\ unwatchable \subseteq Paths
    BY DEF TypeInv, LoopOk
  <2> QED BY <2>1, <2>2, <2>3, <2>4, <2>5, <2>6, <2>7 DEF FsTypeOK
<1> QED BY FsInitInv, FsNextInv, LeakInit, LeakNext, TypesInit, TypesNext, <1>1, PTL DEF FsSpec
----------------------------------------------------------------------------
\* The marks of the kernel.  Each has its node, but for those that add_watch made for a
\* descriptor whose slot was taken; and nodes are as old as the descriptors.
Stray == {w \in Wds : why # "none" /\ Collided(w)}
MarksLive == \A i \in DOMAIN kwd : kwd[i] \in Live \cup Stray
LiveOld == \A w \in Live : w < nextWd
MarksInv == MarksLive /\ LiveOld

LEMMA AbortIsKept == [FsNext]_vars /\ why # "none" => why' # "none"
<1> SUFFICES ASSUME [FsNext]_vars, why # "none" PROVE why' # "none"
  OBVIOUS
<1>1. CASE UNCHANGED why
  BY <1>1
<1>2. CASE OpenDir \/ ReadDir \/ WalkEntry \/ WalkEnd
  BY <1>2 DEF OpenDir, ReadDir, WalkEntry, WalkEnd
<1>3. CASE ComparePaths
  BY <1>3 DEF ComparePaths
<1>4. CASE AddWatch
  <2>1. CASE AddWatchErrno
    BY <2>1 DEF AddWatchErrno, AddWatchFails, ERR_IGNORE, ERR_ABORT
  <2>2. ASSUME NEW wd, AddWatchTo(wd) PROVE why' # "none"
    <3>1. UNCHANGED why \/ why' = "corruption"
      BY <2>2, ZenonT(60) DEF AddWatchTo
    <3> QED BY <3>1
  <2> QED BY <1>4, <2>1, <2>2 DEF AddWatch
<1>5. CASE \/ RegisterRoot \/ StatFails \/ RegisterDone \/ ReadEvents \/ Dispatch \/ DispatchDone
           \/ Timeout \/ CheckRoot \/ RestoreRoot \/ Shutdown
  BY <1>5 DEF RegisterRoot, StatFails, RegisterDone, ReadEvents, Dispatch, DispatchDone, Timeout,
              CheckRoot, RestoreRoot, Shutdown, ShutdownFreeing
<1>6. CASE UpdateRoots \/ Quit \/ Others
  BY <1>6 DEF UpdateRoots, Quit, Others
<1>7. CASE UNCHANGED vars
  BY <1>7 DEF vars
<1> QED BY <1>2, <1>3, <1>4, <1>5, <1>6, <1>7 DEF FsNext, Watcher, WalkTree

\* rm_watch drops the mark of each node it frees.
LEMMA RmWatchesKeepsMarks ==
  ASSUME NEW marks, NEW ids, RmWatchesFrom(marks, ids), NEW S,
         \A i \in DOMAIN marks : marks[i] \in Live \cup S
  PROVE  Live' \subseteq Live /\ \A i \in DOMAIN kwd' : kwd'[i] \in Live' \cup S
<1>1. CASE NodesAt(ids) = {}
  <2>1. UNCHANGED node /\ kwd' = marks /\ Live' = Live
    BY <1>1 DEF RmWatchesFrom, wtVars, Live
  <2> QED BY <2>1
<1>2. CASE NodesAt(ids) # {}
  <2>1. FreeNodes(NodesAt(ids)) /\ InotifyRmWatches(marks, Doomed(NodesAt(ids)))
    BY <1>2 DEF RmWatchesFrom
  <2>2. Live' = Live \ Doomed(NodesAt(ids))
    BY <2>1 DEF FreeNodes, Live
  <2>3. \A i \in DOMAIN kwd' : i \in DOMAIN marks /\ kwd'[i] = marks[i] /\ kwd'[i] \notin Doomed(NodesAt(ids))
    BY <2>1 DEF InotifyRmWatches
  <2> QED BY <2>2, <2>3
<1> QED BY <1>1, <1>2

\* Fewer nodes and fewer marks, or the same.
LEMMA RemovalMarks ==
  ASSUME FsInv, TypeInv, MarksInv, [FsNext]_vars, NEW marks, NEW ids, RmWatchesFrom(marks, ids),
         \A i \in DOMAIN marks : marks[i] \in Live \cup Stray', nextWd' \in Nat, nextWd <= nextWd'
  PROVE  MarksInv'
<1>1. PICK S : S = Stray'
  OBVIOUS
<1>2. Live' \subseteq Live /\ \A i \in DOMAIN kwd' : kwd'[i] \in Live' \cup S
  BY <1>1, RmWatchesKeepsMarks
<1>3. MarksLive'
  BY <1>1, <1>2 DEF MarksLive
<1>4. nextWd \in Nat /\ Live \subseteq Nat
  BY WdsAssumption DEF TypeInv, TreeOk, MarksOld, FsInv, IInv, TypeOK
<1>5. ASSUME NEW w \in Live' PROVE w < nextWd'
  <2>1. w \in Nat /\ w < nextWd
    BY <1>2, <1>4 DEF MarksInv, LiveOld
  <2> QED BY <1>4, <2>1
<1> QED BY <1>3, <1>5 DEF MarksInv, LiveOld

LEMMA StrayKept ==
  ASSUME MarksInv, [FsNext]_vars
  PROVE  \A i \in DOMAIN kwd : kwd[i] \in Live \cup Stray'
  BY AbortIsKept DEF MarksInv, MarksLive, Stray

LEMMA RmWatchesInv ==
  ASSUME FsInv, TypeInv, MarksInv, [FsNext]_vars, NEW ids, RmWatchesFrom(kwd, ids), UNCHANGED nextWd
  PROVE  MarksInv'
<1>1. PICK marks : marks = kwd
  OBVIOUS
<1>2. \A i \in DOMAIN marks : marks[i] \in Live \cup Stray'
  BY <1>1, StrayKept
<1>3. RmWatchesFrom(marks, ids)
  BY <1>1
<1>4. nextWd' \in Nat /\ nextWd <= nextWd'
  BY DEF TypeInv, TreeOk, MarksOld
<1> QED BY <1>2, <1>3, <1>4, RemovalMarks

LEMMA SameMarks ==
  ASSUME FsInv, TypeInv, MarksInv, [FsNext]_vars, UNCHANGED <<node, nextWd>>,
         DOMAIN kwd' \subseteq DOMAIN kwd, \A i \in DOMAIN kwd' : kwd'[i] = kwd[i]
  PROVE  MarksInv'
<1>1. Live' = Live
  BY DEF Live
<1>2. \A i \in DOMAIN kwd : kwd[i] \in Live \cup Stray'
  BY StrayKept
<1> QED BY <1>1, <1>2 DEF MarksInv, MarksLive, LiveOld

LEMMA ReturnInv ==
  ASSUME FsInv, TypeInv, MarksInv, [FsNext]_vars, NEW v, Return(v)
  PROVE  MarksInv'
<1>1. UNCHANGED nextWd /\ \E ids : RmWatchesFrom(kwd, ids)
  BY DEF Return, ReturnFrom, ReturnTo
<1> QED BY <1>1, RmWatchesInv

\* add_watch: the new node has the kernel's mark; and a mark whose slot is taken is a stray one.
LEMMA AddWatchInv ==
  ASSUME FsInv, TypeInv, TypeInv', MarksInv, [FsNext]_vars, AddWatch
  PROVE  MarksInv'
<1>1. CASE AddWatchErrno
  BY <1>1, ReturnInv DEF AddWatchErrno, AddWatchFails
<1>2. ASSUME NEW wd \in Wds, wd = AddWatchResult(Top.path), AddWatchTo(wd) PROVE MarksInv'
  <2>1. \/ AddNode(wd, Top.path, Top.parent) /\ InotifyAddWatch(Top.path)
        \/ SameNodes
        \/ /\ NodeAt(wd) # Nil /\ NodeAt(wd) # wd
           /\ ReturnFrom(ERR_ABORT, MarkedAs(wd)) /\ why' = "corruption"
           /\ nextWd' = IF wd = nextWd THEN nextWd + 1 ELSE nextWd
    BY <1>2, ZenonT(60) DEF AddWatchTo
  <2>2. CASE SameNodes
    BY <2>2, SameMarks DEF SameNodes, wtVars
  <2>3. CASE AddNode(wd, Top.path, Top.parent) /\ InotifyAddWatch(Top.path)
    <3>1. PICK ino : ino = InodeAt(Top.path)
      OBVIOUS
    <3>2. Live' = Live \cup {wd}
      BY <2>3 DEF AddNode, Live
    <3>3. /\ ino \in DOMAIN kwd' /\ kwd'[ino] = wd
          /\ \A i \in DOMAIN kwd' : i # ino => i \in DOMAIN kwd /\ kwd'[i] = kwd[i]
      BY <1>2, <2>3, <3>1 DEF InotifyAddWatch, AddWatchResult
    <3>4. MarksLive'
      BY <3>2, <3>3, StrayKept DEF MarksLive
    <3>5. nextWd' \in Nat /\ nextWd \in Nat /\ \A i \in DOMAIN kwd' : kwd'[i] < nextWd'
      BY DEF TypeInv, TreeOk, MarksOld
    <3>6. nextWd <= nextWd'
      BY <2>3, <3>5 DEF InotifyAddWatch
    <3>7. Live \subseteq Nat
      BY WdsAssumption DEF FsInv, IInv, TypeOK
    <3>8. ASSUME NEW w \in Live PROVE w < nextWd'
      <4>1. w \in Nat /\ w < nextWd
        BY <3>7 DEF MarksInv, LiveOld
      <4> QED BY <3>5, <3>6, <4>1
    <3> QED BY <3>2, <3>3, <3>4, <3>5, <3>8 DEF MarksInv, LiveOld
  <2>4. CASE /\ NodeAt(wd) # Nil /\ NodeAt(wd) # wd
             /\ ReturnFrom(ERR_ABORT, MarkedAs(wd)) /\ why' = "corruption"
             /\ nextWd' = IF wd = nextWd THEN nextWd + 1 ELSE nextWd
    <3>1. PICK n : n = NodeAt(wd)
      OBVIOUS
    <3>2. n \in Live /\ Slot(n) = Slot(wd) /\ n \in Nat /\ n \in Wds
      BY <2>4, <3>1, SlotInRange, WdsAssumption DEF NodeAt, FsInv, IInv, TypeOK, Forest, TableMatchesNodes
    <3>3. wd \notin Live
      BY <2>4, WdsAssumption DEF NodeAt, FsInv, IInv, TypeOK, Forest, TableMatchesNodes
    <3>4. Collided(wd)
      <4>1. CASE wd = nextWd
        BY <3>2, <4>1 DEF Collided, MarksInv, LiveOld
      <4>2. CASE \E i \in DOMAIN kwd : wd = kwd[i]
        BY <3>3, <4>2 DEF MarksInv, MarksLive, Stray
      <4> QED BY <1>2, <4>1, <4>2 DEF AddWatchResult
    <3>5. wd \in Stray'
      BY <2>4, <3>4 DEF Stray
    <3>6. PICK marks : marks = MarkedAs(wd)
      OBVIOUS
    <3>7. \A i \in DOMAIN marks : marks[i] \in Live \cup Stray'
      BY <3>5, <3>6, StrayKept DEF MarkedAs
    <3>8. \E ids : RmWatchesFrom(marks, ids)
      BY <2>4, <3>6 DEF ReturnFrom, ReturnTo
    <3>9. nextWd' \in Nat /\ nextWd <= nextWd'
      <4>1. nextWd \in Nat
        BY DEF TypeInv, TreeOk, MarksOld
      <4> QED BY <2>4, <4>1
    <3> QED BY <3>7, <3>8, <3>9, RemovalMarks
  <2> QED BY <2>1, <2>2, <2>3, <2>4
<1> QED BY <1>1, <1>2 DEF AddWatch

LEMMA MarksNext ==
  FsInv /\ TypeInv /\ TypeInv' /\ MarksInv /\ [FsNext]_vars => MarksInv'
<1> SUFFICES ASSUME FsInv, TypeInv, TypeInv', MarksInv, [FsNext]_vars PROVE MarksInv'
  OBVIOUS
<1>1. CASE UNCHANGED <<node, kwd, nextWd>>
  BY <1>1, SameMarks
<1>2. CASE WalkTree
  <2>1. CASE AddWatch
    BY <2>1, AddWatchInv
  <2>2. CASE OpenDir \/ ComparePaths \/ WalkEnd
    <3>1. SameNodes \/ \E v : Return(v)
      BY <2>2 DEF OpenDir, ComparePaths, WalkEnd
    <3> QED BY <1>1, <3>1, ReturnInv DEF SameNodes, wtVars
  <2>3. CASE ReadDir \/ WalkEntry
    BY <1>1, <2>3 DEF ReadDir, WalkEntry, SameNodes, wtVars
  <2> QED BY <1>2, <2>1, <2>2, <2>3 DEF WalkTree
<1>3. CASE \/ RegisterRoot \/ StatFails \/ RegisterDone \/ ReadEvents \/ DispatchDone \/ Timeout
           \/ CheckRoot \/ RestoreRoot \/ Quit
  BY <1>1, <1>3 DEF RegisterRoot, StatFails, RegisterDone, ReadEvents, DispatchDone, Timeout,
                    CheckRoot, RestoreRoot, Quit, SameNodes, wtVars
<1>4. CASE Dispatch \/ UpdateRoots
  <2>1. UNCHANGED nextWd /\ (UNCHANGED <<node, kwd>> \/ \E ids : RmWatchesFrom(kwd, ids))
    BY <1>4 DEF Dispatch, UpdateRoots, ProcessEvent, DropKid, CheckRootRemoval, RmWatches, wtVars
  <2> QED BY <1>1, <2>1, RmWatchesInv
<1>5. CASE Shutdown
  <2>1. UNCHANGED nextWd /\ DOMAIN kwd' = {} /\ Live' \subseteq Live
    BY <1>5 DEF Shutdown, ShutdownFreeing, FreeNodes, wtVars, Live
  <2> QED BY <2>1 DEF MarksInv, MarksLive, LiveOld
<1>6. CASE Others
  <2>1. DOMAIN kwd' \subseteq DOMAIN kwd /\ \A i \in DOMAIN kwd' : kwd'[i] = kwd[i]
    <3>1. ASSUME NEW p, MkDir(p) \/ RmDir(p)
          PROVE  DOMAIN kwd' \subseteq DOMAIN kwd /\ \A i \in DOMAIN kwd' : kwd'[i] = kwd[i]
      BY <3>1 DEF MkDir, RmDir
    <3>2. ASSUME NEW p, NEW q, Move(p, q)
          PROVE  DOMAIN kwd' \subseteq DOMAIN kwd /\ \A i \in DOMAIN kwd' : kwd'[i] = kwd[i]
      <4>1. \E D \in SUBSET DOMAIN kwd : kwd' = [i \in D |-> kwd[i]]
        BY <3>2, Zenon DEF Move
      <4> QED BY <4>1
    <3>3. ASSUME NEW d, NEW busy, Unmount(d, busy)
          PROVE  DOMAIN kwd' \subseteq DOMAIN kwd /\ \A i \in DOMAIN kwd' : kwd'[i] = kwd[i]
      BY <3>3 DEF Unmount
    <3> QED BY <1>6, <3>1, <3>2, <3>3 DEF Others, FileTreeNext
  <2>2. UNCHANGED <<node, nextWd>>
    BY <1>6 DEF Others, wtVars, FileTreeNext, MkDir, RmDir, Move, Unmount
  <2> QED BY <2>1, <2>2, SameMarks
<1>7. CASE UNCHANGED vars
  BY <1>1, <1>7 DEF vars, wtVars, treeVars
<1> QED BY <1>2, <1>3, <1>4, <1>5, <1>6, <1>7 DEF FsNext, Watcher

LEMMA MarksInit == FsInit => MarksInv
<1> SUFFICES ASSUME FsInit PROVE MarksInv
  OBVIOUS
<1>1. Live = {} /\ DOMAIN kwd = {}
  BY DEF FsInit, Init, FileTreeInit, Live
<1> QED BY <1>1 DEF MarksInv, MarksLive, LiveOld

\* Whichever walks failed half-way and whatever was renamed or removed under them: between two
\* rounds of the loop every node hangs below a registered root, and the kernel holds no watch
\* that the process has forgotten, except, after an ERR_ABORT, one that add_watch made for a
\* descriptor whose slot an older one had taken.
THEOREM NoLeaks == FsSpec => []NoLeakedWatches
<1>1. FsInv /\ LeakInv /\ MarksInv => NoLeakedWatches
  <2> SUFFICES ASSUME FsInv, LeakInv, MarksInv, task = "select"
               PROVE  /\ \A w \in Live : w \in Doomed(NodesAt(RootIds(roots)))
                      /\ \A i \in DOMAIN kwd : kwd[i] \in Live \/ (why # "none" /\ Collided(kwd[i]))
    BY DEF NoLeakedWatches
  <2>1. stack = <<>>
    BY DEF FsInv, WalksForATask
  <2>2. Live \subseteq Doomed(NodesAt(RootIds(roots)))
    BY <2>1, RootsReachAll DEF FsInv, LeakInv
  <2> QED BY <2>2 DEF MarksInv, MarksLive, Stray
<1> QED BY FsInitInv, FsNextInv, LeakInit, LeakNext, TypesInit, TypesNext, MarksInit, MarksNext, <1>1,
           PTL DEF FsSpec

----------------------------------------------------------------------------
\* Two paths above a third, a path above one that is above a third, and what is above an entry.
LEMMA AboveBoth ==
  ASSUME NEW T, NEW p \in Seq(T), p # <<>>, NEW q \in Seq(T), q # <<>>, NEW x \in Seq(T),
         IsParentPath(p, x), IsParentPath(q, x)
  PROVE  IsParentPath(p, q) \/ IsParentPath(q, p)
<1>1. PICK m, l : m = Len(p) /\ l = Len(q)
  OBVIOUS
<1>2. m \in Nat /\ l \in Nat
  BY <1>1, LenProperties
<1>3. (\A i \in 1..m : x[i] = p[i]) /\ (\A i \in 1..l : x[i] = q[i])
  BY <1>1, ParentPathMeans
<1>4. CASE m <= l
  <2>1. \A i \in 1..m : q[i] = p[i]
    BY <1>2, <1>3, <1>4
  <2> QED BY <1>1, <1>4, <2>1, ParentPathMeans
<1>5. CASE l <= m
  <2>1. \A i \in 1..l : p[i] = q[i]
    BY <1>2, <1>3, <1>5
  <2> QED BY <1>1, <1>5, <2>1, ParentPathMeans
<1> QED BY <1>2, <1>4, <1>5

LEMMA AboveAbove ==
  ASSUME NEW T, NEW p \in Seq(T), p # <<>>, NEW q \in Seq(T), q # <<>>, NEW x \in Seq(T),
         IsParentPath(p, q), IsParentPath(q, x)
  PROVE  IsParentPath(p, x)
<1>1. PICK m, l, n : m = Len(p) /\ l = Len(q) /\ n = Len(x)
  OBVIOUS
<1>2. m \in Nat /\ l \in Nat /\ n \in Nat
  BY <1>1, LenProperties
<1>3. m <= l /\ (\A i \in 1..m : q[i] = p[i]) /\ l <= n /\ (\A i \in 1..l : x[i] = q[i])
  BY <1>1, ParentPathMeans
<1>4. m <= n /\ \A i \in 1..m : x[i] = p[i]
  BY <1>2, <1>3
<1> QED BY <1>1, <1>4, ParentPathMeans

LEMMA AboveEntry ==
  ASSUME NEW T, NEW p \in Seq(T), NEW n \in T, NEW m \in Seq(T), m # <<>>
  PROVE  /\ Child(p, n) \in Seq(T) /\ Child(p, n) # <<>>
         /\ IsParentPath(m, p) => IsParentPath(m, Child(p, n))
         /\ IsParentPath(m, Child(p, n)) => IsParentPath(m, p) \/ m = Child(p, n)
<1>1. PICK c : c = Child(p, n)
  OBVIOUS
<1>2. PICK k, l : k = Len(p) /\ l = Len(m)
  OBVIOUS
<1>3. c \in Seq(T) /\ Len(c) = k + 1 /\ \A i \in 1..k : c[i] = p[i]
  BY <1>1, <1>2, AppendProperties DEF Child
<1>4. k \in Nat /\ l \in Nat
  BY <1>2, LenProperties
<1>5. c # <<>>
  BY <1>3, <1>4, EmptySeq
<1>6. ASSUME IsParentPath(m, p) PROVE IsParentPath(m, c)
  <2>1. l <= k /\ \A i \in 1..l : p[i] = m[i]
    BY <1>2, <1>6, ParentPathMeans
  <2>2. l <= k + 1 /\ \A i \in 1..l : c[i] = m[i]
    BY <1>3, <1>4, <2>1
  <2> QED BY <1>2, <1>3, <2>2, ParentPathMeans
<1>7. ASSUME IsParentPath(m, c) PROVE IsParentPath(m, p) \/ m = c
  <2>1. l <= k + 1 /\ \A i \in 1..l : c[i] = m[i]
    BY <1>2, <1>3, <1>7, ParentPathMeans
  <2>2. CASE l <= k
    <3>1. \A i \in 1..l : p[i] = m[i]
      BY <1>3, <1>4, <2>1, <2>2
    <3> QED BY <1>2, <2>2, <3>1, ParentPathMeans
  <2>3. CASE l = k + 1
    BY <1>2, <1>3, <2>1, <2>3, SeqEqual
  <2> QED BY <1>4, <2>1, <2>2, <2>3
<1> QED BY <1>1, <1>3, <1>5, <1>6, <1>7

LEMMA AboveIsPrefix ==
  ASSUME NEW T, NEW m \in Seq(T), m # <<>>, NEW x \in Seq(T), IsParentPath(m, x)
  PROVE  StrPrefix(m, x)
<1>1. PICK l, n : l = Len(m) /\ n = Len(x)
  OBVIOUS
<1>2. l \in Nat \ {0} /\ n \in Nat
  BY <1>1, LenProperties, EmptySeq
<1>3. l <= n /\ \A i \in 1..l : x[i] = m[i]
  BY <1>1, ParentPathMeans
<1>4. l \in 1..n /\ (\A i \in 1..l - 1 : m[i] = x[i]) /\ m[l] = x[l]
  BY <1>2, <1>3
<1> QED BY <1>1, <1>4 DEF StrPrefix
----------------------------------------------------------------------------
\* A node is watched under a path at or below its parent's.
KidPaths == \A w \in Live : node[w].parent # Nil => IsParentPath(node[node[w].parent].path, node[w].path)

\* A frame of walk_tree has the path of its node, at or below that of its parent_node; and the
\* node that add_watch met there, if any, has another.
FramePath(f) ==
  /\ f.id # Nil => node[f.id].path = f.path
  /\ f.parent # Nil => IsParentPath(node[f.parent].path, f.path)
  /\ f.at = "compare" => f.met \in Live /\ node[f.met].path # f.path
FramePaths == \A i \in DOMAIN stack : FramePath(stack[i])

\* A node without a parent has the path of a registered root, or is the top of the walk that
\* register_roots is waiting for.
RootPath(p) == \E i \in DOMAIN roots : roots[i].path = p
TopPath(w) == RootPath(node[w].path) \/ (task = "register" /\ stack # <<>> /\ stack[1].id = w)
TopPaths == \A w \in Live : node[w].parent = Nil => TopPath(w)

\* The walk of a root starts at the root, outside the mounts, with those below it; and a directory
\* that nobody removes is still there.
WalkOfRoot ==
  stack # <<>> =>
    /\ task = "register" =>
         /\ stack[1].path = Head(pending).path
         /\ walk.mounts = InnerMounts(stack[1].path) /\ ~OuterMount(stack[1].path)
         /\ Resolve(stack[1].path) \in Pinned => Exists(stack[1].path)
    /\ task = "restore" => stack[1].path = roots[idx].path

\* A list of roots is worked off before anything else is done.
NoMoreRoots == task \notin {"register", "giveup", "exited"} => pending = <<>>
AnswerInv == KidPaths /\ FramePaths /\ TopPaths /\ WalkOfRoot /\ NoMoreRoots

\* The nodes that are left keep their paths and parents; no root is forgotten.
FewerNodes ==
  \A w \in Live' : w \in Live /\ node'[w].path = node[w].path /\ node'[w].parent = node[w].parent
NotifierInv == FsInv /\ LeakInv /\ TypeInv
RootsStay == \A i \in DOMAIN roots : \E j \in DOMAIN roots' : roots'[j].path = roots[i].path

LEMMA FewerAfterRm ==
  ASSUME IInv, NEW marks, NEW ids, RmWatchesFrom(marks, ids)
  PROVE  FewerNodes
<1>1. \A w \in Live' : w \in Live /\ node'[w].parent = node[w].parent
  BY RmWatchesFrees
<1>2. CASE NodesAt(ids) = {}
  BY <1>2, <1>1 DEF RmWatchesFrom, wtVars, FewerNodes
<1>3. CASE NodesAt(ids) # {}
  <2>1. node' = [w \in Live \ Doomed(NodesAt(ids)) |->
                   [node[w] EXCEPT !.kids = @ \ {k \in NodesAt(ids) : node[k].parent = w}]]
    BY <1>3 DEF RmWatchesFrom, FreeNodes
  <2>2. ASSUME NEW w \in Live' PROVE node'[w].path = node[w].path
    <3>1. node[w] \in Nodes /\ w \in Live \ Doomed(NodesAt(ids))
      BY <2>1 DEF IInv, TypeOK, Live
    <3> QED BY <2>1, <3>1 DEF Nodes
  <2> QED BY <1>1, <2>2 DEF FewerNodes
<1> QED BY <1>2, <1>3

LEMMA FewerKids ==
  ASSUME KidPaths, FewerNodes, FsInv'
  PROVE  KidPaths'
<1>1. \A w \in Live' : node'[w].parent # Nil => node'[w].parent \in Live'
  BY DEF FsInv, IInv, Forest, ParentsAreLive
<1>2. ASSUME NEW w \in Live', node'[w].parent # Nil
      PROVE  IsParentPath(node'[node'[w].parent].path, node'[w].path)
  <2>1. /\ w \in Live /\ node'[w].path = node[w].path /\ node'[w].parent = node[w].parent
        /\ node[w].parent \in Live'
    BY <1>1, <1>2 DEF FewerNodes
  <2>2. node'[node[w].parent].path = node[node[w].parent].path
    BY <2>1 DEF FewerNodes
  <2> QED BY <1>2, <2>1, <2>2 DEF KidPaths
<1> QED BY <1>2 DEF KidPaths

LEMMA FewerTops ==
  ASSUME TopPaths, FewerNodes, RootsStay,
         \A w \in Live' : task = "register" /\ stack # <<>> /\ stack[1].id = w => TopPath(w)'
  PROVE  TopPaths'
<1> SUFFICES ASSUME NEW w \in Live', node'[w].parent = Nil PROVE TopPath(w)'
  BY DEF TopPaths
<1>1. w \in Live /\ node[w].parent = Nil /\ node'[w].path = node[w].path
  BY DEF FewerNodes
<1>2. CASE RootPath(node[w].path)
  <2>1. PICK i \in DOMAIN roots : roots[i].path = node[w].path
    BY <1>2 DEF RootPath
  <2>2. \E j \in DOMAIN roots' : roots'[j].path = node'[w].path
    BY <1>1, <2>1 DEF RootsStay
  <2> QED BY <2>2 DEF TopPath, RootPath
<1> QED BY <1>1, <1>2 DEF TopPaths, TopPath

\* Nothing is under way.
LEMMA OutsideAnswers ==
  ASSUME AnswerInv, FewerNodes, RootsStay, FsInv', stack = <<>>, stack' = <<>>, NoMoreRoots'
  PROVE  AnswerInv'
<1>1. DOMAIN <<>> = {}
  OBVIOUS
<1>2. FramePaths' /\ WalkOfRoot'
  BY <1>1 DEF FramePaths, WalkOfRoot
<1> QED BY <1>2, FewerKids, FewerTops DEF AnswerInv

\* A further root is one, and the old ones are kept.
LEMMA AppendedRoot ==
  ASSUME RootsOk, NEW r, roots' = Append(roots, r)
  PROVE  RootsStay /\ \E j \in DOMAIN roots' : roots'[j].path = r.path
<1> DEFINE F == {roots[i] : i \in DOMAIN roots} \cup {r}
<1>1. roots \in Seq(F) /\ r \in F
  BY SeqMonotonic DEF RootsOk, GoodRoots
<1>2. Len(roots) \in Nat /\ DOMAIN roots = 1..Len(roots)
  BY <1>1, LenProperties
<1> HIDE DEF F
<1>3. PICK new : new = Append(roots, r)
  OBVIOUS
<1>4. /\ new \in Seq(F) /\ Len(new) = Len(roots) + 1
      /\ \A j \in 1..Len(roots) : new[j] = roots[j]
      /\ new[Len(roots) + 1] = r
  BY <1>1, <1>3, AppendProperties
<1>5. DOMAIN new = 1..Len(roots) + 1
  BY <1>4, LenProperties
<1>6. \A i \in DOMAIN roots : i \in DOMAIN new /\ new[i] = roots[i]
  BY <1>2, <1>4, <1>5
<1>7. Len(roots) + 1 \in DOMAIN new
  BY <1>2, <1>5
<1>8. roots' = new
  BY <1>3
<1>9. RootsStay
  BY <1>6, <1>8 DEF RootsStay
<1>10. \E j \in DOMAIN roots' : roots'[j].path = r.path
  BY <1>4, <1>7, <1>8
<1> QED BY <1>9, <1>10

\* The caller of the outermost walk_tree forgets no root; register_roots, which alone takes one
\* from its list, keeps it, unless the result is ERR_IGNORE, the one it does nothing about.
LEMMA FinishAnswers ==
  ASSUME RootsOk, NEW v, Finish(v), NEW root, root = Head(pending), task \in {"restore", "restat"} => idx \in DOMAIN roots,
         task \in {"register", "event", "restore", "restat"}
  PROVE  /\ RootsStay
         /\ task = "register" /\ v >= 0 => RootPath(root.path)'
         /\ task = "register" /\ (v >= 0 \/ v \in {ERR_CONTINUE, ERR_ABORT, ERR_MISSING})
              => Answered(root)' \/ task' = "giveup"
         /\ task # "register" => UNCHANGED pending /\ task' \in {"dispatch", "giveup", "restore"}
         /\ task = "register" => pending' = Tail(pending) /\ task' \in {"register", "giveup"}
<1>1. CASE task = "register"
  <2>1. /\ pending' = Tail(pending) /\ task' = IF v = ERR_ABORT THEN "giveup" ELSE "register"
        /\ v = ERR_CONTINUE => Head(pending).path \in unwatchable'
    BY <1>1 DEF Finish, Unwatchable
  <2>2. CASE v >= 0 \/ v = ERR_MISSING
    <3>1. PICK r : r = [path |-> Head(pending).path, flat |-> Head(pending).flat, id |-> v]
      OBVIOUS
    <3>2. roots' = Append(roots, r) /\ r.path = Head(pending).path
      BY <1>1, <2>2, <3>1 DEF Finish
    <3>3. RootsStay /\ \E j \in DOMAIN roots' : roots'[j].path = root.path
      BY <3>2, AppendedRoot
    <3>4. Answered(root)' /\ RootPath(root.path)'
      BY <3>3 DEF Answered, RootPath
    <3> QED BY <1>1, <2>1, <3>3, <3>4
  <2>3. CASE ~(v >= 0 \/ v = ERR_MISSING)
    <3>1. roots' = roots
      BY <1>1, <2>3 DEF Finish
    <3>2. RootsStay
      BY <3>1 DEF RootsStay
    <3>3. v = ERR_CONTINUE => Answered(root)'
      BY <2>1 DEF Answered
    <3> QED BY <1>1, <2>1, <2>3, <3>2, <3>3
  <2> QED BY <2>2, <2>3
<1>2. CASE task = "event"
  <2>1. UNCHANGED <<roots, pending>> /\ task' \in {"dispatch", "giveup"}
    BY <1>2 DEF Finish
  <2> QED BY <1>2, <2>1 DEF RootsStay
<1>3. CASE task \in {"restore", "restat"}
  <2>1. roots' = [roots EXCEPT ![idx].id = v] /\ task' = "restore" /\ UNCHANGED pending
    BY <1>3 DEF Finish
  <2>2. DOMAIN roots' = DOMAIN roots /\ \A i \in DOMAIN roots : i # idx => roots'[i] = roots[i]
    BY <2>1
  <2>3. roots'[idx] = [roots[idx] EXCEPT !.id = v] /\ IsRoot(roots[idx])
    BY <1>3, <2>1 DEF RootsOk, GoodRoots
  <2>4. roots'[idx].path = roots[idx].path
    BY <2>3, SetIdPath
  <2>5. \A i \in DOMAIN roots : roots'[i].path = roots[i].path
    BY <2>2, <2>4
  <2>6. RootsStay
    BY <2>2, <2>5 DEF RootsStay
  <2> QED BY <1>3, <2>1, <2>6
<1> QED BY <1>1, <1>2, <1>3

----------------------------------------------------------------------------
\* The steps of walk_tree.
LEMMA FirstFrame ==
  ASSUME FsInv, stack # <<>>
  PROVE  /\ 1 \in DOMAIN stack /\ Len(stack) \in DOMAIN stack /\ Top = stack[Len(stack)]
         /\ Len(stack) \in Nat \ {0} /\ DOMAIN stack = 1..Len(stack)
         /\ task \in {"register", "event", "restore"}
<1>1. Len(stack) \in Nat \ {0} /\ DOMAIN stack = 1..Len(stack) /\ Top = stack[Len(stack)]
  BY CallersSame
<1>2. task \in {"register", "event", "restore"}
  BY DEF FsInv, WalksForATask
<1> QED BY <1>1, <1>2

LEMMA ReturnAnswers ==
  ASSUME NotifierInv, AnswerInv, FsInv', stack # <<>>, NEW v, NEW marks, ReturnFrom(v, marks), UNCHANGED <<walk, fs>>,
         \/ v \in -4..-1 /\ Top.id = Nil
         \/ v \in Live /\ v = Top.id
  PROVE  AnswerInv'
<1>0. FsInv /\ LeakInv /\ IInv /\ RootsOk /\ Live \subseteq Wds /\ Nil \notin Wds /\ Wds \subseteq Nat
  BY WdsAssumption DEF NotifierInv, LeakInv, FsInv, IInv, TypeOK
<1>1. task \in {"register", "event", "restore"} /\ (task = "restore" => idx \in DOMAIN roots)
  BY <1>0, FirstFrame DEF LeakInv, Restoring
<1>2. /\ FewerNodes
      /\ Fatal(v) => \A w \in Live' : \A id \in WatchesOfCallers \cap Wds : Slot(id) # Slot(w)
  <2>1. CASE Fatal(v)
    <3>1. RmWatchesFrom(marks, WatchesOfCallers)
      BY <2>1 DEF ReturnFrom, ReturnTo
    <3> QED BY <1>0, <3>1, RmWatchesFrees, FewerAfterRm
  <2>2. CASE ~Fatal(v)
    <3>1. RmWatchesFrom(marks, {})
      BY <2>2 DEF ReturnFrom, ReturnTo
    <3> QED BY <1>0, <2>2, <3>1, FewerAfterRm
  <2> QED BY <2>1, <2>2
<1>3. CASE stack' # <<>>
  <2>1. ~Fatal(v) /\ stack' = Callers /\ UNCHANGED <<roots, task, idx, pending>>
    BY <1>3 DEF ReturnFrom, ReturnTo, loopVars
  <2>2. /\ DOMAIN stack' \subseteq DOMAIN stack /\ \A i \in DOMAIN stack' : stack'[i] = stack[i]
        /\ stack'[1] = stack[1]
    BY <1>0, <1>3, <2>1, CallersSame
  <2>3. UNCHANGED node /\ Live' = Live
    BY <2>1, RmNothing DEF ReturnFrom, ReturnTo, wtVars, Live
  <2>4. FramePaths' /\ KidPaths'
    BY <2>2, <2>3 DEF AnswerInv, FramePaths, FramePath, KidPaths
  <2>5. TopPaths'
    BY <1>3, <2>1, <2>2, <2>3 DEF AnswerInv, TopPaths, TopPath, RootPath
  <2>6. WalkOfRoot' /\ NoMoreRoots'
    BY <1>3, <2>1, <2>2 DEF AnswerInv, WalkOfRoot, NoMoreRoots, Exists
  <2> QED BY <2>4, <2>5, <2>6 DEF AnswerInv
<1>4. CASE stack' = <<>>
  <2>1. Finish(v) /\ (Fatal(v) \/ Len(stack) = 1)
    BY <1>0, <1>4, CallersSame DEF ReturnFrom, ReturnTo
  <2>2. PICK root : root = Head(pending)
    OBVIOUS
  <2>3. /\ RootsStay
        /\ task = "register" /\ v >= 0 => RootPath(root.path)'
        /\ task # "register" => UNCHANGED pending /\ task' \in {"dispatch", "giveup", "restore"}
        /\ task = "register" => pending' = Tail(pending) /\ task' \in {"register", "giveup"}
    BY <1>0, <1>1, <2>1, <2>2, FinishAnswers
  <2>4. ASSUME NEW w \in Live', task = "register", stack[1].id = w PROVE TopPath(w)'
    <3>1. w \in Live /\ w # Nil /\ w \in Wds /\ node'[w].path = node[w].path
      BY <1>0, <1>2 DEF FewerNodes
    <3>2. Len(stack) = 1
      <4>1. SUFFICES ASSUME Len(stack) # 1 PROVE FALSE
        OBVIOUS
      <4>2. Fatal(v) /\ 1 \in DOMAIN Callers /\ Callers[1] = stack[1]
        BY <1>0, <2>1, <4>1, CallersSame
      <4>3. w \in WatchesOfCallers \cap Wds
        BY <2>4, <3>1, <4>2 DEF WatchesOfCallers
      <4> QED BY <1>2, <4>2, <4>3
    <3>3. Top = stack[1] /\ 1 \in DOMAIN stack
      BY <1>0, <3>2, FirstFrame
    <3>4. v = w /\ v >= 0
      BY <1>0, <2>4, <3>1, <3>3
    <3>5. node[w].path = stack[1].path
      BY <2>4, <3>1, <3>3 DEF AnswerInv, FramePaths, FramePath
    <3>6. stack[1].path = root.path
      BY <2>2, <2>4 DEF AnswerInv, WalkOfRoot
    <3>7. node'[w].path = root.path
      BY <3>1, <3>5, <3>6
    <3> QED BY <2>3, <2>4, <3>4, <3>7 DEF TopPath, RootPath
  <2>5. TopPaths'
    BY <1>2, <2>3, <2>4, FewerTops DEF AnswerInv
  <2>6. NoMoreRoots'
    BY <1>1, <2>3 DEF AnswerInv, NoMoreRoots
  <2>7. FramePaths' /\ WalkOfRoot'
    <3>1. DOMAIN <<>> = {}
      OBVIOUS
    <3> QED BY <1>4, <3>1 DEF FramePaths, WalkOfRoot
  <2>8. KidPaths'
    BY <1>2, FewerKids DEF AnswerInv
  <2> QED BY <2>5, <2>6, <2>7, <2>8 DEF AnswerInv
<1> QED BY <1>3, <1>4

\* The frame on top changes, and its node may be new.
LEMMA SetTopAnswers ==
  ASSUME NotifierInv, AnswerInv, stack # <<>>, NEW f, SetTop(f), UNCHANGED <<walk, fs, loopVars>>,
         f.path = Top.path, f.parent = Top.parent,
         f.id = Top.id \/ (Top.id = Nil /\ node'[f.id].path = Top.path),
         f.at = "compare" => f.met \in Live /\ node[f.met].path # f.path, Live \subseteq Live',
         \A w \in Live : node'[w].path = node[w].path /\ node'[w].parent = node[w].parent,
         \A w \in Live' \ Live : w = f.id /\ node'[w].parent = Top.parent /\ node'[w].path = Top.path
  PROVE  AnswerInv'
<1>0. FsInv /\ LeakInv /\ IInv /\ Live \subseteq Wds /\ Nil \notin Wds
  BY WdsAssumption DEF NotifierInv, LeakInv, FsInv, IInv, TypeOK
<1>1. /\ 1 \in DOMAIN stack /\ Len(stack) \in DOMAIN stack /\ Top = stack[Len(stack)]
      /\ DOMAIN stack = 1..Len(stack) /\ task \in {"register", "event", "restore"}
  BY <1>0, FirstFrame
<1>2. /\ DOMAIN stack' = DOMAIN stack /\ stack'[Len(stack)] = f /\ stack' # <<>>
      /\ \A i \in DOMAIN stack : i # Len(stack) => stack'[i] = stack[i]
  BY <1>0, SetTopFrames
<1>3. UNCHANGED <<roots, task, idx, pending>>
  BY DEF loopVars
<1>4. \A i \in DOMAIN stack : stack[i].id \in Live \cup {Nil} /\ stack[i].parent \in Live \cup {Nil}
  BY <1>0 DEF LeakInv, WalkIds, FsInv, StackOk, GoodStack, FrameOk
<1>5. \A w \in Live : node[w].parent \in Live \cup {Nil}
  BY <1>0 DEF IInv, Forest, ParentsAreLive
<1>6. ASSUME NEW i \in DOMAIN stack, NEW g, g = stack'[i] PROVE FramePath(g)'
  <2>1. FramePath(stack[i])
    BY DEF AnswerInv, FramePaths
  <2>2. CASE i # Len(stack)
    <3>1. g = stack[i]
      BY <1>2, <1>6, <2>2
    <3> QED BY <1>4, <2>1, <3>1 DEF FramePath
  <2>3. CASE i = Len(stack)
    <3>1. g = f /\ stack[i] = Top
      BY <1>1, <1>2, <1>6, <2>3
    <3> QED BY <1>4, <2>1, <3>1 DEF FramePath
  <2> QED BY <2>2, <2>3
<1>7. FramePaths'
  <2>1. \A i \in DOMAIN stack : \E g : g = stack'[i] /\ FramePath(g)'
    BY <1>6
  <2> QED BY <1>2, <2>1 DEF FramePaths, FramePath
<1>8. KidPaths'
  <2>1. ASSUME NEW w \in Live', node'[w].parent # Nil
        PROVE  IsParentPath(node'[node'[w].parent].path, node'[w].path)
    <3>1. CASE w \in Live
      <4>1. node'[w].parent = node[w].parent /\ node'[w].path = node[w].path /\ node[w].parent \in Live
        BY <1>5, <2>1, <3>1
      <4>2. IsParentPath(node[node[w].parent].path, node[w].path)
        BY <2>1, <3>1, <4>1 DEF AnswerInv, KidPaths
      <4> QED BY <4>1, <4>2
    <3>2. CASE w \notin Live
      <4>1. node'[w].parent = Top.parent /\ node'[w].path = Top.path /\ Top.parent \in Live
        BY <1>1, <1>4, <2>1, <3>2
      <4>2. IsParentPath(node[Top.parent].path, Top.path)
        BY <1>1, <2>1, <4>1 DEF AnswerInv, FramePaths, FramePath
      <4> QED BY <4>1, <4>2
    <3> QED BY <3>1, <3>2
  <2> QED BY <2>1 DEF KidPaths
<1>9. stack'[1].path = stack[1].path /\ (stack[1].id # Nil => stack'[1].id = stack[1].id)
  BY <1>1, <1>2
<1>10. TopPaths'
  <2>1. ASSUME NEW w \in Live', node'[w].parent = Nil PROVE TopPath(w)'
    <3>1. CASE w \in Live
      <4>1. TopPath(w) /\ node'[w].path = node[w].path /\ w # Nil
        BY <1>0, <2>1, <3>1 DEF AnswerInv, TopPaths
      <4> QED BY <1>2, <1>3, <1>9, <4>1 DEF TopPath, RootPath
    <3>2. CASE w \notin Live
      <4>1. f.id = w /\ node'[w].path = Top.path /\ Top.parent = Nil
        BY <2>1, <3>2
      <4>2. Len(stack) = 1
        BY <1>0, <4>1, TopLeak
      <4>3. stack'[1] = f /\ stack[1] = Top
        BY <1>1, <1>2, <4>2
      <4>4. task # "event"
        BY <1>0, <4>1, <4>3 DEF LeakInv, EventWalk
      <4>5. CASE task = "register"
        BY <1>2, <1>3, <4>1, <4>3, <4>5 DEF TopPath
      <4>6. CASE task = "restore"
        <5>1. idx \in DOMAIN roots /\ roots[idx].path = Top.path
          BY <1>0, <4>3, <4>6 DEF LeakInv, Restoring, AnswerInv, WalkOfRoot
        <5> QED BY <1>3, <4>1, <5>1 DEF TopPath, RootPath
      <4> QED BY <1>1, <4>4, <4>5, <4>6
    <3> QED BY <3>1, <3>2
  <2> QED BY <2>1 DEF TopPaths
<1>11. WalkOfRoot' /\ NoMoreRoots'
  BY <1>2, <1>3, <1>9 DEF AnswerInv, WalkOfRoot, NoMoreRoots, Exists
<1> QED BY <1>7, <1>8, <1>10, <1>11 DEF AnswerInv

LEMMA SetTopStays ==
  ASSUME NotifierInv, AnswerInv, stack # <<>>, NEW f, SetTop(f), UNCHANGED <<walk, fs, loopVars>>, SameNodes,
         f.path = Top.path, f.parent = Top.parent,
         f.id = Top.id \/ (Top.id = Nil /\ node[f.id].path = Top.path),
         f.at = "compare" => f.met \in Live /\ node[f.met].path # f.path
  PROVE  AnswerInv'
<1>1. UNCHANGED node /\ Live' = Live
  BY DEF SameNodes, wtVars, Live
<1> QED BY <1>1, SetTopAnswers

LEMMA OpenDirAnswers ==
  ASSUME NotifierInv, AnswerInv, FsInv', OpenDir
  PROVE  AnswerInv'
<1>1. /\ stack # <<>> /\ Top.id = Nil /\ UNCHANGED <<fs, walk>> /\ FsInv
  BY TopLeak DEF OpenDir, WalkStep, NotifierInv, SameTree
<1>2. ASSUME NEW v \in {ERR_IGNORE, ERR_CONTINUE}, NEW marks, ReturnFrom(v, marks) PROVE AnswerInv'
  <2>1. v \in -4..-1
    BY DEF ERR_IGNORE, ERR_CONTINUE
  <2> QED BY <1>1, <1>2, <2>1, ReturnAnswers
<1>3. ASSUME NEW d, SetTop([Top EXCEPT !.at = "add", !.dir = d]), SameNodes, UNCHANGED loopVars
      PROVE  AnswerInv'
  <2>1. PICK f : f = [Top EXCEPT !.at = "add", !.dir = d]
    OBVIOUS
  <2>2. f.path = Top.path /\ f.parent = Top.parent /\ f.id = Top.id /\ f.at = "add"
    BY <1>1, <2>1, TopFields
  <2> QED BY <1>1, <1>3, <2>1, <2>2, SetTopStays
<1>4. \/ \E v \in {ERR_IGNORE, ERR_CONTINUE} : Return(v)
      \/ \E d : SetTop([Top EXCEPT !.at = "add", !.dir = d]) /\ SameNodes /\ UNCHANGED loopVars
  BY DEF OpenDir
<1> QED BY <1>2, <1>3, <1>4 DEF Return

\* What add_watch adds.
LEMMA AddedNode ==
  ASSUME IInv, NEW wd \in Wds, NEW path, NEW parent, AddNode(wd, path, parent)
  PROVE  /\ Live' = Live \cup {wd} /\ wd \notin Live
         /\ node'[wd].path = path /\ node'[wd].parent = parent
         /\ \A w \in Live : node'[w].path = node[w].path /\ node'[w].parent = node[w].parent
<1>1. TypeOK /\ TableMatchesNodes /\ Nil \notin Wds
  BY WdsAssumption DEF IInv, Forest
<1>2. Live' = Live \cup {wd} /\ wd \notin Live
  BY <1>1 DEF AddNode, Live, NodeAt, TableMatchesNodes, TypeOK
<1>3. node' = [w \in Live \cup {wd} |->
                IF w = wd THEN [path |-> path, parent |-> parent, kids |-> {}]
                ELSE IF w = parent THEN [node[w] EXCEPT !.kids = @ \cup {wd}]
                ELSE node[w]]
  BY DEF AddNode
<1>4. node'[wd].path = path /\ node'[wd].parent = parent
  BY <1>3
<1>5. ASSUME NEW w \in Live PROVE node'[w].path = node[w].path /\ node'[w].parent = node[w].parent
  <2>1. node[w] \in Nodes
    BY <1>1 DEF TypeOK
  <2>2. node'[w] = IF w = parent THEN [node[w] EXCEPT !.kids = @ \cup {wd}] ELSE node[w]
    BY <1>2, <1>3
  <2>3. PICK n : n = [node[w] EXCEPT !.kids = @ \cup {wd}]
    OBVIOUS
  <2>4. n.path = node[w].path /\ n.parent = node[w].parent
    BY <2>1, <2>3 DEF Nodes
  <2> QED BY <2>2, <2>3, <2>4
<1> QED BY <1>2, <1>4, <1>5

LEMMA AddWatchAnswers ==
  ASSUME NotifierInv, AnswerInv, FsInv', AddWatch
  PROVE  AnswerInv'
<1>1. /\ stack # <<>> /\ Top.id = Nil /\ UNCHANGED <<fs, walk>> /\ FsInv /\ IInv
  BY TopLeak DEF AddWatch, WalkStep, NotifierInv, SameTree, FsInv
<1>2. ASSUME NEW v \in {ERR_IGNORE, ERR_CONTINUE, ERR_ABORT}, NEW marks, ReturnFrom(v, marks) PROVE AnswerInv'
  <2>1. v \in -4..-1
    BY DEF ERR_IGNORE, ERR_CONTINUE, ERR_ABORT
  <2> QED BY <1>1, <1>2, <2>1, ReturnAnswers
<1>3. CASE AddWatchErrno
  BY <1>2, <1>3 DEF AddWatchErrno, AddWatchFails, Return
<1>4. ASSUME NEW wd \in Wds, AddWatchTo(wd) PROVE AnswerInv'
  <2> DEFINE list == IF walk.recursive THEN "list" ELSE "scan"
  <2>1. \/ ReturnFrom(ERR_ABORT, MarkedAs(wd))
        \/ /\ SetTop([Top EXCEPT !.id = wd, !.names = {}, !.at = list]) /\ UNCHANGED loopVars
           /\ \/ SameNodes /\ node[wd].path = Top.path
              \/ AddNode(wd, Top.path, Top.parent)
        \/ /\ SetTop([Top EXCEPT !.at = "compare", !.met = wd]) /\ UNCHANGED loopVars
           /\ SameNodes /\ NodeAt(wd) = wd /\ node[wd].path # Top.path
    BY <1>4, ZenonT(60) DEF AddWatchTo
  <2>3. list # "compare"
    OBVIOUS
  <2> HIDE DEF list
  <2>4. CASE /\ SetTop([Top EXCEPT !.at = "compare", !.met = wd]) /\ UNCHANGED loopVars
             /\ SameNodes /\ NodeAt(wd) = wd /\ node[wd].path # Top.path
    <3>1. PICK f : f = [Top EXCEPT !.at = "compare", !.met = wd]
      OBVIOUS
    <3>2. f.path = Top.path /\ f.parent = Top.parent /\ f.id = Top.id /\ f.met = wd /\ SetTop(f)
      BY <1>1, <2>4, <3>1, TopFields
    <3>3. wd \in Live
      BY <1>1, <2>4, SlotInRange, WdsAssumption DEF NodeAt, IInv, Forest, TableMatchesNodes
    <3> QED BY <1>1, <2>4, <3>2, <3>3, SetTopStays
  <2>2. ASSUME NEW a, a # "compare", SetTop([Top EXCEPT !.id = wd, !.names = {}, !.at = a]), UNCHANGED loopVars,
               (SameNodes /\ node[wd].path = Top.path) \/ AddNode(wd, Top.path, Top.parent)
        PROVE  AnswerInv'
    <3>1. PICK f : f = [Top EXCEPT !.id = wd, !.names = {}, !.at = a]
      OBVIOUS
    <3>2. f.path = Top.path /\ f.parent = Top.parent /\ f.id = wd /\ f.at = a /\ SetTop(f)
      BY <1>1, <2>2, <3>1, TopFields
    <3>3. CASE SameNodes /\ node[wd].path = Top.path
      BY <1>1, <2>2, <3>2, <3>3, SetTopStays
    <3>4. CASE AddNode(wd, Top.path, Top.parent)
      <4>1. PICK p, q : p = Top.path /\ q = Top.parent
        OBVIOUS
      <4>2. /\ Live' = Live \cup {wd} /\ node'[wd].path = p /\ node'[wd].parent = q
            /\ \A w \in Live : node'[w].path = node[w].path /\ node'[w].parent = node[w].parent
        BY <1>1, <3>4, <4>1, AddedNode
      <4> QED BY <1>1, <2>2, <3>2, <4>1, <4>2, SetTopAnswers
    <3> QED BY <2>2, <3>3, <3>4
  <2> QED BY <1>2, <2>1, <2>2, <2>3, <2>4
<1> QED BY <1>3, <1>4 DEF AddWatch

LEMMA ComparePathsAnswers ==
  ASSUME NotifierInv, AnswerInv, FsInv', ComparePaths
  PROVE  AnswerInv'
<1>1. /\ stack # <<>> /\ Top.id = Nil /\ UNCHANGED <<fs, walk>>
      /\ \E v \in {ERR_IGNORE, ERR_ABORT} : ReturnFrom(v, kwd)
  BY TopLeak DEF ComparePaths, WalkStep, NotifierInv, SameTree, Return
<1>2. ERR_IGNORE \in -4..-1 /\ ERR_ABORT \in -4..-1
  BY DEF ERR_IGNORE, ERR_ABORT
<1> QED BY <1>1, <1>2, ReturnAnswers

LEMMA ReadDirAnswers ==
  ASSUME NotifierInv, AnswerInv, ReadDir
  PROVE  AnswerInv'
<1>1. stack # <<>> /\ UNCHANGED <<fs, walk, loopVars>> /\ FsInv /\ SameNodes
  BY DEF ReadDir, WalkStep, NotifierInv, SameTree
<1>2. PICK f : f = [Top EXCEPT !.at = "scan", !.names = EntriesOf(Top.dir)]
  OBVIOUS
<1>3. f.path = Top.path /\ f.parent = Top.parent /\ f.id = Top.id /\ f.at = "scan"
  BY <1>1, <1>2, TopFields
<1>4. SetTop(f)
  BY <1>2 DEF ReadDir
<1> QED BY <1>1, <1>3, <1>4, SetTopStays

LEMMA WalkEntryAnswers ==
  ASSUME NotifierInv, AnswerInv, WalkEntry
  PROVE  AnswerInv'
<1>1. /\ stack # <<>> /\ FrameData(Top) /\ UNCHANGED <<fs, walk, node, roots, task, pending, idx>>
      /\ FsInv /\ LeakInv /\ Live' = Live /\ Top.at = "scan"
  BY TopTyped DEF WalkEntry, WalkStep, NotifierInv, TypeInv, SameTree, SameNodes, wtVars, loopVars, Live
<1>2. PICK n \in Top.names :
        stack' = Append([stack EXCEPT ![Len(stack)].names = @ \ {n}],
                        EnterFrame(Child(Top.path, n), NodeAt(Top.id)))
  BY DEF WalkEntry
<1>3. PICK f, new : /\ f = [Top EXCEPT !.names = @ \ {n}]
                    /\ new = EnterFrame(Child(Top.path, n), NodeAt(Top.id))
  OBVIOUS
<1>4. f.path = Top.path /\ f.parent = Top.parent /\ f.id = Top.id /\ f.at = "scan"
  BY <1>1, <1>3, TopFields
<1>5. stack' = Append([stack EXCEPT ![Len(stack)] = f], new)
  BY <1>2, <1>3 DEF Top
<1>6. /\ Len(stack) \in Nat \ {0} /\ DOMAIN stack = 1..Len(stack)
      /\ DOMAIN stack' = 1..(Len(stack) + 1) /\ stack'[Len(stack)] = f
      /\ \A i \in DOMAIN stack : i # Len(stack) => stack'[i] = stack[i]
      /\ stack'[Len(stack) + 1] = new
  BY <1>1, <1>5, PushFrames
<1>7. 1 \in DOMAIN stack /\ Len(stack) \in DOMAIN stack /\ Top = stack[Len(stack)] /\ stack' # <<>>
  <2>1. DOMAIN <<>> = {}
    OBVIOUS
  <2> QED BY <1>1, <1>6, <2>1, FirstFrame
<1>8. stack'[1].path = stack[1].path /\ stack'[1].id = stack[1].id
  BY <1>4, <1>6, <1>7
<1>9. /\ new.path = Child(Top.path, n) /\ new.parent = Top.id /\ new.id = Nil /\ new.at = "enter"
      /\ Top.id \in Live /\ node[Top.id].path = Top.path
  <2>1. Top.id \in Live
    BY <1>1, TopLeak
  <2>2. Top.id \in Wds /\ NodeAt(Top.id) = Top.id /\ Top.id # Nil
    BY <1>1, <2>1, WdsAssumption DEF FsInv, IInv, TypeOK, Forest, TableMatchesNodes, NodeAt
  <2>3. node[Top.id].path = Top.path
    BY <1>7, <2>2 DEF AnswerInv, FramePaths, FramePath
  <2> QED BY <1>3, <2>1, <2>2, <2>3 DEF EnterFrame
<1>10. IsParentPath(Top.path, Child(Top.path, n))
  <2>1. n \in Names /\ Top.path \in Seq(Names) /\ node[Top.id].path \in Paths
    BY <1>1, <1>9 DEF FrameData, FsInv, IInv, TypeOK, Nodes
  <2>2. PICK p : p = Top.path
    OBVIOUS
  <2>3. p \in Seq(Names) /\ p # <<>> /\ IsParentPath(p, p)
    BY <1>9, <2>1, <2>2, PathNames
  <2>4. IsParentPath(p, Child(p, n))
    BY <2>1, <2>3, AboveEntry
  <2> QED BY <2>2, <2>4
<1>11. ASSUME NEW i \in DOMAIN stack' PROVE FramePath(stack'[i])
  <2>1. CASE i = Len(stack) + 1
    BY <1>6, <1>9, <1>10, <2>1 DEF FramePath
  <2>2. CASE i = Len(stack)
    <3>1. FramePath(Top) /\ stack'[i] = f
      BY <1>6, <1>7, <2>2 DEF AnswerInv, FramePaths
    <3> QED BY <1>4, <3>1 DEF FramePath
  <2>3. CASE i \notin {Len(stack), Len(stack) + 1}
    <3>1. i \in DOMAIN stack
      BY <1>6, <2>3
    <3> QED BY <1>6, <2>3, <3>1 DEF AnswerInv, FramePaths
  <2> QED BY <2>1, <2>2, <2>3
<1>12. FramePaths' /\ KidPaths'
  BY <1>1, <1>11 DEF FramePaths, FramePath, AnswerInv, KidPaths
<1>13. TopPaths'
  BY <1>1, <1>7, <1>8 DEF AnswerInv, TopPaths, TopPath, RootPath
<1>14. WalkOfRoot' /\ NoMoreRoots'
  BY <1>1, <1>7, <1>8 DEF AnswerInv, WalkOfRoot, NoMoreRoots, Exists
<1> QED BY <1>12, <1>13, <1>14 DEF AnswerInv

LEMMA WalkEndAnswers ==
  ASSUME NotifierInv, AnswerInv, FsInv', WalkEnd
  PROVE  AnswerInv'
<1>1. /\ stack # <<>> /\ Return(Top.id) /\ Top.at = "scan" /\ UNCHANGED <<fs, walk>> /\ FsInv /\ LeakInv
  BY DEF WalkEnd, WalkStep, SameTree, NotifierInv
<1>2. Top.id \in Live
  BY <1>1, TopLeak
<1> QED BY <1>1, <1>2, ReturnAnswers DEF Return

----------------------------------------------------------------------------
\* The steps outside walk_tree.
LEMMA SameNodesFewer == UNCHANGED node => FewerNodes
  BY DEF FewerNodes, Live

LEMMA SameRootsStay == UNCHANGED roots => RootsStay
  BY DEF RootsStay

LEMMA FirstFrameAnswers ==
  ASSUME AnswerInv, stack = <<>>, UNCHANGED <<node, roots>>, NEW path, NEW parent,
         stack' = <<EnterFrame(path, parent)>>, parent # Nil => IsParentPath(node[parent].path, path),
         WalkOfRoot', NoMoreRoots'
  PROVE  AnswerInv'
<1>1. PICK f : f = EnterFrame(path, parent)
  OBVIOUS
<1>2. DOMAIN stack' = {1} /\ stack'[1] = f /\ f.path = path /\ f.parent = parent /\ f.id = Nil /\ f.at = "enter"
  BY <1>1 DEF EnterFrame
<1>3. FramePaths'
  BY <1>2 DEF FramePaths, FramePath
<1>4. KidPaths' /\ TopPaths'
  BY DEF AnswerInv, KidPaths, TopPaths, TopPath, RootPath, Live
<1> QED BY <1>3, <1>4 DEF AnswerInv

LEMMA RegisterRootAnswers ==
  ASSUME NotifierInv, AnswerInv, FsInv', RegisterRoot
  PROVE  AnswerInv'
<1>1. /\ stack = <<>> /\ UNCHANGED <<fs, node, task>> /\ task = "register" /\ RootsOk
      /\ NoMoreRoots' /\ FewerNodes
  BY SameNodesFewer DEF RegisterRoot, SameTree, SameNodes, wtVars, NotifierInv, LeakInv, NoMoreRoots
<1>2. PICK r : r = Head(pending)
  OBVIOUS
<1>3. CASE UNCHANGED <<roots, stack>>
  BY <1>1, <1>3, SameRootsStay, OutsideAnswers
<1>4. CASE /\ ~OuterMount(r.path) /\ Exists(r.path) /\ StartWalk(r, InnerMounts(r.path))
           /\ UNCHANGED <<roots, pending>>
  <2>1. stack' = <<EnterFrame(r.path, Nil)>> /\ walk'.mounts = InnerMounts(r.path)
    BY <1>4 DEF StartWalk
  <2>2. stack'[1].path = r.path /\ r.path = Head(pending').path
    BY <1>2, <1>4, <2>1 DEF EnterFrame
  <2>3. Resolve(stack'[1].path) \in DOMAIN fs'
    BY <1>1, <1>4, <2>2 DEF Exists
  <2>4. WalkOfRoot'
    BY <1>1, <1>4, <2>1, <2>2, <2>3 DEF WalkOfRoot, Exists, OuterMount, InnerMounts
  <2>5. PICK p : p = r.path
    OBVIOUS
  <2> QED BY <1>1, <1>4, <2>1, <2>4, <2>5, FirstFrameAnswers
<1>5. CASE /\ roots' = Append(roots, [path |-> r.path, flat |-> r.flat, id |-> ERR_MISSING])
           /\ UNCHANGED stack
  <2>1. PICK new : new = [path |-> r.path, flat |-> r.flat, id |-> ERR_MISSING]
    OBVIOUS
  <2>2. RootsStay
    BY <1>1, <1>5, <2>1, AppendedRoot
  <2> QED BY <1>1, <1>5, <2>2, OutsideAnswers
<1> QED BY <1>2, <1>3, <1>4, <1>5 DEF RegisterRoot

LEMMA FinishedAnswers ==
  ASSUME NotifierInv, AnswerInv, FsInv', NEW v, Finish(v), stack = <<>>, UNCHANGED stack, SameNodes,
         task \in {"register", "restat"}
  PROVE  AnswerInv'
<1>1. RootsOk /\ (task = "restat" => idx \in DOMAIN roots)
  BY DEF NotifierInv, LeakInv, Restoring
<1>2. PICK root : root = Head(pending)
  OBVIOUS
<1>3. /\ RootsStay
      /\ task # "register" => UNCHANGED pending /\ task' \in {"dispatch", "giveup", "restore"}
      /\ task = "register" => task' \in {"register", "giveup"}
  BY <1>1, <1>2, FinishAnswers
<1>4. NoMoreRoots'
  BY <1>3 DEF AnswerInv, NoMoreRoots
<1>5. FewerNodes
  BY SameNodesFewer DEF SameNodes, wtVars
<1> QED BY <1>3, <1>4, <1>5, OutsideAnswers

LEMMA StatFailsAnswers ==
  ASSUME NotifierInv, AnswerInv, FsInv', StatFails
  PROVE  AnswerInv'
  BY FinishedAnswers DEF StatFails

LEMMA RestoreRootAnswers ==
  ASSUME NotifierInv, AnswerInv, FsInv', RestoreRoot
  PROVE  AnswerInv'
<1>1. stack = <<>> /\ task = "restat" /\ UNCHANGED node /\ SameNodes /\ pending = <<>>
  BY DEF RestoreRoot, SameNodes, wtVars, AnswerInv, NoMoreRoots
<1>2. CASE StartWalk(roots[idx], {}) /\ task' = "restore" /\ UNCHANGED <<roots, pending, idx>>
  <2>1. stack' = <<EnterFrame(roots[idx].path, Nil)>>
    BY <1>2 DEF StartWalk
  <2>2. stack'[1].path = roots[idx].path
    BY <2>1 DEF EnterFrame
  <2>3. WalkOfRoot' /\ NoMoreRoots'
    BY <1>1, <1>2, <2>2 DEF WalkOfRoot, NoMoreRoots
  <2>4. PICK p : p = roots[idx].path
    OBVIOUS
  <2> QED BY <1>1, <1>2, <2>1, <2>3, <2>4, FirstFrameAnswers
<1>3. CASE Finish(ERR_MISSING) /\ UNCHANGED stack
  BY <1>1, <1>3, FinishedAnswers
<1> QED BY <1>2, <1>3 DEF RestoreRoot

LEMMA RemovalAnswers ==
  ASSUME NotifierInv, NEW p, CheckRootRemoval(p)
  PROVE  FewerNodes /\ RootsStay
<1>1. RmWatchesFrom(kwd, {roots[i].id : i \in RemovedRoots(p)}) /\ IInv /\ RootsOk
  BY DEF CheckRootRemoval, RmWatches, NotifierInv, FsInv, LeakInv
<1>2. roots' = [i \in DOMAIN roots |->
                  IF i \in RemovedRoots(p) THEN [roots[i] EXCEPT !.id = -1] ELSE roots[i]]
  BY DEF CheckRootRemoval
<1>3. ASSUME NEW i \in DOMAIN roots PROVE roots'[i].path = roots[i].path
  <2>1. [roots[i] EXCEPT !.id = -1].path = roots[i].path
    BY <1>1, SetIdPath DEF RootsOk, GoodRoots
  <2> QED BY <1>2, <2>1
<1>4. DOMAIN roots' = DOMAIN roots
  BY <1>2
<1>5. RootsStay
  BY <1>3, <1>4 DEF RootsStay
<1> QED BY <1>1, <1>5, FewerAfterRm

LEMMA DispatchAnswers ==
  ASSUME NotifierInv, AnswerInv, FsInv', Dispatch
  PROVE  AnswerInv'
<1>1. PICK e : e = Head(batch)
  OBVIOUS
<1>2. /\ ProcessEvent(e) /\ stack = <<>> /\ task = "dispatch" /\ batch # <<>> /\ UNCHANGED pending
      /\ FsInv /\ IInv /\ pending = <<>> /\ batch \in Seq(Events)
  BY <1>1 DEF Dispatch, NotifierInv, FsInv, WalksForATask, LeakInv, AnswerInv, NoMoreRoots, EventsOk
<1>3. e \in Events
  BY <1>1, <1>2, HeadTailProperties
<1>4. NoMoreRoots'
  BY <1>2 DEF NoMoreRoots
<1> DEFINE n == IF e.kind = "overflow" THEN Nil ELSE NodeAt(e.wd)
           p == IF e.name = NoName THEN node[n].path ELSE Child(node[n].path, e.name)
<1>5. \/ UNCHANGED <<wtVars, kwd, roots, stack>>
      \/ UNCHANGED <<roots, stack>> /\ DropKid(n, p)
      \/ /\ n # Nil /\ stack' = <<EnterFrame(p, n)>> /\ task' = "event" /\ UNCHANGED <<wtVars, roots>>
      \/ CheckRootRemoval(p) /\ UNCHANGED stack
  BY <1>2, Zenon DEF ProcessEvent
<1>6. CASE UNCHANGED <<wtVars, kwd, roots, stack>>
  BY <1>2, <1>4, <1>6, SameNodesFewer, SameRootsStay, OutsideAnswers DEF wtVars
<1>7. CASE UNCHANGED <<roots, stack>> /\ DropKid(n, p)
  <2>1. UNCHANGED <<wtVars, kwd>> \/ \E ids : RmWatchesFrom(kwd, ids)
    BY <1>7 DEF DropKid, RmWatches
  <2>2. FewerNodes
    BY <1>2, <2>1, SameNodesFewer, FewerAfterRm DEF wtVars
  <2> QED BY <1>2, <1>4, <1>7, <2>2, SameRootsStay, OutsideAnswers
<1>8. CASE n # Nil /\ stack' = <<EnterFrame(p, n)>> /\ task' = "event" /\ UNCHANGED <<wtVars, roots>>
  <2>1. n = NodeAt(e.wd) /\ e.wd \in Int /\ e.name \in Names \cup {NoName}
    BY <1>3, <1>8 DEF Events
  <2>2. Slot(e.wd) \in Slots
    BY <2>1, CapacityAssumption, SMT DEF Slot, Slots
  <2>3. n \in Live
    BY <1>2, <1>8, <2>1, <2>2 DEF NodeAt, FsInv, IInv, Forest, TableMatchesNodes
  <2>4. PICK q : q = node[n].path
    OBVIOUS
  <2>5. q \in Paths
    BY <1>2, <2>3, <2>4 DEF IInv, TypeOK, Nodes
  <2>6. q \in Seq(Names) /\ q # <<>> /\ IsParentPath(q, q)
    BY <2>5, PathNames
  <2>7. e.name \in Names => IsParentPath(q, Child(q, e.name))
    BY <2>6, AboveEntry
  <2>8. IsParentPath(q, p)
    BY <2>1, <2>4, <2>6, <2>7
  <2>9. WalkOfRoot'
    BY <1>8 DEF WalkOfRoot
  <2> HIDE DEF n, p
  <2>10. PICK path, parent : path = p /\ parent = n
    OBVIOUS
  <2> QED BY <1>2, <1>4, <1>8, <2>4, <2>8, <2>9, <2>10, FirstFrameAnswers DEF wtVars
<1>9. CASE CheckRootRemoval(p) /\ UNCHANGED stack
  <2> HIDE DEF p
  <2> QED BY <1>2, <1>4, <1>9, RemovalAnswers, OutsideAnswers
<1> HIDE DEF n, p
<1> QED BY <1>5, <1>6, <1>7, <1>8, <1>9

\* Without roots there are no nodes.
LEMMA NoRootsNoNodes ==
  ASSUME FsInv', LeakInv', stack' = <<>>, roots' = <<>>
  PROVE  Live' = {}
<1> SUFFICES ASSUME Live' # {} PROVE FALSE
  OBVIOUS
<1>1. PICK x \in Live' : node'[x].parent \notin Live'
  BY DEF FsInv, IInv, Forest, NoCycles
<1>2. node'[x].parent = Nil
  BY <1>1 DEF FsInv, IInv, Forest, ParentsAreLive
<1>3. RootSlotIn(roots', x)
  BY <1>2 DEF LeakInv, Anchored, WalkRootIn
<1>4. DOMAIN <<>> = {}
  OBVIOUS
<1> QED BY <1>3, <1>4 DEF RootSlotIn

LEMMA NoNodesAnswers ==
  ASSUME AnswerInv, Live' = {}, stack' = <<>>, NoMoreRoots'
  PROVE  AnswerInv'
<1>1. DOMAIN <<>> = {}
  OBVIOUS
<1> QED BY <1>1 DEF AnswerInv, KidPaths, FramePaths, TopPaths, WalkOfRoot

LEMMA UpdateRootsAnswers ==
  ASSUME NotifierInv, AnswerInv, FsInv', LeakInv', UpdateRoots
  PROVE  AnswerInv'
<1>1. stack' = <<>> /\ roots' = <<>> /\ NoMoreRoots'
  BY DEF UpdateRoots, NotifierInv, FsInv, WalksForATask, NoMoreRoots
<1>2. Live' = {}
  BY <1>1, NoRootsNoNodes
<1> QED BY <1>1, <1>2, NoNodesAnswers

LEMMA ShutdownAnswers ==
  ASSUME NotifierInv, AnswerInv, LeakInv', Shutdown
  PROVE  AnswerInv'
<1>1. stack' = <<>> /\ task' = "exited"
  BY DEF Shutdown, ShutdownFreeing, NotifierInv, FsInv, WalksForATask
<1>2. Live' = {} /\ NoMoreRoots'
  BY <1>1 DEF LeakInv, ExitFreesAll, NoMoreRoots
<1> QED BY <1>1, <1>2, NoNodesAnswers

LEMMA QuietAnswers ==
  ASSUME NotifierInv, AnswerInv, FsInv',
         RegisterDone \/ ReadEvents \/ DispatchDone \/ Timeout \/ CheckRoot \/ Quit
  PROVE  AnswerInv'
<1>1. stack = <<>> /\ UNCHANGED <<node, stack, roots, pending>>
  BY DEF RegisterDone, ReadEvents, DispatchDone, Timeout, CheckRoot, Quit, SameNodes,
         wtVars, NotifierInv, FsInv, WalksForATask
<1>2. \/ task = "register" /\ pending = <<>>
      \/ task \notin {"register", "giveup", "exited"}
  BY DEF RegisterDone, ReadEvents, DispatchDone, Timeout, CheckRoot, Quit
<1>3. NoMoreRoots'
  BY <1>1, <1>2 DEF AnswerInv, NoMoreRoots
<1> QED BY <1>1, <1>3, SameNodesFewer, SameRootsStay, OutsideAnswers

----------------------------------------------------------------------------
\* The other processes: what is pinned stays.
LEMMA AbovePinned ==
  ASSUME NEW p \in Pinned, NEW a \in Paths, IsParentPath(a, p)
  PROVE  a \in Pinned
<1>1. p \in Paths
  BY PinnedAssumption
<1>2. Len(a) \in Nat \ {0} /\ Len(p) \in Nat /\ Len(a) <= Len(p) /\ SubSeq(p, 1, Len(a)) = a
  BY <1>1, PathNames DEF IsParentPath
<1>3. PICK k : k = Len(a)
  OBVIOUS
<1>4. k \in 1..Len(p) /\ SubSeq(p, 1, k) = a
  BY <1>2, <1>3
<1> QED BY <1>4, PinnedAssumption DEF PrefixClosed

LEMMA PinnedKept ==
  ASSUME DOMAIN fs \subseteq Paths, NEW x \in Pinned, x \in DOMAIN fs, NEW busy, FileTreeNext(busy)
  PROVE  x \in DOMAIN fs'
<1>1. ASSUME NEW p, MkDir(p) PROVE x \in DOMAIN fs'
  BY <1>1 DEF MkDir
<1>2. ASSUME NEW p, RmDir(p) PROVE x \in DOMAIN fs'
  BY <1>2 DEF RmDir
<1>3. ASSUME NEW p, NEW q, Move(p, q) PROVE x \in DOMAIN fs'
  <2> DEFINE moved == {y \in DOMAIN fs : IsParentPath(p, y)}
  <2>1. p \in DOMAIN fs /\ p \notin Pinned /\ DOMAIN fs \ moved \subseteq DOMAIN fs'
    BY <1>3 DEF Move
  <2>2. ~IsParentPath(p, x)
    BY <2>1, AbovePinned
  <2> QED BY <2>1, <2>2
<1>4. ASSUME NEW d \in Disks, Unmount(d, busy) PROVE x \in DOMAIN fs'
  <2> DEFINE gone == {p \in DOMAIN fs : IsParentPath(d, p)}
  <2>1. DOMAIN fs' = (DOMAIN fs \ gone) \cup {d}
    BY <1>4 DEF Unmount
  <2>2. IsParentPath(d, x) => x = d
    BY PinnedAssumption
  <2> QED BY <2>1, <2>2
<1> QED BY <1>1, <1>2, <1>3, <1>4 DEF FileTreeNext

LEMMA OthersAnswers ==
  ASSUME NotifierInv, AnswerInv, Others
  PROVE  AnswerInv'
<1>1. /\ \E busy : FileTreeNext(busy)
      /\ UNCHANGED <<node, stack, walk, roots, task, pending, idx>>
  BY DEF Others, wtVars, loopVars
<1>2. KidPaths' /\ FramePaths' /\ TopPaths' /\ NoMoreRoots'
  BY <1>1 DEF AnswerInv, KidPaths, FramePaths, FramePath, TopPaths, TopPath, RootPath, NoMoreRoots, Live
<1>3. DOMAIN fs \subseteq Paths
  BY DEF NotifierInv, TypeInv, TreeOk, DirsOk
<1>4. \A x \in Pinned : x \in DOMAIN fs => x \in DOMAIN fs'
  BY <1>1, <1>3, PinnedKept
<1>5. WalkOfRoot'
  BY <1>1, <1>4 DEF AnswerInv, WalkOfRoot, Exists
<1> QED BY <1>2, <1>5 DEF AnswerInv

LEMMA AnswerInit == FsInit => AnswerInv
<1> SUFFICES ASSUME FsInit PROVE AnswerInv
  OBVIOUS
<1>1. Live = {} /\ stack = <<>> /\ pending = <<>>
  BY DEF FsInit, Init, Live
<1>2. DOMAIN <<>> = {}
  OBVIOUS
<1> QED BY <1>1, <1>2 DEF AnswerInv, KidPaths, FramePaths, TopPaths, WalkOfRoot, NoMoreRoots

LEMMA AnswerNext ==
  NotifierInv /\ FsInv' /\ LeakInv' /\ AnswerInv /\ [FsNext]_vars => AnswerInv'
<1> SUFFICES ASSUME NotifierInv, FsInv', LeakInv', AnswerInv, [FsNext]_vars PROVE AnswerInv'
  OBVIOUS
<1>1. CASE WalkTree
  BY <1>1, OpenDirAnswers, AddWatchAnswers, ComparePathsAnswers, ReadDirAnswers, WalkEntryAnswers, WalkEndAnswers DEF WalkTree
<1>2. CASE RegisterRoot \/ StatFails \/ RestoreRoot \/ Dispatch \/ UpdateRoots \/ Shutdown
  BY <1>2, RegisterRootAnswers, StatFailsAnswers, RestoreRootAnswers, DispatchAnswers,
     UpdateRootsAnswers, ShutdownAnswers
<1>3. CASE RegisterDone \/ ReadEvents \/ DispatchDone \/ Timeout \/ CheckRoot \/ Quit
  BY <1>3, QuietAnswers
<1>4. CASE Others
  BY <1>4, OthersAnswers
<1>5. CASE UNCHANGED vars
  BY <1>5 DEF vars, wtVars, treeVars, loopVars, AnswerInv, KidPaths, FramePaths, FramePath, TopPaths,
              TopPath, RootPath, WalkOfRoot, NoMoreRoots, Exists, Live
<1> QED BY <1>1, <1>2, <1>3, <1>4, <1>5 DEF FsNext, Watcher

----------------------------------------------------------------------------
\* The answers.

\* Every node is watched under a path at or below a registered root's, when the walk of the next one
\* has made none yet: a node that were not would have a parent that is not either, and so on.
LEMMA NodesBelowRoots ==
  ASSUME NotifierInv, AnswerInv, stack # <<>>, stack[1].id = Nil
  PROVE  \A w \in Live : \E i \in DOMAIN roots : IsParentPath(roots[i].path, node[w].path)
<1> DEFINE Below(w) == \E i \in DOMAIN roots : IsParentPath(roots[i].path, node[w].path)
           S == {w \in Live : ~Below(w)}
<1>0. /\ FsInv /\ IInv /\ Nil \notin Live /\ PathsIn(roots)
      /\ \A w \in Live : node[w].path \in Paths
  BY WdsAssumption DEF NotifierInv, FsInv, IInv, TypeOK, Nodes, TypeInv, LoopOk
<1> SUFFICES ASSUME S # {} PROVE FALSE
  OBVIOUS
<1>1. PICK x \in S : node[x].parent \notin S
  BY <1>0 DEF IInv, Forest, NoCycles
<1>2. CASE node[x].parent = Nil
  <2>1. RootPath(node[x].path)
    BY <1>0, <1>2 DEF AnswerInv, TopPaths, TopPath
  <2>2. IsParentPath(node[x].path, node[x].path)
    BY <1>0, PathNames
  <2>3. PICK i \in DOMAIN roots : roots[i].path = node[x].path
    BY <2>1 DEF RootPath
  <2> QED BY <2>2, <2>3
<1>3. CASE node[x].parent # Nil
  <2>1. PICK y : y = node[x].parent
    OBVIOUS
  <2>2. y \in Live /\ IsParentPath(node[y].path, node[x].path)
    BY <1>0, <1>3, <2>1 DEF IInv, Forest, ParentsAreLive, AnswerInv, KidPaths
  <2>3. PICK i \in DOMAIN roots : IsParentPath(roots[i].path, node[y].path)
    BY <1>1, <2>1, <2>2
  <2>4. PICK p, q, r : p = node[x].path /\ q = node[y].path /\ r = roots[i].path
    OBVIOUS
  <2>5. p \in Paths /\ q \in Paths /\ r \in Paths
    BY <1>0, <2>2, <2>4 DEF PathsIn
  <2>6. IsParentPath(r, p)
    BY <2>2, <2>3, <2>4, <2>5, PathNames, AboveAbove
  <2> QED BY <2>4, <2>6
<1> QED BY <1>2, <1>3

\* A root that is not below a mount, nor one itself, is not taken for one of those below it.
LEMMA RootMeetsNoMount ==
  ASSUME NEW p \in Paths, ~OuterMount(p), NEW m \in InnerMounts(p)
  PROVE  ~StrPrefix(m, p)
<1> SUFFICES ASSUME StrPrefix(m, p) PROVE FALSE
  OBVIOUS
<1>1. m \in Mounts /\ IsParentPath(p, m) /\ m \in Paths
  BY MountsAssumption DEF InnerMounts
<1>2. Len(m) <= Len(p) /\ Len(p) <= Len(m) /\ Len(m) \in Nat /\ Len(p) \in Nat /\ SubSeq(m, 1, Len(p)) = p
  BY <1>1, PathNames DEF IsParentPath, StrPrefix
<1>3. m = p
  BY <1>1, <1>2, PathNames
<1> QED BY <1>1, <1>3, PathNames DEF OuterMount

\* The next root is taken from the list.
TakesRoot(root) ==
  /\ pending # <<>> /\ root = Head(pending) /\ pending' # pending
  /\ root.path \in Paths /\ Resolve(root.path) \in Pinned /\ (faults' = faults \/ stack = <<>>)
IsAnswered(root) == Answered(root)' \/ task' = "giveup"

LEMMA RootTaken ==
  ASSUME LoopOk, LoopOk', NEW root \in RootSpec, pending = <<root>> \o pending',
         Resolve(root.path) \in Pinned, faults' = faults \/ stack = <<>>
  PROVE  TakesRoot(root)
<1>1. PICK rest, one : rest = pending' /\ one = <<root>>
  OBVIOUS
<1>2. rest \in Seq(RootSpec) /\ one \in Seq(RootSpec) /\ Len(one) = 1 /\ one[1] = root
  BY <1>1 DEF LoopOk
<1>3. Len(pending) = 1 + Len(rest) /\ pending[1] = root /\ Len(rest) \in Nat
  <2>1. pending = one \o rest
    BY <1>1
  <2>2. /\ Len(one \o rest) = Len(one) + Len(rest)
        /\ \A i \in 1 .. Len(one) + Len(rest) :
             (one \o rest)[i] = IF i <= Len(one) THEN one[i] ELSE rest[i - Len(one)]
    BY <1>2, ConcatProperties, Zenon
  <2>3. Len(rest) \in Nat
    BY <1>2
  <2>4. 1 \in 1 .. Len(one) + Len(rest) /\ 1 <= Len(one)
    BY <1>2, <2>3
  <2>5. (one \o rest)[1] = one[1]
    BY <2>2, <2>4, Zenon
  <2> QED BY <1>2, <2>1, <2>2, <2>3, <2>5
<1>4. pending # <<>> /\ pending # pending'
  BY <1>1, <1>3
<1>5. root = Head(pending)
  BY <1>3, <1>4, HeadTailProperties DEF LoopOk
<1> QED BY <1>4, <1>5 DEF TakesRoot, RootSpec

\* The outermost walk_tree of register_roots is the one that returns.
LEMMA WalkReturns ==
  ASSUME NotifierInv, AnswerInv, stack # <<>>, NEW v, NEW marks, ReturnFrom(v, marks), NEW root, TakesRoot(root)
  PROVE  /\ stack' = <<>> /\ Finish(v) /\ task = "register" /\ (~Fatal(v) => Len(stack) = 1)
         /\ v >= 0 \/ v \in {ERR_CONTINUE, ERR_ABORT} => IsAnswered(root)
<1>0. FsInv /\ RootsOk /\ task \in {"register", "event", "restore"} /\ (task = "restore" => idx \in DOMAIN roots)
  BY FirstFrame DEF NotifierInv, LeakInv, Restoring
<1>1. stack' = <<>> /\ Finish(v) /\ (~Fatal(v) => Len(stack) = 1)
  BY <1>0, CallersSame DEF ReturnFrom, ReturnTo, TakesRoot, loopVars
<1>2. root = Head(pending) /\ pending' # pending
  BY DEF TakesRoot
<1> QED BY <1>0, <1>1, <1>2, FinishAnswers DEF IsAnswered

\* The outermost walk_tree of register_roots neither finds its root missing nor on a mount.
LEMMA RootIsThere ==
  ASSUME NotifierInv, AnswerInv, task = "register", Len(stack) = 1, stack # <<>>, NEW root, TakesRoot(root)
  PROVE  /\ Top = stack[1] /\ Top.path = root.path
         /\ Exists(Top.path) /\ ~CrossesMount
<1>1. Top = stack[1]
  BY FirstFrame DEF NotifierInv
<1>2. Top.path = root.path /\ walk.mounts = InnerMounts(root.path) /\ ~OuterMount(root.path) /\ Exists(Top.path)
  BY <1>1 DEF AnswerInv, WalkOfRoot, TakesRoot
<1>3. ~CrossesMount
  BY <1>2, RootMeetsNoMount DEF CrossesMount, TakesRoot
<1> QED BY <1>1, <1>2, <1>3

LEMMA OpenDirAnswered ==
  ASSUME NotifierInv, AnswerInv, faults \in Nat, OpenDir, NEW root, TakesRoot(root)
  PROVE  IsAnswered(root)
<1>1. stack # <<>> /\ pending # pending'
  BY DEF OpenDir, WalkStep, TakesRoot
<1>2. faults' # faults + 1
  BY <1>1 DEF TakesRoot
<1>3. /\ CrossesMount \/ ~Exists(Top.path)
      /\ ReturnFrom(ERR_IGNORE, kwd)
  BY <1>1, <1>2 DEF OpenDir, loopVars, Return
<1>4. task = "register" /\ Len(stack) = 1
  BY <1>1, <1>3, WalkReturns DEF Fatal, ERR_IGNORE, ERR_CONTINUE, ERR_ABORT
<1> QED BY <1>1, <1>3, <1>4, RootIsThere

LEMMA AddWatchAnswered ==
  ASSUME NotifierInv, AnswerInv, faults \in Nat, AddWatch, NEW root, TakesRoot(root)
  PROVE  IsAnswered(root)
<1>1. /\ stack # <<>> /\ pending # pending' /\ Top.at = "add" /\ FsInv /\ LeakInv /\ IInv
      /\ UNCHANGED <<fs, walk>>
  BY DEF AddWatch, WalkStep, TakesRoot, NotifierInv, FsInv, SameTree
<1>2. faults' # faults + 1
  BY <1>1 DEF TakesRoot
<1>3. ASSUME NEW v \in {ERR_CONTINUE, ERR_ABORT}, NEW marks, ReturnFrom(v, marks) PROVE IsAnswered(root)
  BY <1>1, <1>3, WalkReturns
<1>4. ASSUME ReturnFrom(ERR_IGNORE, kwd) PROVE Exists(Top.path)
  <2>1. task = "register" /\ Len(stack) = 1
    BY <1>1, <1>4, WalkReturns DEF Fatal, ERR_IGNORE, ERR_CONTINUE, ERR_ABORT
  <2> QED BY <1>1, <2>1, RootIsThere
<1>5. CASE AddWatchErrno
  <2>1. \/ ~Exists(Top.path) /\ ReturnFrom(ERR_IGNORE, kwd)
        \/ ReturnFrom(ERR_CONTINUE, kwd)
    BY <1>2, <1>5 DEF AddWatchErrno, AddWatchFails, Return
  <2> QED BY <1>3, <1>4, <2>1
<1>6. ASSUME NEW wd \in Wds, AddWatchTo(wd) PROVE IsAnswered(root)
  <2>1. UNCHANGED loopVars \/ ReturnFrom(ERR_ABORT, MarkedAs(wd))
    BY <1>6, ZenonT(60) DEF AddWatchTo
  <2> QED BY <1>1, <1>3, <2>1 DEF loopVars
<1> QED BY <1>5, <1>6 DEF AddWatch

\* The directory of the root is watched under another name: by a node of another root.
LEMMA ComparePathsAnswered ==
  ASSUME NotifierInv, AnswerInv, ComparePaths, NEW root, TakesRoot(root)
  PROVE  IsAnswered(root)
<1>1. stack # <<>> /\ Top.at = "compare" /\ FsInv /\ LeakInv
  BY DEF ComparePaths, WalkStep, NotifierInv
<1>2. CASE ReturnFrom(ERR_ABORT, kwd)
  BY <1>1, <1>2, WalkReturns
<1>3. CASE SameRealPath(node[Top.met].path, Top.path) /\ ReturnFrom(ERR_IGNORE, kwd)
  <2>1. task = "register" /\ Len(stack) = 1 /\ Finish(ERR_IGNORE)
    BY <1>1, <1>3, WalkReturns DEF Fatal, ERR_IGNORE, ERR_CONTINUE, ERR_ABORT
  <2>2. Top = stack[1] /\ Top.path = root.path
    BY <1>1, <2>1, RootIsThere
  <2>3. stack[1].id = Nil
    BY <1>1, <2>2, TopLeak
  <2>4. PICK w : w = Top.met
    OBVIOUS
  <2>5. 1 \in DOMAIN stack
    BY <1>1, FirstFrame
  <2>6. FramePath(stack[1])
    BY <2>5 DEF AnswerInv, FramePaths
  <2>7. w \in Live /\ node[w].path # Top.path
    BY <1>1, <2>2, <2>4, <2>6 DEF FramePath
  <2>8. PICK i \in DOMAIN roots : IsParentPath(roots[i].path, node[w].path)
    BY <1>1, <2>3, <2>7, NodesBelowRoots
  <2>9. UNCHANGED node
    BY <1>3, RmNothing DEF ReturnFrom, ReturnTo, Fatal, ERR_IGNORE, ERR_CONTINUE, ERR_ABORT, wtVars
  <2>10. UNCHANGED roots
    BY <2>1 DEF Finish, ERR_IGNORE, ERR_MISSING
  <2>11. Resolve(node[w].path) = Resolve(root.path)
    BY <1>3, <2>2, <2>4 DEF SameRealPath
  <2>12. /\ w \in Live' /\ node'[w].path # root.path /\ Resolve(node'[w].path) = Resolve(root.path)
         /\ i \in DOMAIN roots' /\ IsParentPath(roots'[i].path, node'[w].path)
    BY <2>2, <2>7, <2>8, <2>9, <2>10, <2>11 DEF Live
  <2>13. WatchedElsewhere(root.path)'
    BY <2>12 DEF WatchedElsewhere
  <2> QED BY <2>13 DEF IsAnswered, Answered
<1> QED BY <1>2, <1>3 DEF ComparePaths, Return

LEMMA WalkEndAnswered ==
  ASSUME NotifierInv, AnswerInv, WalkEnd, NEW root, TakesRoot(root)
  PROVE  IsAnswered(root)
<1>1. stack # <<>> /\ ReturnFrom(Top.id, kwd) /\ Top.at = "scan" /\ FsInv /\ LeakInv
  BY DEF WalkEnd, WalkStep, NotifierInv, Return
<1>2. Top.id \in Live /\ Live \subseteq Wds
  BY <1>1, TopLeak DEF FsInv, IInv, TypeOK
<1>3. \A w \in Wds : w >= 0
  BY WdsAssumption
<1>4. PICK v : v = Top.id
  OBVIOUS
<1> QED BY <1>1, <1>2, <1>3, <1>4, WalkReturns

LEMMA RegisterRootAnswered ==
  ASSUME NotifierInv, RegisterRoot, NEW root, TakesRoot(root)
  PROVE  IsAnswered(root)
<1>1. /\ root = Head(pending) /\ pending' # pending /\ RootsOk
  BY DEF TakesRoot, NotifierInv, LeakInv
<1>2. \/ root.path \in unwatchable'
      \/ roots' = Append(roots, [path |-> root.path, flat |-> root.flat, id |-> ERR_MISSING])
  BY <1>1 DEF RegisterRoot, Unwatchable
<1>3. CASE root.path \in unwatchable'
  BY <1>3 DEF IsAnswered, Answered
<1>4. CASE roots' = Append(roots, [path |-> root.path, flat |-> root.flat, id |-> ERR_MISSING])
  <2>1. PICK r : r = [path |-> root.path, flat |-> root.flat, id |-> ERR_MISSING]
    OBVIOUS
  <2>2. r.path = root.path /\ roots' = Append(roots, r)
    BY <1>4, <2>1
  <2>3. \E j \in DOMAIN roots' : roots'[j].path = r.path
    BY <1>1, <2>2, AppendedRoot
  <2> QED BY <2>2, <2>3 DEF IsAnswered, Answered
<1> QED BY <1>2, <1>3, <1>4

LEMMA StatFailsAnswered ==
  ASSUME NotifierInv, AnswerInv, StatFails, NEW root, TakesRoot(root)
  PROVE  IsAnswered(root)
<1>1. /\ root = Head(pending) /\ pending' # pending /\ RootsOk /\ pending # <<>>
      /\ task \in {"register", "restat"} /\ (task = "restat" => idx \in DOMAIN roots)
  BY DEF TakesRoot, NotifierInv, LeakInv, StatFails, Restoring
<1>2. PICK v \in {ERR_CONTINUE, ERR_ABORT} : Finish(v)
  BY DEF StatFails
<1>3. task = "register"
  BY <1>1 DEF TakesRoot, AnswerInv, NoMoreRoots
<1> QED BY <1>1, <1>2, <1>3, FinishAnswers DEF IsAnswered

\* No other step takes a root from the list.
LEMMA RestKeepsList ==
  ASSUME NotifierInv, AnswerInv, NEW root, TakesRoot(root),
         \/ ReadDir \/ WalkEntry \/ RestoreRoot \/ Dispatch \/ UpdateRoots \/ Shutdown
         \/ RegisterDone \/ ReadEvents \/ DispatchDone \/ Timeout \/ CheckRoot \/ Quit
         \/ Others \/ UNCHANGED vars
  PROVE  FALSE
<1>1. pending # <<>> /\ pending' # pending
  BY DEF TakesRoot
<1>2. CASE ReadDir \/ WalkEntry
  BY <1>1, <1>2 DEF ReadDir, WalkEntry, loopVars
<1>3. CASE RestoreRoot \/ UpdateRoots
  <2>1. task \in {"restat", "select"}
    BY <1>3 DEF RestoreRoot, UpdateRoots
  <2> QED BY <1>1, <2>1 DEF AnswerInv, NoMoreRoots
<1>4. CASE Dispatch \/ Shutdown \/ RegisterDone \/ ReadEvents \/ DispatchDone \/ Timeout \/ CheckRoot \/ Quit
  BY <1>1, <1>4 DEF Dispatch, Shutdown, ShutdownFreeing, RegisterDone, ReadEvents, DispatchDone, Timeout, CheckRoot, Quit
<1>5. CASE Others \/ UNCHANGED vars
  BY <1>1, <1>5 DEF Others, vars, loopVars
<1> QED BY <1>2, <1>3, <1>4, <1>5

LEMMA FaultsCounted == faults \in Nat /\ [FsNext]_vars => (faults \in Nat)'
<1> SUFFICES ASSUME faults \in Nat, [FsNext]_vars PROVE faults' \in {faults, faults + 1}
  OBVIOUS
<1>1. CASE WalkTree
  BY <1>1 DEF WalkTree, OpenDir, AddWatch, AddWatchErrno, ComparePaths, ReadDir, WalkEntry,
           WalkEnd, boundVars
<1>2. CASE Watcher /\ ~WalkTree
  BY <1>2 DEF Watcher, RegisterRoot, StatFails, RegisterDone, ReadEvents, Dispatch, DispatchDone, Timeout,
              CheckRoot, RestoreRoot, Shutdown, ShutdownFreeing, boundVars
<1>3. CASE UpdateRoots \/ Quit \/ Others \/ UNCHANGED vars
  BY <1>3 DEF UpdateRoots, Quit, Others, boundVars, vars
<1> QED BY <1>1, <1>2, <1>3 DEF FsNext

LEMMA EveryRootAnswered ==
  ASSUME NotifierInv, AnswerInv, faults \in Nat, LoopOk', [FsNext]_vars, NEW root \in RootSpec,
         pending = <<root>> \o pending', Resolve(root.path) \in Pinned, faults' = faults \/ stack = <<>>
  PROVE  Answered(root)' \/ task' = "giveup"
<1>1. TakesRoot(root)
  BY RootTaken DEF NotifierInv, TypeInv
<1>2. CASE OpenDir \/ AddWatch \/ ComparePaths \/ WalkEnd \/ RegisterRoot \/ StatFails
  BY <1>1, <1>2, OpenDirAnswered, AddWatchAnswered, ComparePathsAnswered, WalkEndAnswered, RegisterRootAnswered, StatFailsAnswered
     DEF IsAnswered
<1>3. CASE \/ ReadDir \/ WalkEntry \/ RestoreRoot \/ Dispatch \/ UpdateRoots \/ Shutdown
           \/ RegisterDone \/ ReadEvents \/ DispatchDone \/ Timeout \/ CheckRoot \/ Quit
           \/ Others \/ UNCHANGED vars
  BY <1>1, <1>3, RestKeepsList
<1> QED BY <1>2, <1>3 DEF FsNext, Watcher, WalkTree

\* However the lists of roots overlap, are linked or hold mounts, and whatever other processes do to
\* the directories meanwhile, register_roots answers for each root it takes from its list whose
\* directory stays: it is registered, reported as unwatchable, or watched under another name already.
THEOREM RootsGetAnswers == FsSpec => RootsAnswered
<1>1. FsInit => FsInv /\ LeakInv /\ TypeInv /\ AnswerInv /\ faults \in Nat
  BY FsInitInv, LeakInit, TypesInit, AnswerInit DEF FsInit
<1>2. FsInv /\ LeakInv /\ TypeInv /\ AnswerInv /\ faults \in Nat /\ [FsNext]_vars
        => FsInv' /\ LeakInv' /\ TypeInv' /\ AnswerInv' /\ (faults \in Nat)'
  BY FsNextInv, LeakNext, TypesNext, AnswerNext, FaultsCounted DEF NotifierInv
<1>3. FsInv /\ LeakInv /\ TypeInv /\ AnswerInv /\ faults \in Nat /\ TypeInv' /\ [FsNext]_vars
        => [\A root \in RootSpec :
              pending = <<root>> \o pending' /\ Resolve(root.path) \in Pinned
              /\ (faults' = faults \/ stack = <<>>)
                => Answered(root)' \/ task' = "giveup"]_vars
  BY EveryRootAnswered DEF NotifierInv, TypeInv
<1> QED BY <1>1, <1>2, <1>3, PTL DEF FsSpec, RootsAnswered
----------------------------------------------------------------------------
\* The mounts.

\* A frame of the walk of root p is at or below p, and off the mounts once walk_tree has tested them.
FrameOfRoot(p, f) == IsParentPath(p, f.path) /\ (f.at # "enter" => ~UnderMount(f.path))
SkipsInv ==
  task = "register" /\ stack # <<>> =>
    \A i \in DOMAIN stack : FrameOfRoot(Head(pending).path, stack[i])

\* The names of the mounts below the root are all that the test of walk_tree needs: a mount above
\* an entry of the root is above the root too, or below it.
LEMMA MountTestSuffices ==
  ASSUME NEW root \in Paths, ~OuterMount(root), NEW p \in Seq(Names), IsParentPath(root, p),
         \A m \in InnerMounts(root) : ~StrPrefix(m, p)
  PROVE  ~UnderMount(p)
<1> SUFFICES ASSUME NEW m \in Mounts, IsParentPath(m, p) PROVE FALSE
  BY DEF UnderMount
<1>1. root \in Seq(Names) /\ root # <<>> /\ m \in Seq(Names) /\ m # <<>>
  BY MountsAssumption, PathNames
<1>2. IsParentPath(root, m) \/ IsParentPath(m, root)
  BY <1>1, AboveBoth
<1>3. StrPrefix(m, p)
  BY <1>1, AboveIsPrefix
<1> QED BY <1>2, <1>3 DEF OuterMount, InnerMounts

\* The frame on top.
LEMMA TopOfRoot ==
  ASSUME NotifierInv, AnswerInv, SkipsInv, stack # <<>>, task = "register"
  PROVE  /\ Head(pending).path \in Paths /\ Top.path \in Seq(Names)
         /\ FrameOfRoot(Head(pending).path, Top)
         /\ walk.mounts = InnerMounts(Head(pending).path) /\ ~OuterMount(Head(pending).path)
<1>1. Len(stack) \in Nat \ {0} /\ DOMAIN stack = 1..Len(stack) /\ Top = stack[Len(stack)] /\ FsInv
  BY CallersSame DEF NotifierInv
<1>2. Len(stack) \in DOMAIN stack
  BY <1>1
<1>3. FrameOfRoot(Head(pending).path, Top)
  BY <1>1, <1>2 DEF SkipsInv
<1>4. Top.path \in Seq(Names)
  BY <1>1, TopTyped DEF NotifierInv, TypeInv, FrameData
<1>5. Head(pending).path \in Paths
  BY HeadRoot DEF NotifierInv, TypeInv, Registering
<1> QED BY <1>3, <1>4, <1>5 DEF AnswerInv, WalkOfRoot

LEMMA ReturnSkips ==
  ASSUME NotifierInv, SkipsInv, stack # <<>>, NEW v, NEW marks, ReturnFrom(v, marks)
  PROVE  SkipsInv'
<1>1. CASE stack' = <<>>
  BY <1>1 DEF SkipsInv
<1>2. CASE stack' # <<>>
  <2>1. UNCHANGED <<task, pending>>
    BY <1>2 DEF ReturnFrom, ReturnTo, loopVars
  <2>2. DOMAIN stack' \subseteq DOMAIN stack /\ \A i \in DOMAIN stack' : stack'[i] = stack[i]
    BY ReturnFrames DEF NotifierInv
  <2> QED BY <2>1, <2>2 DEF SkipsInv, FrameOfRoot
<1> QED BY <1>1, <1>2

LEMMA SetTopSkips ==
  ASSUME NotifierInv, SkipsInv, stack # <<>>, NEW f, SetTop(f), UNCHANGED loopVars, f.path = Top.path,
         task = "register" => Top.at # "enter" \/ ~UnderMount(Top.path)
  PROVE  SkipsInv'
<1> SUFFICES ASSUME task = "register", NEW i \in DOMAIN stack'
             PROVE  FrameOfRoot(Head(pending).path, stack'[i])
  BY DEF SkipsInv, FrameOfRoot, loopVars
<1>1. /\ Len(stack) \in Nat \ {0} /\ DOMAIN stack = 1..Len(stack) /\ Top = stack[Len(stack)]
      /\ DOMAIN stack' = DOMAIN stack /\ stack'[Len(stack)] = f
      /\ \A j \in DOMAIN stack : j # Len(stack) => stack'[j] = stack[j]
  BY CallersSame, SetTopFrames DEF NotifierInv
<1>2. FrameOfRoot(Head(pending).path, stack[i])
  BY <1>1 DEF SkipsInv
<1> QED BY <1>1, <1>2 DEF FrameOfRoot

LEMMA OpenDirSkips ==
  ASSUME NotifierInv, AnswerInv, SkipsInv, OpenDir
  PROVE  SkipsInv'
<1>1. stack # <<>> /\ FsInv
  BY DEF OpenDir, WalkStep, NotifierInv
<1>2. ASSUME NEW d, ~CrossesMount, SetTop([Top EXCEPT !.at = "add", !.dir = d]), UNCHANGED loopVars
      PROVE  SkipsInv'
  <2>1. PICK f : f = [Top EXCEPT !.at = "add", !.dir = d]
    OBVIOUS
  <2>2. f.path = Top.path
    BY <1>1, <2>1, TopFields
  <2>3. ASSUME task = "register" PROVE ~UnderMount(Top.path)
    <3>1. PICK root, p : root = Head(pending).path /\ p = Top.path
      OBVIOUS
    <3>2. root \in Paths /\ ~OuterMount(root) /\ p \in Seq(Names) /\ IsParentPath(root, p)
          /\ \A m \in InnerMounts(root) : ~StrPrefix(m, p)
      BY <1>1, <1>2, <2>3, <3>1, TopOfRoot DEF FrameOfRoot, CrossesMount
    <3> QED BY <3>1, <3>2, MountTestSuffices
  <2> QED BY <1>1, <1>2, <2>1, <2>2, <2>3, SetTopSkips
<1>3. \/ \E v : Return(v)
      \/ \E d : ~CrossesMount /\ SetTop([Top EXCEPT !.at = "add", !.dir = d]) /\ UNCHANGED loopVars
  BY DEF OpenDir
<1> QED BY <1>1, <1>2, <1>3, ReturnSkips DEF Return

LEMMA AddWatchSkips ==
  ASSUME NotifierInv, SkipsInv, AddWatch
  PROVE  SkipsInv'
<1>1. stack # <<>> /\ Top.at # "enter" /\ FsInv
  BY DEF AddWatch, WalkStep, NotifierInv
<1>2. CASE AddWatchErrno
  BY <1>1, <1>2, ReturnSkips DEF AddWatchErrno, AddWatchFails, Return
<1>3. ASSUME NEW wd \in Wds, AddWatchTo(wd) PROVE SkipsInv'
  <2> DEFINE list == IF walk.recursive THEN "list" ELSE "scan"
  <2>1. \/ ReturnFrom(ERR_ABORT, MarkedAs(wd))
        \/ SetTop([Top EXCEPT !.id = wd, !.names = {}, !.at = list]) /\ UNCHANGED loopVars
        \/ SetTop([Top EXCEPT !.at = "compare", !.met = wd]) /\ UNCHANGED loopVars
    BY <1>3, ZenonT(60) DEF AddWatchTo
  <2> HIDE DEF list
  <2>2. PICK f, g : /\ f = [Top EXCEPT !.id = wd, !.names = {}, !.at = list]
                    /\ g = [Top EXCEPT !.at = "compare", !.met = wd]
    OBVIOUS
  <2>3. f.path = Top.path /\ g.path = Top.path
    BY <1>1, <2>2, TopFields
  <2> QED BY <1>1, <2>1, <2>2, <2>3, ReturnSkips, SetTopSkips
<1> QED BY <1>2, <1>3 DEF AddWatch

LEMMA ReadDirSkips ==
  ASSUME NotifierInv, SkipsInv, ReadDir
  PROVE  SkipsInv'
<1>1. stack # <<>> /\ Top.at # "enter" /\ UNCHANGED loopVars /\ FsInv
  BY DEF ReadDir, WalkStep, NotifierInv
<1>2. PICK f : f = [Top EXCEPT !.at = "scan", !.names = EntriesOf(Top.dir)]
  OBVIOUS
<1>3. f.path = Top.path /\ SetTop(f)
  BY <1>1, <1>2, TopFields DEF ReadDir
<1> QED BY <1>1, <1>3, SetTopSkips

LEMMA WalkEntrySkips ==
  ASSUME NotifierInv, AnswerInv, SkipsInv, WalkEntry
  PROVE  SkipsInv'
<1> SUFFICES ASSUME task = "register" PROVE SkipsInv'
  BY DEF SkipsInv, WalkEntry, loopVars
<1>1. stack # <<>> /\ FrameData(Top) /\ UNCHANGED <<task, pending>> /\ FsInv /\ Top.at = "scan"
  BY TopTyped DEF WalkEntry, WalkStep, NotifierInv, TypeInv, loopVars
<1>2. PICK n \in Top.names :
        stack' = Append([stack EXCEPT ![Len(stack)].names = @ \ {n}],
                        EnterFrame(Child(Top.path, n), NodeAt(Top.id)))
  BY DEF WalkEntry
<1>3. PICK f, new : /\ f = [Top EXCEPT !.names = @ \ {n}]
                    /\ new = EnterFrame(Child(Top.path, n), NodeAt(Top.id))
  OBVIOUS
<1>4. f.path = Top.path /\ f.at = Top.at
  BY <1>1, <1>3, TopFields
<1>5. stack' = Append([stack EXCEPT ![Len(stack)] = f], new)
  BY <1>2, <1>3 DEF Top
<1>6. /\ Len(stack) \in Nat \ {0} /\ DOMAIN stack = 1..Len(stack)
      /\ DOMAIN stack' = 1..(Len(stack) + 1) /\ stack'[Len(stack)] = f
      /\ \A i \in DOMAIN stack : i # Len(stack) => stack'[i] = stack[i]
      /\ stack'[Len(stack) + 1] = new
  BY <1>1, <1>5, PushFrames
<1>7. PICK root, p : root = Head(pending).path /\ p = Top.path
  OBVIOUS
<1>8. root \in Paths /\ p \in Seq(Names) /\ FrameOfRoot(root, Top)
  BY <1>1, <1>7, TopOfRoot
<1>9. FrameOfRoot(root, f) /\ FrameOfRoot(root, new)
  <2>1. new.path = Child(p, n) /\ new.at = "enter" /\ n \in Names
    BY <1>1, <1>3, <1>7 DEF EnterFrame, FrameData
  <2>2. IsParentPath(root, Child(p, n))
    BY <1>7, <1>8, <2>1, PathNames, AboveEntry DEF FrameOfRoot
  <2> QED BY <1>4, <1>8, <2>1, <2>2 DEF FrameOfRoot
<1>10. ASSUME NEW i \in DOMAIN stack' PROVE FrameOfRoot(root, stack'[i])
  <2>1. CASE i \in {Len(stack), Len(stack) + 1}
    BY <1>6, <1>9, <2>1
  <2>2. CASE i \notin {Len(stack), Len(stack) + 1}
    <3>1. i \in DOMAIN stack
      BY <1>6, <2>2
    <3> QED BY <1>1, <1>6, <1>7, <2>2, <3>1 DEF SkipsInv
  <2> QED BY <2>1, <2>2
<1> QED BY <1>1, <1>7, <1>10 DEF SkipsInv, FrameOfRoot

LEMMA RegisterRootSkips ==
  ASSUME NotifierInv, RegisterRoot
  PROVE  SkipsInv'
<1>1. CASE UNCHANGED stack
  BY <1>1 DEF RegisterRoot, SkipsInv
<1>2. CASE stack' = <<EnterFrame(Head(pending).path, Nil)>> /\ UNCHANGED pending
  <2>1. PICK f, root : root = Head(pending).path /\ f = EnterFrame(root, Nil)
    OBVIOUS
  <2>2. DOMAIN stack' = {1} /\ stack'[1] = f /\ f.path = root /\ f.at = "enter"
    BY <1>2, <2>1 DEF EnterFrame
  <2>3. root \in Paths /\ IsParentPath(root, root)
    BY <2>1, HeadRoot, PathNames DEF NotifierInv, TypeInv, RegisterRoot
  <2> QED BY <1>2, <2>1, <2>2, <2>3 DEF SkipsInv, FrameOfRoot
<1> QED BY <1>1, <1>2 DEF RegisterRoot, StartWalk

\* No other step starts or goes on with the walk of a root.
LEMMA RestSkips ==
  ASSUME NotifierInv, SkipsInv,
         \/ StatFails \/ RegisterDone \/ ReadEvents \/ Dispatch \/ DispatchDone \/ Timeout
         \/ CheckRoot \/ RestoreRoot \/ Shutdown \/ UpdateRoots \/ Quit \/ Others
         \/ UNCHANGED vars
  PROVE  SkipsInv'
<1>1. CASE StatFails \/ UpdateRoots
  <2>1. stack = <<>> /\ UNCHANGED stack
    BY <1>1 DEF StatFails, UpdateRoots, NotifierInv, FsInv, WalksForATask
  <2> QED BY <2>1 DEF SkipsInv
<1>2. CASE RegisterDone \/ ReadEvents \/ DispatchDone \/ Timeout \/ CheckRoot \/ Shutdown \/ Quit
  <2>1. task' # "register"
    BY <1>2 DEF RegisterDone, ReadEvents, DispatchDone, Timeout, CheckRoot, Shutdown,
                ShutdownFreeing, Quit
  <2> QED BY <2>1 DEF SkipsInv
<1>3. CASE Dispatch \/ RestoreRoot
  <2>1. task' # "register"
    BY <1>3 DEF Dispatch, ProcessEvent, RestoreRoot, Finish
  <2> QED BY <2>1 DEF SkipsInv
<1>4. CASE Others \/ UNCHANGED vars
  BY <1>4 DEF Others, vars, loopVars, SkipsInv, FrameOfRoot
<1> QED BY <1>1, <1>2, <1>3, <1>4

LEMMA SkipsNext == NotifierInv /\ AnswerInv /\ SkipsInv /\ [FsNext]_vars => SkipsInv'
<1> SUFFICES ASSUME NotifierInv, AnswerInv, SkipsInv, [FsNext]_vars PROVE SkipsInv'
  OBVIOUS
<1>1. CASE ComparePaths \/ WalkEnd
  BY <1>1, ReturnSkips DEF ComparePaths, WalkEnd, WalkStep, Return
<1>2. CASE OpenDir \/ AddWatch \/ ReadDir \/ WalkEntry \/ RegisterRoot
  BY <1>2, OpenDirSkips, AddWatchSkips, ReadDirSkips, WalkEntrySkips, RegisterRootSkips
<1> QED BY <1>1, <1>2, RestSkips DEF FsNext, Watcher, WalkTree

\* Only add_watch adds a node.
LEMMA OnlyAddWatchAdds ==
  ASSUME NotifierInv, task = "register", [FsNext]_vars, ~AddWatch
  PROVE  Live' \subseteq Live
<1>1. CASE UNCHANGED node
  BY <1>1 DEF Live
<1>2. ASSUME NEW v, Return(v) PROVE Live' \subseteq Live
  BY <1>2, FewerAfterRm DEF Return, ReturnFrom, ReturnTo, NotifierInv, FsInv, FewerNodes
<1>3. CASE WalkTree
  BY <1>1, <1>2, <1>3 DEF WalkTree, OpenDir, ComparePaths, ReadDir, WalkEntry, WalkEnd, SameNodes, wtVars
<1>4. CASE RegisterRoot \/ StatFails \/ RegisterDone \/ Others \/ UNCHANGED vars
  BY <1>1, <1>4 DEF RegisterRoot, StatFails, RegisterDone, Others, SameNodes, wtVars, vars
<1>5. task \notin {"select", "dispatch", "restore", "restat", "giveup"}
  OBVIOUS
<1> QED BY <1>3, <1>4, <1>5 DEF FsNext, Watcher, ReadEvents, Dispatch, DispatchDone, Timeout, CheckRoot,
          RestoreRoot, Shutdown, ShutdownFreeing, UpdateRoots, Quit

LEMMA NewNodesOffMounts ==
  ASSUME NotifierInv, AnswerInv, SkipsInv, [FsNext]_vars, NEW w \in Live' \ Live, task = "register"
  PROVE  ~UnderMount(node'[w].path)
<1>1. AddWatch /\ stack # <<>> /\ Top.at = "add"
  BY OnlyAddWatchAdds DEF AddWatch, WalkStep
<1>2. ~UnderMount(Top.path)
  BY <1>1, TopOfRoot DEF FrameOfRoot
<1>3. ASSUME NEW v, NEW marks, ReturnFrom(v, marks) PROVE FALSE
  BY <1>3, FewerAfterRm DEF ReturnFrom, ReturnTo, NotifierInv, FsInv, FewerNodes
<1>4. CASE AddWatchErrno
  BY <1>3, <1>4 DEF AddWatchErrno, AddWatchFails, Return
<1>5. ASSUME NEW wd \in Wds, AddWatchTo(wd) PROVE ~UnderMount(node'[w].path)
  <2>1. \/ \E v, marks : ReturnFrom(v, marks)
        \/ UNCHANGED node
        \/ AddNode(wd, Top.path, Top.parent)
    BY <1>5, ZenonT(60) DEF AddWatchTo, SameNodes, wtVars
  <2>2. UNCHANGED node => FALSE
    BY DEF Live
  <2>3. CASE AddNode(wd, Top.path, Top.parent)
    <3>1. PICK p, q : p = Top.path /\ q = Top.parent
      OBVIOUS
    <3>2. Live' = Live \cup {wd} /\ node'[wd].path = p
      BY <2>3, <3>1, AddedNode DEF NotifierInv, FsInv
    <3> QED BY <1>2, <3>1, <3>2
  <2> QED BY <1>3, <2>1, <2>2, <2>3
<1> QED BY <1>1, <1>4, <1>5 DEF AddWatch

\* Whatever is renamed, removed or created during the walk of a root, register_roots makes no watch
\* at or below an unwatchable mount point.
THEOREM RootWalksSkipMounts == FsSpec => RegisterSkipsMounts
<1>1. FsInit => FsInv /\ LeakInv /\ TypeInv /\ AnswerInv /\ SkipsInv
  BY FsInitInv, LeakInit, TypesInit, AnswerInit DEF FsInit, SkipsInv
<1>2. FsInv /\ LeakInv /\ TypeInv /\ AnswerInv /\ SkipsInv /\ [FsNext]_vars
        => FsInv' /\ LeakInv' /\ TypeInv' /\ AnswerInv' /\ SkipsInv'
  BY FsNextInv, LeakNext, TypesNext, AnswerNext, SkipsNext DEF NotifierInv
<1>3. FsInv /\ LeakInv /\ TypeInv /\ AnswerInv /\ SkipsInv /\ [FsNext]_vars
        => [\A w \in Live' \ Live : task = "register" => ~UnderMount(node'[w].path)]_vars
  BY NewNodesOffMounts DEF NotifierInv
<1> QED BY <1>1, <1>2, <1>3, PTL DEF FsSpec, RegisterSkipsMounts
=============================================================================
