----------------------------- MODULE WatchTree -----------------------------
(***************************************************************************)
(* The heap structure fsNotifier keeps about its watches (util.c table,    *)
(* inotify.c watch_node): a direct-mapped table of `Capacity' slots in     *)
(* which the node of watch descriptor wd sits at wd % Capacity, and the    *)
(* forest the nodes form through their parent and kids pointers.  A node   *)
(* is named by its wd, and the nodes not yet freed are DOMAIN node.        *)
(* The kids array is a set: nodes are pushed when they are created, so its *)
(* order is that of the descriptors.                                       *)
(***************************************************************************)
EXTENDS FileNames

CONSTANTS
  Capacity,  \* slots of the table: max_user_watches when the process started
  Wds,       \* the watch descriptors the kernel hands out
  Nil        \* NULL

ASSUME CapacityAssumption == Capacity \in Nat \ {0}
ASSUME WdsAssumption == Wds \subseteq Nat /\ Nil \notin Wds

VARIABLES
  table,     \* slot -> the node stored there (table_str.data)
  node       \* live wd -> [path, parent, kids] (watch_node)

wtVars == <<table, node>>

Slots == 0..(Capacity - 1)
Live == DOMAIN node
Nodes == [path : Paths, parent : Wds \cup {Nil}, kids : SUBSET Wds]

\* util.c wrap and table_get: the key is not stored, only its slot.
Slot(wd) == wd % Capacity
NodeAt(wd) == table[Slot(wd)]

TypeOK ==
  /\ table \in [Slots -> Wds \cup {Nil}]
  /\ Live \subseteq Wds
  /\ node \in [Live -> Nodes]

Init ==
  /\ table = [s \in Slots |-> Nil]
  /\ node = [w \in {} |-> Nil]

----------------------------------------------------------------------------
\* add_watch from the malloc on: the new node is pushed on its parent's kids
\* and stored in the free slot.
AddNode(wd, path, parent) ==
  /\ NodeAt(wd) = Nil
  /\ table' = [table EXCEPT ![Slot(wd)] = wd]
  /\ node' = [w \in Live \cup {wd} |->
                IF w = wd THEN [path |-> path, parent |-> parent, kids |-> {}]
                ELSE IF w = parent
                     THEN [node[w] EXCEPT !.kids = @ \cup {wd}]
                     ELSE node[w]]

\* The nodes the recursion of rm_watch frees when it starts from the nodes ws:
\* the smallest set that contains ws and the kids of each of its members.
KidClosed(S) == \A w \in S : node[w].kids \subseteq S
Doomed(ws) ==
  {x \in Live : \A S \in SUBSET Live : ws \subseteq S /\ KidClosed(S) => x \in S}

\* Mutant: rm_watch never unlinks (update_parent is always false).
FreeNodesLinked(ws) ==
  /\ table' = [s \in Slots |->
                 IF \E w \in Doomed(ws) : Slot(w) = s THEN Nil ELSE table[s]]
  /\ node' = [w \in Live \ Doomed(ws) |-> node[w]]

\* rm_watch of the nodes ws.  Only these are unlinked from their parents (by
\* update_parent, or by the caller's array_put); the kids are freed with
\* update_parent = false.
FreeNodes(ws) ==
  /\ table' = [s \in Slots |->
                 IF \E w \in Doomed(ws) : Slot(w) = s THEN Nil ELSE table[s]]
  /\ node' = [w \in Live \ Doomed(ws) |->
                [node[w] EXCEPT !.kids = @ \ {k \in ws : node[k].parent = w}]]

Add ==
  \E wd \in Wds, path \in Paths, parent \in Live \cup {Nil} :
    AddNode(wd, path, parent)

Remove == \E ws \in (SUBSET Live) \ {{}} : FreeNodes(ws)

Next == Add \/ Remove

Spec == Init /\ [][Next]_wtVars

----------------------------------------------------------------------------
\* A node is found at its slot, and every slot that is taken leads to a live node
\* of that slot (the check `node->wd != wd' in add_watch relies on both).
TableMatchesNodes ==
  /\ \A w \in Live : table[Slot(w)] = w
  /\ \A s \in Slots : table[s] # Nil => table[s] \in Live /\ Slot(table[s]) = s

\* No kids array holds a freed node, and a kid points back to its parent:
\* rm_watch and the DELETE handler dereference every non-NULL entry.
KidsAreLive ==
  \A p \in Live : \A k \in node[p].kids : k \in Live /\ node[k].parent = p

\* No node points to a freed parent, and the parent knows it: rm_watch with
\* update_parent dereferences node->parent->kids.
ParentsAreLive ==
  \A k \in Live : node[k].parent # Nil =>
     node[k].parent \in Live /\ k \in node[node[k].parent].kids

\* No cycle of parent pointers: every set of nodes has one whose parent is not in
\* it.  The recursion of rm_watch ends, and frees no node twice.
NoCycles ==
  \A S \in (SUBSET Live) \ {{}} : \E x \in S : node[x].parent \notin S

\* The watch nodes form a forest without dangling pointers, and the table
\* finds exactly its nodes.
Forest == TableMatchesNodes /\ KidsAreLive /\ ParentsAreLive /\ NoCycles
=============================================================================
