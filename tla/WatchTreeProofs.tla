-------------------------- MODULE WatchTreeProofs --------------------------
(***************************************************************************)
(* For every capacity, every set of descriptors and every path set: the    *)
(* watch table and the forest of watch nodes stay consistent.              *)
(***************************************************************************)
EXTENDS WatchTree, TLAPS

\* wrap yields a slot of the table.
LEMMA SlotInRange == \A wd \in Wds : Slot(wd) \in Slots
  BY CapacityAssumption, WdsAssumption, SMT DEF Slot, Slots

\* What rm_watch frees is live and contains the nodes it was called for.
LEMMA DoomedLive ==
  ASSUME NEW ws \in SUBSET Live
  PROVE  ws \subseteq Doomed(ws) /\ Doomed(ws) \subseteq Live
  BY DEF Doomed

\* rm_watch frees every kid of a node it frees, if no kid is dangling.
LEMMA DoomedKids ==
  ASSUME KidsAreLive, NEW ws \in SUBSET Live,
         NEW p \in Doomed(ws), NEW k \in node[p].kids
  PROVE  k \in Doomed(ws)
<1>1. p \in Live
  BY DEF Doomed
<1>2. k \in Live
  BY <1>1 DEF KidsAreLive
<1>3. ASSUME NEW S \in SUBSET Live, ws \subseteq S, KidClosed(S)
      PROVE  k \in S
  <2>1. p \in S
    BY <1>3 DEF Doomed
  <2>2. QED
    BY <1>3, <2>1 DEF KidClosed
<1>4. QED
  BY <1>2, <1>3 DEF Doomed

\* A node rm_watch frees, other than those it was called for, goes down with
\* its parent: otherwise the freed set without it would still be closed.
LEMMA DoomedParents ==
  ASSUME KidsAreLive, NEW ws \in SUBSET Live,
         NEW k \in Doomed(ws), k \notin ws
  PROVE  node[k].parent \in Doomed(ws)
<1> DEFINE S == Doomed(ws) \ {k}
<1>1. SUFFICES ASSUME node[k].parent \notin Doomed(ws)
               PROVE  FALSE
  OBVIOUS
<1>2. S \in SUBSET Live /\ ws \subseteq S
  BY DoomedLive
<1>3. KidClosed(S)
  <2>1. SUFFICES ASSUME NEW p \in S, NEW j \in node[p].kids
                 PROVE  j \in S
    BY DEF KidClosed
  <2>2. j \in Doomed(ws)
    BY DoomedKids
  <2>3. p \in Live
    BY <1>2
  <2>4. node[j].parent = p
    BY <2>3 DEF KidsAreLive
  <2>5. j # k
    BY <1>1, <2>4
  <2>6. QED
    BY <2>2, <2>5
<1>4. k \in S
  BY <1>2, <1>3 DEF Doomed
<1>5. QED
  BY <1>4

----------------------------------------------------------------------------
\* The inductive invariant: Forest needs the types, and neither part of Forest
\* is preserved alone (freeing keeps kids live only because parents are).
IInv == TypeOK /\ Forest

LEMMA InitIInv == Init => IInv
<1> SUFFICES ASSUME Init PROVE IInv
  OBVIOUS
<1>1. Live = {}
  BY DEF Init, Live
<1>2. TypeOK
  BY <1>1 DEF Init, TypeOK, Live
<1>3. Forest
  BY <1>1 DEF Init, Forest, TableMatchesNodes, KidsAreLive, ParentsAreLive,
              NoCycles
<1>4. QED
  BY <1>2, <1>3 DEF IInv

\* add_watch keeps the invariant: the new node takes a free slot, and is known to
\* its parent before anything else happens.
LEMMA AddIInv ==
  ASSUME IInv,
         NEW wd \in Wds, NEW path \in Paths, NEW parent \in Live \cup {Nil},
         AddNode(wd, path, parent)
  PROVE  IInv'
<1> USE DEF Live
<1>1. TypeOK /\ TableMatchesNodes /\ KidsAreLive /\ ParentsAreLive /\ NoCycles
  BY DEF IInv, Forest
<1>2. /\ Live' = Live \cup {wd}
      /\ \A w \in Live' :
           node'[w] = IF w = wd THEN [path |-> path, parent |-> parent, kids |-> {}]
                      ELSE IF w = parent THEN [node[w] EXCEPT !.kids = @ \cup {wd}]
                      ELSE node[w]
  BY DEF AddNode
<1>3. Live \subseteq Wds /\ wd \in Wds /\ wd \notin Live /\ Nil \notin Wds
  <2>1. Live \subseteq Wds /\ Nil \notin Wds
    BY <1>1, WdsAssumption DEF TypeOK
  <2>2. NodeAt(wd) = Nil
    BY DEF AddNode
  <2>3. wd \notin Live
    BY <1>1, <2>1, <2>2 DEF TableMatchesNodes, NodeAt
  <2>4. QED
    BY <2>1, <2>3
<1>4. \A w \in Live : node[w] \in Nodes
  BY <1>1 DEF TypeOK
<1>5. /\ node'[wd] = [path |-> path, parent |-> parent, kids |-> {}]
      /\ \A w \in Live : /\ node'[w].parent = node[w].parent
                         /\ node'[w].kids = IF w = parent THEN node[w].kids \cup {wd}
                                            ELSE node[w].kids
                         /\ node'[w] \in Nodes
  <2>1. node'[wd] = [path |-> path, parent |-> parent, kids |-> {}]
    BY <1>2
  <2>2. ASSUME NEW w \in Live
        PROVE  /\ node'[w].parent = node[w].parent
               /\ node'[w].kids = IF w = parent THEN node[w].kids \cup {wd}
                                  ELSE node[w].kids
               /\ node'[w] \in Nodes
    <3>1. w # wd /\ node[w] \in Nodes
      BY <1>3, <1>4
    <3>2. CASE w = parent
      <4>1. node'[w] = [node[w] EXCEPT !.kids = @ \cup {wd}]
        BY <1>2, <3>1, <3>2
      <4>2. QED
        BY <1>3, <3>1, <3>2, <4>1 DEF Nodes
    <3>3. CASE w # parent
      <4>1. node'[w] = node[w]
        BY <1>2, <3>1, <3>3
      <4>2. QED
        BY <3>1, <3>3, <4>1
    <3>4. QED
      BY <3>2, <3>3
  <2>3. QED
    BY <2>1, <2>2
<1>6. TypeOK'
  <2>1. table' \in [Slots -> Wds \cup {Nil}]
    BY <1>1, <1>3 DEF TypeOK, AddNode
  <2>2. Live' \subseteq Wds
    BY <1>2, <1>3
  <2>3. node'[wd] \in Nodes
    BY <1>3, <1>5 DEF Nodes
  <2>4. node' \in [Live' -> Nodes]
    BY <1>2, <1>5, <2>3 DEF AddNode
  <2>5. QED
    BY <2>1, <2>2, <2>4 DEF TypeOK
<1>7. TableMatchesNodes'
  <2>1. Slot(wd) \in Slots /\ \A w \in Live : Slot(w) \in Slots
    BY <1>3, SlotInRange
  <2>2. table[Slot(wd)] = Nil
    BY DEF AddNode, NodeAt
  <2>3. \A s \in Slots : table'[s] = IF s = Slot(wd) THEN wd ELSE table[s]
    BY <1>1 DEF AddNode, TypeOK
  <2>4. \A w \in Live : Slot(w) # Slot(wd)
    BY <1>1, <1>3, <2>2 DEF TableMatchesNodes
  <2>5. QED
    BY <1>1, <1>2, <2>1, <2>3, <2>4 DEF TableMatchesNodes
<1>8. KidsAreLive'
  <2>1. SUFFICES ASSUME NEW p \in Live', NEW k \in node'[p].kids
                 PROVE  k \in Live' /\ node'[k].parent = p
    BY DEF KidsAreLive
  <2>2. p \in Live
    BY <1>2, <1>5
  <2>3. CASE k = wd
    <3>1. wd \notin node[p].kids
      BY <1>1, <1>3, <2>2 DEF KidsAreLive
    <3>2. p = parent
      BY <1>5, <2>2, <2>3, <3>1
    <3>3. QED
      BY <1>2, <1>5, <2>3, <3>2
  <2>4. CASE k # wd
    <3>1. k \in node[p].kids
      BY <1>5, <2>2, <2>4
    <3>2. k \in Live /\ node[k].parent = p
      BY <1>1, <2>2, <3>1 DEF KidsAreLive
    <3>3. QED
      BY <1>2, <1>5, <3>2
  <2>5. QED
    BY <2>3, <2>4
<1>9. ParentsAreLive'
  <2>1. SUFFICES ASSUME NEW k \in Live', node'[k].parent # Nil
                 PROVE  /\ node'[k].parent \in Live'
                        /\ k \in node'[node'[k].parent].kids
    BY DEF ParentsAreLive
  <2>2. CASE k = wd
    <3>1. node'[k].parent = parent /\ parent \in Live
      BY <1>5, <2>1, <2>2
    <3>2. QED
      BY <1>2, <1>5, <2>2, <3>1
  <2>3. CASE k # wd
    <3>1. k \in Live /\ node'[k].parent = node[k].parent
      BY <1>2, <1>5, <2>3
    <3>2. node[k].parent \in Live /\ k \in node[node[k].parent].kids
      BY <1>1, <2>1, <3>1 DEF ParentsAreLive
    <3>3. QED
      BY <1>2, <1>5, <3>1, <3>2
  <2>4. QED
    BY <2>2, <2>3
<1>10. NoCycles'
  <2>1. SUFFICES ASSUME NEW S \in (SUBSET Live') \ {{}}
                 PROVE  \E x \in S : node'[x].parent \notin S
    BY DEF NoCycles
  <2>2. CASE S \ {wd} = {}
    <3>1. wd \in S /\ node'[wd].parent = parent /\ parent # wd
      BY <1>3, <1>5, <2>2
    <3>2. QED
      BY <2>2, <3>1
  <2>3. CASE S \ {wd} # {}
    <3>1. S \ {wd} \in (SUBSET Live) \ {{}}
      BY <1>2, <2>3
    <3>2. PICK x \in S \ {wd} : node[x].parent \notin S \ {wd}
      BY <1>1, <3>1 DEF NoCycles
    <3>3. x \in Live /\ node'[x].parent = node[x].parent
      BY <1>5, <3>1
    <3>4. node[x].parent # wd
      BY <1>1, <1>3, <3>3, WdsAssumption DEF ParentsAreLive
    <3>5. QED
      BY <3>2, <3>3, <3>4
  <2>4. QED
    BY <2>2, <2>3
<1>11. QED
  BY <1>6, <1>7, <1>8, <1>9, <1>10 DEF IInv, Forest

\* rm_watch keeps the invariant: what it frees is closed under kids, and under
\* parents except for the nodes it is called for, which it unlinks.
LEMMA FreeIInv ==
  ASSUME IInv, NEW ws \in SUBSET Live, FreeNodes(ws)
  PROVE  IInv'
<1> DEFINE D == Doomed(ws)
<1>1. TypeOK /\ TableMatchesNodes /\ KidsAreLive /\ ParentsAreLive /\ NoCycles
  BY DEF IInv, Forest
<1>2. ws \subseteq D /\ D \subseteq Live
  BY DoomedLive
<1>3. /\ Live' = Live \ D
      /\ \A w \in Live' :
           node'[w] = [node[w] EXCEPT !.kids = @ \ {k \in ws : node[k].parent = w}]
  BY DEF FreeNodes, Live
<1>4. \A w \in Live : node[w] \in Nodes
  BY <1>1 DEF TypeOK
<1>5. \A w \in Live' : /\ node'[w].parent = node[w].parent
                       /\ node'[w].kids = node[w].kids \ {k \in ws : node[k].parent = w}
                       /\ node'[w] \in Nodes
  <2>1. SUFFICES ASSUME NEW w \in Live'
                 PROVE  /\ node'[w].parent = node[w].parent
                        /\ node'[w].kids = node[w].kids \ {k \in ws : node[k].parent = w}
                        /\ node'[w] \in Nodes
    OBVIOUS
  <2>2. DEFINE cut == {k \in ws : node[k].parent = w}
  <2>3. node'[w] = [node[w] EXCEPT !.kids = @ \ cut] /\ node[w] \in Nodes
    BY <1>3, <1>4
  <2>4. /\ node'[w].parent = node[w].parent
        /\ node'[w].kids = node[w].kids \ cut
        /\ node'[w] \in Nodes
    <3> HIDE DEF cut
    <3>1. QED
      BY <2>3 DEF Nodes
  <2>5. QED
    BY <2>4
<1>6. \A s \in Slots : table'[s] = IF \E w \in D : Slot(w) = s THEN Nil ELSE table[s]
  BY DEF FreeNodes
<1>7. TypeOK'
  <2>1. table' \in [Slots -> Wds \cup {Nil}]
    BY <1>1 DEF TypeOK, FreeNodes
  <2>2. Live' \subseteq Wds
    BY <1>1, <1>3 DEF TypeOK
  <2>3. node' = [w \in Live' |-> node'[w]]
    BY <1>3 DEF FreeNodes
  <2>4. QED
    BY <1>5, <2>1, <2>2, <2>3 DEF TypeOK
<1>8. TableMatchesNodes'
  <2>1. \A w \in Live : Slot(w) \in Slots
    BY <1>1, SlotInRange DEF TypeOK
  <2>2. ASSUME NEW w \in Live' PROVE table'[Slot(w)] = w
    <3>1. w \in Live /\ w \notin D
      BY <1>3
    <3>2. table[Slot(w)] = w
      BY <1>1, <3>1 DEF TableMatchesNodes
    <3>3. ~\E v \in D : Slot(v) = Slot(w)
      BY <1>1, <1>2, <3>1, <3>2 DEF TableMatchesNodes
    <3>4. QED
      BY <1>6, <2>1, <3>1, <3>2, <3>3
  <2>3. ASSUME NEW s \in Slots, table'[s] # Nil
        PROVE  table'[s] \in Live' /\ Slot(table'[s]) = s
    <3>1. table'[s] = table[s] /\ ~\E v \in D : Slot(v) = s
      BY <1>6, <2>3
    <3>2. table[s] \in Live /\ Slot(table[s]) = s
      BY <1>1, <2>3, <3>1 DEF TableMatchesNodes
    <3>3. table[s] \notin D
      BY <3>1, <3>2
    <3>4. QED
      BY <1>3, <3>1, <3>2, <3>3
  <2>4. QED
    BY <2>2, <2>3 DEF TableMatchesNodes
<1>9. KidsAreLive'
  <2>1. SUFFICES ASSUME NEW p \in Live', NEW k \in node'[p].kids
                 PROVE  k \in Live' /\ node'[k].parent = p
    BY DEF KidsAreLive
  <2>2. p \in Live /\ p \notin D /\ k \in node[p].kids /\ ~(k \in ws /\ node[k].parent = p)
    BY <1>3, <1>5
  <2>3. k \in Live /\ node[k].parent = p
    BY <1>1, <2>2 DEF KidsAreLive
  <2>4. k \notin D
    BY <1>1, <2>2, <2>3, DoomedParents
  <2>5. QED
    BY <1>3, <1>5, <2>3, <2>4
<1>10. ParentsAreLive'
  <2>1. SUFFICES ASSUME NEW k \in Live', node'[k].parent # Nil
                 PROVE  /\ node'[k].parent \in Live'
                        /\ k \in node'[node'[k].parent].kids
    BY DEF ParentsAreLive
  <2>2. k \in Live /\ k \notin D /\ k \notin ws /\ node[k].parent # Nil
        /\ node'[k].parent = node[k].parent
    BY <1>2, <1>3, <1>5, <2>1
  <2>3. node[k].parent \in Live /\ k \in node[node[k].parent].kids
    BY <1>1, <2>2 DEF ParentsAreLive
  <2>4. node[k].parent \notin D
    BY <1>1, <2>2, <2>3, DoomedKids
  <2>5. QED
    BY <1>3, <1>5, <2>2, <2>3, <2>4
<1>11. NoCycles'
  <2>1. SUFFICES ASSUME NEW S \in (SUBSET Live') \ {{}}
                 PROVE  \E x \in S : node'[x].parent \notin S
    BY DEF NoCycles
  <2>2. S \in (SUBSET Live) \ {{}}
    BY <1>3
  <2>3. PICK x \in S : node[x].parent \notin S
    BY <1>1, <2>2 DEF NoCycles
  <2>4. QED
    BY <1>5, <2>3
<1>12. QED
  BY <1>7, <1>8, <1>9, <1>10, <1>11 DEF IInv, Forest

LEMMA NextIInv == IInv /\ [Next]_wtVars => IInv'
<1> SUFFICES ASSUME IInv, [Next]_wtVars PROVE IInv'
  OBVIOUS
<1>1. CASE Add
  BY <1>1, AddIInv DEF Add
<1>2. CASE Remove
  BY <1>2, FreeIInv DEF Remove
<1>3. CASE UNCHANGED wtVars
  BY <1>3 DEF IInv, TypeOK, Forest, TableMatchesNodes, KidsAreLive, ParentsAreLive,
              NoCycles, wtVars, Live
<1>4. QED
  BY <1>1, <1>2, <1>3 DEF Next

\* The table and the nodes keep their types, whatever is watched and unwatched.
THEOREM WatchTreeTypes == Spec => []TypeOK
<1>1. IInv => TypeOK
  BY DEF IInv
<1>2. QED
  BY InitIInv, NextIInv, <1>1, PTL DEF Spec

\* No sequence of add_watch and rm_watch leaves a dangling kid or parent pointer,
\* a node the table does not find, or a table slot that leads to a freed node.
THEOREM WatchForest == Spec => []Forest
<1>1. IInv => Forest
  BY DEF IInv
<1>2. QED
  BY InitIInv, NextIInv, <1>1, PTL DEF Spec
=============================================================================
