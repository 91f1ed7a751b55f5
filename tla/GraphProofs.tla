----------------------------- MODULE GraphProofs -----------------------------
(***************************************************************************)
(* Theorems about the kernel's graph, for any number of ids and leaves:    *)
(* its variables keep their types and its containers stay a forest as long *)
(* as callers do not move a node below itself.                             *)
(***************************************************************************)
EXTENDS Graph, SequenceTheorems, FiniteSetTheorems, WellFoundedInduction, TLAPS

(* The inductive invariant: the forest needs no more than types. *)
GraphInv == TypeOK /\ TreeInv

-----------------------------------------------------------------------------
(* The allocator returns an id that is not in use, wherever its counter is,   *)
(* and the counter stays an id (allocate_node_id).                            *)
LEMMA AfterIsId ==
  \A id \in Ids, k \in 0 .. IdMax - 1 : After(id, k) \in Ids
  BY IdAssumption DEF Ids, After

LEMMA AfterReaches ==
  ASSUME NEW id \in Ids, NEW free \in Ids
  PROVE  \E k \in 0 .. IdMax - 1 : After(id, k) = free
<1>1. CASE free >= id
  <2>1. free - id \in 0 .. IdMax - 1 /\ After(id, free - id) = free
    BY <1>1, IdAssumption DEF Ids, After
  <2> QED
    BY <2>1
<1>2. CASE free < id
  <2>1. free - id + IdMax \in 0 .. IdMax - 1 /\ After(id, free - id + IdMax) = free
    BY <1>2, IdAssumption DEF Ids, After
  <2> QED
    BY <2>1
<1> QED
  BY <1>1, <1>2 DEF Ids

LEMMA AllocatedFresh ==
  ASSUME next_node \in Ids, Ids \ Live # {}
  PROVE  Allocated \in Ids \ Live
<1> DEFINE Free == {k \in 0 .. IdMax - 1 : After(next_node, k) \notin Live}
<1>1. PICK free \in Ids \ Live : TRUE
  OBVIOUS
<1>2. Free # {}
  <2>1. PICK k \in 0 .. IdMax - 1 : After(next_node, k) = free
    BY AfterReaches
  <2> QED
    BY <2>1
<1>3. Free \subseteq Nat
  BY IdAssumption
<1>4. PICK x \in Free : \A y \in Free : ~ (<<y, x>> \in OpToRel(<, Nat))
  BY <1>2, <1>3, NatLessThanWellFounded, WFMin
<1>5. ASSUME NEW j \in 0 .. x - 1 PROVE After(next_node, j) \in Live
  <2>1. x \in Nat /\ j \in Nat /\ j < x /\ j \in 0 .. IdMax - 1
    BY IdAssumption
  <2>2. <<j, x>> \in {ss \in Nat \X Nat : ss[1] < ss[2]}
    BY <2>1
  <2>3. <<j, x>> \in OpToRel(<, Nat)
    BY <2>2 DEF OpToRel
  <2> QED
    BY <1>4, <2>1, <2>3
<1> DEFINE P(k) == /\ After(next_node, k) \notin Live
                   /\ \A j \in 0 .. k - 1 : After(next_node, j) \in Live
<1>6. \E k \in 0 .. IdMax - 1 : P(k)
  BY <1>4, <1>5
<1>7. (CHOOSE k \in 0 .. IdMax - 1 : P(k)) \in 0 .. IdMax - 1
      /\ P(CHOOSE k \in 0 .. IdMax - 1 : P(k))
  <2> HIDE DEF P
  <2> QED
    BY <1>6
<1>8. Allocated = After(next_node, CHOOSE k \in 0 .. IdMax - 1 : P(k))
  BY DEF Allocated
<1> HIDE DEF P
<1>9. Allocated \notin Live
  BY <1>7, <1>8 DEF P
<1> QED
  BY <1>7, <1>8, <1>9, AfterIsId

-----------------------------------------------------------------------------
(* What collect_subtree returns: the root and, for every other member, its    *)
(* parent too; nothing below a member is missing.                             *)
LEMMA SubtreeFacts ==
  ASSUME LinkInv, NEW root \in Live
  PROVE  /\ root \in Subtree(root)
         /\ Subtree(root) \subseteq Live
         /\ \A m \in Subtree(root) : nodes[m].kids \subseteq Subtree(root)
         /\ \A c \in Subtree(root) : c = root \/ nodes[c].parent \in Subtree(root)
<1>1. root \in Subtree(root) /\ Subtree(root) \subseteq Live
  BY DEF Subtree
<1>2. ASSUME NEW m \in Subtree(root), NEW k \in nodes[m].kids
      PROVE  k \in Subtree(root)
  <2>1. m \in Live /\ k \in Live
    BY <1>1 DEF LinkInv
  <2>2. ASSUME NEW S \in SUBSET Live, root \in S, ClosedBelow(S) PROVE k \in S
    <3>1. m \in S
      BY <2>2 DEF Subtree
    <3> QED
      BY <2>1, <2>2, <3>1 DEF ClosedBelow
  <2> QED
    BY <2>1, <2>2 DEF Subtree
<1>3. ASSUME NEW c \in Subtree(root), c # root, nodes[c].parent \notin Subtree(root)
      PROVE  FALSE
  <2> DEFINE S == Subtree(root) \ {c}
  <2>1. S \in SUBSET Live /\ root \in S
    BY <1>1, <1>3
  <2>2. ClosedBelow(S)
    <3> SUFFICES ASSUME NEW m \in S, NEW k \in nodes[m].kids PROVE k \in S
      BY DEF ClosedBelow
    <3>1. m \in Live /\ k \in Live /\ m \in Subtree(root) /\ k \in Subtree(root)
      BY <1>1, <1>2 DEF LinkInv
    <3>2. nodes[k].parent = m
      BY <3>1 DEF LinkInv
    <3> QED
      BY <1>3, <3>1, <3>2
  <2>3. c \in S
    BY <2>1, <2>2 DEF Subtree
  <2> QED
    BY <2>3
<1> QED
  BY <1>1, <1>2, <1>3

-----------------------------------------------------------------------------
(* Types, action by action. *)
LEMMA RecordTyped ==
  ASSUME TypeOK, NEW ls, NEW kind \in EventKinds, Record(ls, kind)
  PROVE  events' \in [Leaves -> Seq(EventKinds)]
<1>1. \A l \in Leaves : events[l] \in Seq(EventKinds)
  BY DEF TypeOK
<1>2. \A l \in Leaves : Append(events[l], kind) \in Seq(EventKinds)
  BY <1>1
<1>3. DOMAIN events = Leaves
  BY DEF TypeOK
<1> QED
  BY <1>1, <1>2, <1>3 DEF Record

LEMMA KillTyped ==
  ASSUME TypeOK, NEW ls \in SUBSET (1 .. MaxLeaves), NEW stuck,
         KillAll(ls) \/ KillUpTo(ls, stuck)
  PROVE  /\ DOMAIN leaves' = Leaves
         /\ leaves' \in [Leaves -> LeafRecs]
         /\ events' \in [Leaves -> Seq(EventKinds)]
<1>1. \A l \in Leaves : /\ Killed(leaves[l]) \in LeafRecs
                        /\ TimedOut(leaves[l]) \in LeafRecs
                        /\ leaves[l] \in LeafRecs
  BY DEF TypeOK, Killed, TimedOut, LeafRecs
<1>2. CASE KillAll(ls)
  <2> QED
    BY <1>1, <1>2, RecordTyped DEF KillAll, EventKinds
<1>3. CASE KillUpTo(ls, stuck)
  <2>1. PICK done \in SUBSET (Terminable(ls) \ {stuck}) :
          /\ leaves' = [l \in Leaves |->
                          IF l = stuck THEN TimedOut(leaves[l])
                          ELSE IF l \in done THEN Killed(leaves[l]) ELSE leaves[l]]
          /\ Record(done, "Terminate")
    BY <1>3 DEF KillUpTo
  <2> QED
    BY <1>1, <2>1, RecordTyped DEF EventKinds
<1> QED
  BY <1>2, <1>3

LEMMA LeafTyped ==
  ASSUME TypeOK,
         SpawnLeaf \/ \E l \in Leaves : Reap(l) \/ Terminate(l) \/ ChildExit(l)
  PROVE  TypeOK' /\ UNCHANGED <<nodes, next_node>> /\ Leaves \subseteq Leaves'
<1>1. CASE SpawnLeaf
  <2>1. IsFiniteSet(Leaves)
    <3>1. IsFiniteSet(1 .. MaxLeaves)
      BY GraphBounds, FS_Interval
    <3> QED
      BY <3>1, FS_Subset DEF TypeOK
  <2>2. PICK l \in Nat : l = Cardinality(Leaves) + 1 /\ l >= 1
    BY <2>1, FS_CardinalityType
  <2>3. /\ l <= MaxLeaves
        /\ leaves' = [k \in Leaves \cup {l} |-> IF k = l THEN Spawned ELSE leaves[k]]
        /\ events' = [k \in Leaves \cup {l} |-> IF k = l THEN <<"Spawn">> ELSE events[k]]
        /\ UNCHANGED <<nodes, next_node>>
    BY <1>1, <2>2 DEF SpawnLeaf
  <2>4. l \in 1 .. MaxLeaves
    BY <2>2, <2>3, GraphBounds
  <2>5. Spawned \in LeafRecs /\ <<"Spawn">> \in Seq(EventKinds)
    BY DEF Spawned, LeafRecs, EventKinds
  <2>6. events' \in [Leaves \cup {l} -> Seq(EventKinds)]
    BY <2>3, <2>5 DEF TypeOK
  <2>7. leaves' \in [Leaves \cup {l} -> LeafRecs] /\ Leaves' = Leaves \cup {l}
    BY <2>3, <2>5 DEF TypeOK, Leaves
  <2> QED
    BY <2>3, <2>4, <2>6, <2>7 DEF TypeOK, Live
<1>2. ASSUME NEW l \in Leaves, Reap(l)
      PROVE  TypeOK' /\ UNCHANGED <<nodes, next_node>> /\ Leaves \subseteq Leaves'
  <2>2. events' \in [Leaves -> Seq(EventKinds)]
    BY <1>2, RecordTyped DEF Reap, EventKinds
  <2>3. [leaves[l] EXCEPT !.reaped = TRUE] \in LeafRecs
    BY DEF TypeOK, LeafRecs
  <2>4. leaves' \in [Leaves -> LeafRecs] /\ Leaves' = Leaves
    BY <1>2, <2>3 DEF TypeOK, Reap, Leaves
  <2> QED
    BY <1>2, <2>2, <2>4 DEF TypeOK, Reap, Live
<1>3. ASSUME NEW l \in Leaves, ChildExit(l)
      PROVE  TypeOK' /\ UNCHANGED <<nodes, next_node>> /\ Leaves \subseteq Leaves'
  <2>1. [leaves[l] EXCEPT !.child = "dead"] \in LeafRecs
    BY DEF TypeOK, LeafRecs
  <2>2. leaves' \in [Leaves -> LeafRecs] /\ Leaves' = Leaves
    BY <1>3, <2>1 DEF TypeOK, ChildExit, Leaves
  <2> QED
    BY <1>3, <2>2 DEF TypeOK, ChildExit, Live
<1>4. ASSUME NEW l \in Leaves, Terminate(l)
      PROVE  TypeOK' /\ UNCHANGED <<nodes, next_node>> /\ Leaves \subseteq Leaves'
  <2>1. {l} \in SUBSET (1 .. MaxLeaves)
    BY DEF TypeOK
  <2>2. KillAll({l}) \/ KillUpTo({l}, l)
    BY <1>4 DEF Terminate
  <2>3. DOMAIN leaves' = Leaves /\ leaves' \in [Leaves -> LeafRecs] /\ events' \in [Leaves -> Seq(EventKinds)]
    BY <2>1, <2>2, KillTyped
  <2> QED
    BY <1>4, <2>3 DEF TypeOK, Terminate, Live, Leaves
<1> QED
  BY <1>1, <1>2, <1>3, <1>4

LEMMA CreateTyped ==
  ASSUME TypeOK, NEW kind \in Kind, NEW parent, CreateNode(kind, parent)
  PROVE  TypeOK'
<1>1. PICK id \in Ids \ Live : id = Allocated
  BY AllocatedFresh DEF TypeOK, CreateNode
<1>2. next_node' \in Ids
  <2>1. CASE IdMax = 1
    BY <1>1, <2>1 DEF CreateNode, After, Ids
  <2>2. CASE IdMax # 1
    BY <1>1, <2>2, IdAssumption DEF CreateNode, After, Ids
  <2> QED
    BY <2>1, <2>2
<1>3. /\ parent \in Live \cup {NoNode}
      /\ nodes' = [n \in Live \cup {id} |->
                    IF n = id THEN [kind |-> kind, parent |-> parent, kids |-> {}, leaves |-> {}]
                    ELSE IF n = parent THEN [nodes[n] EXCEPT !.kids = @ \cup {id}] ELSE nodes[n]]
      /\ UNCHANGED <<leaves, events>>
  BY <1>1 DEF CreateNode
<1>4. [kind |-> kind, parent |-> parent, kids |-> {}, leaves |-> {}] \in NodeRecs
  BY <1>3 DEF TypeOK, NodeRecs
<1>5. \A n \in Live : nodes[n] \in NodeRecs /\ [nodes[n] EXCEPT !.kids = @ \cup {id}] \in NodeRecs
  BY DEF TypeOK, NodeRecs
<1>6. nodes' \in [Live \cup {id} -> NodeRecs] /\ Live' = Live \cup {id}
  BY <1>3, <1>4, <1>5 DEF Live
<1> QED
  BY <1>1, <1>2, <1>3, <1>6 DEF TypeOK, Leaves

LEMMA MoveTyped ==
  ASSUME TypeOK, NEW n \in Live,
         \/ \E l \in Leaves : AttachLeaf(n, l)
         \/ \E p \in Live \cup {NoNode} : ReparentNode(n, p)
         \/ CloseNode(n)
  PROVE  TypeOK' /\ Leaves' = Leaves
<1>1. ASSUME NEW l \in Leaves, AttachLeaf(n, l) PROVE TypeOK' /\ Leaves' = Leaves
  <2>1. [nodes[n] EXCEPT !.leaves = @ \cup {l}] \in NodeRecs
    BY DEF TypeOK, NodeRecs
  <2>2. nodes' \in [Live -> NodeRecs] /\ Live' = Live
    BY <1>1, <2>1 DEF TypeOK, AttachLeaf, Live
  <2> QED
    BY <1>1, <2>2 DEF TypeOK, AttachLeaf, Leaves
<1>2. ASSUME NEW p \in Live \cup {NoNode}, ReparentNode(n, p) PROVE TypeOK' /\ Leaves' = Leaves
  <2>1. p \in Ids \cup {NoNode}
    BY DEF TypeOK
  <2>2. \A m \in Live : /\ nodes[m] \in NodeRecs
                        /\ [nodes[m] EXCEPT !.parent = p] \in NodeRecs
                        /\ [nodes[m] EXCEPT !.kids = @ \cup {n}] \in NodeRecs
                        /\ [nodes[m] EXCEPT !.kids = @ \ {n}] \in NodeRecs
    BY <2>1 DEF TypeOK, NodeRecs
  <2>3. nodes' \in [Live -> NodeRecs] /\ Live' = Live
    BY <1>2, <2>2 DEF ReparentNode, Live
  <2> QED
    BY <1>2, <2>3 DEF TypeOK, ReparentNode, Leaves
<1>3. CASE CloseNode(n)
  <2>1. LeavesIn(Subtree(n)) \in SUBSET (1 .. MaxLeaves)
    BY DEF LeavesIn, Subtree, TypeOK, NodeRecs
  <2>2. PICK stuck : KillAll(LeavesIn(Subtree(n))) \/ KillUpTo(LeavesIn(Subtree(n)), stuck)
    BY <1>3 DEF CloseNode
  <2>3. DOMAIN leaves' = Leaves /\ leaves' \in [Leaves -> LeafRecs] /\ events' \in [Leaves -> Seq(EventKinds)]
    BY <2>1, <2>2, KillTyped
  <2>4. (RemoveSubtree(n) \/ UNCHANGED nodes) /\ UNCHANGED next_node
    BY <1>3 DEF CloseNode
  <2>5. \A m \in Live : nodes[m] \in NodeRecs /\ [nodes[m] EXCEPT !.kids = @ \ {n}] \in NodeRecs
    BY DEF TypeOK, NodeRecs
  <2>6. Live' \subseteq Live /\ nodes' \in [Live' -> NodeRecs]
    BY <2>4, <2>5 DEF RemoveSubtree, Live, TypeOK
  <2> QED
    BY <2>3, <2>4, <2>6 DEF TypeOK, Leaves
<1> QED
  BY <1>1, <1>2, <1>3

LEMMA StepTyped ==
  ASSUME TypeOK, [Next]_vars
  PROVE  TypeOK'
<1>1. CASE UNCHANGED vars
  BY <1>1 DEF vars, TypeOK, Live, Leaves
<1>2. CASE Next
  BY <1>2, LeafTyped, CreateTyped, MoveTyped DEF Next
<1> QED
  BY <1>1, <1>2

-----------------------------------------------------------------------------
(* The forest, action by action. *)
LEMMA LeafTree ==
  ASSUME TreeInv, UNCHANGED nodes, Leaves \subseteq Leaves'
  PROVE  TreeInv'
<1>1. Live' = Live
  BY DEF Live
<1> QED
  BY <1>1 DEF TreeInv, LinkInv, Rooted

LEMMA CreateTree ==
  ASSUME TypeOK, TreeInv, NEW kind \in Kind, NEW parent, CreateNode(kind, parent)
  PROVE  TreeInv'
<1>1. PICK id \in Ids \ Live : id = Allocated
  BY AllocatedFresh DEF TypeOK, CreateNode
<1>2. /\ parent \in Live \cup {NoNode}
      /\ nodes' = [n \in Live \cup {id} |->
                    IF n = id THEN [kind |-> kind, parent |-> parent, kids |-> {}, leaves |-> {}]
                    ELSE IF n = parent THEN [nodes[n] EXCEPT !.kids = @ \cup {id}] ELSE nodes[n]]
      /\ Leaves' = Leaves
  BY <1>1 DEF CreateNode, Leaves
<1>3. id # NoNode
  BY <1>1 DEF Ids, NoNode
<1>4. /\ Live' = Live \cup {id}
      /\ nodes'[id].parent = parent /\ nodes'[id].kids = {} /\ nodes'[id].leaves = {}
  BY <1>2 DEF Live
<1>5. \A n \in Live :
        /\ nodes'[n].parent = nodes[n].parent
        /\ nodes'[n].leaves = nodes[n].leaves
        /\ nodes'[n].kids = IF n = parent THEN nodes[n].kids \cup {id} ELSE nodes[n].kids
  BY <1>1, <1>2 DEF TypeOK, NodeRecs
<1>6. \A n \in Live : nodes[n].parent # id /\ id \notin nodes[n].kids
  BY <1>1, <1>3 DEF TreeInv, LinkInv
<1>7. LinkInv'
  BY <1>2, <1>3, <1>4, <1>5, <1>6 DEF TreeInv, LinkInv
<1>8. Rooted'
  <2> SUFFICES ASSUME NEW S \in SUBSET (Live \cup {id}), S # {}
               PROVE  \E n \in S : nodes'[n].parent \notin S
    BY <1>4 DEF Rooted
  <2>1. CASE S \ {id} = {}
    BY <1>2, <1>1, <1>3, <1>4, <2>1
  <2>2. CASE S \ {id} # {}
    <3>1. PICK n \in S \ {id} : nodes[n].parent \notin S \ {id}
      BY <2>2 DEF TreeInv, Rooted
    <3> QED
      BY <3>1, <1>5, <1>6
  <2> QED
    BY <2>1, <2>2
<1> QED
  BY <1>7, <1>8 DEF TreeInv

LEMMA AttachTree ==
  ASSUME TypeOK, TreeInv, NEW n \in Live, NEW l \in Leaves, AttachLeaf(n, l)
  PROVE  TreeInv'
<1>1. Live' = Live /\ Leaves' = Leaves
  BY DEF AttachLeaf, Live, Leaves, TypeOK
<1>2. \A m \in Live : /\ nodes'[m].parent = nodes[m].parent
                      /\ nodes'[m].kids = nodes[m].kids
                      /\ nodes'[m].leaves \subseteq nodes[m].leaves \cup {l}
  BY DEF AttachLeaf, TypeOK, NodeRecs
<1>3. LinkInv'
  BY <1>1, <1>2 DEF TreeInv, LinkInv
<1>4. Rooted'
  BY <1>1, <1>2 DEF TreeInv, Rooted
<1> QED
  BY <1>3, <1>4 DEF TreeInv

(* Here the restriction on callers is used: a set closed under the new        *)
(* parents, less what hangs below the moved node, was closed under the old    *)
(* ones.                                                                      *)
LEMMA ReparentTree ==
  ASSUME AnyMove = FALSE, TypeOK, TreeInv,
         NEW n \in Live, NEW p \in Live \cup {NoNode}, ReparentNode(n, p)
  PROVE  TreeInv'
<1>1. Live' = Live /\ Leaves' = Leaves
  BY DEF ReparentNode, Live, Leaves
<1>2. p # n /\ p \notin Subtree(n)
  BY DEF ReparentNode
<1>3. \A m \in Live : /\ nodes'[m].parent = IF m = n THEN p ELSE nodes[m].parent
                      /\ nodes'[m].leaves = nodes[m].leaves
                      /\ nodes'[m].kids = IF m = n THEN nodes[m].kids
                                          ELSE IF m = p THEN nodes[m].kids \cup {n}
                                          ELSE IF m = nodes[n].parent THEN nodes[m].kids \ {n}
                                          ELSE nodes[m].kids
  BY DEF ReparentNode, TypeOK, NodeRecs
<1>4. n \notin nodes[n].kids
  <2>1. nodes[n].parent # n
    <3>1. {n} \in SUBSET Live /\ {n} # {}
      OBVIOUS
    <3> QED
      BY <3>1 DEF TreeInv, Rooted
  <2> QED
    BY <2>1 DEF TreeInv, LinkInv
<1>5. LinkInv'
  <2> SUFFICES ASSUME NEW m \in Live
               PROVE  /\ nodes'[m].parent \in Live \cup {NoNode}
                      /\ nodes'[m].kids \subseteq Live /\ nodes'[m].leaves \subseteq Leaves
                      /\ \A k \in Live : k \in nodes'[m].kids <=> nodes'[k].parent = m
    BY <1>1 DEF LinkInv
  <2>1. /\ nodes[m].parent \in Live \cup {NoNode}
        /\ nodes[m].kids \subseteq Live /\ nodes[m].leaves \subseteq Leaves
        /\ \A k \in Live : k \in nodes[m].kids <=> nodes[k].parent = m
    BY DEF TreeInv, LinkInv
  <2>2. ASSUME NEW k, k # n PROVE k \in nodes'[m].kids <=> k \in nodes[m].kids
    <3>1. \/ nodes'[m].kids = nodes[m].kids
          \/ nodes'[m].kids = nodes[m].kids \cup {n}
          \/ nodes'[m].kids = nodes[m].kids \ {n}
      BY <1>3
    <3> QED
      BY <2>2, <3>1
  <2>3. nodes'[m].kids \subseteq Live
    BY <2>1, <2>2
  <2>4. ASSUME NEW k \in Live, k # n PROVE k \in nodes'[m].kids <=> nodes'[k].parent = m
    <3>1. nodes'[k].parent = nodes[k].parent
      BY <1>3, <2>4
    <3> QED
      BY <2>1, <2>2, <2>4, <3>1
  <2>5. n \in nodes'[m].kids <=> nodes'[n].parent = m
    <3>1. nodes'[n].parent = p
      BY <1>3
    <3>2. CASE m = n
      BY <1>2, <1>3, <1>4, <3>1, <3>2
    <3>3. CASE m # n /\ m = p
      BY <1>3, <3>1, <3>3
    <3>4. CASE m # n /\ m # p
      <4>1. n \in nodes[m].kids => nodes[n].parent = m
        BY <2>1
      <4> QED
        BY <1>3, <3>1, <3>4, <4>1
    <3> QED
      BY <3>2, <3>3, <3>4
  <2>6. nodes'[m].parent \in Live \cup {NoNode} /\ nodes'[m].leaves \subseteq Leaves
    BY <1>3, <2>1
  <2> QED
    BY <2>3, <2>4, <2>5, <2>6
<1>6. Rooted'
  <2> SUFFICES ASSUME NEW S \in SUBSET Live, S # {}, \A m \in S : nodes'[m].parent \in S
               PROVE  FALSE
    BY <1>1 DEF Rooted
  <2>1. CASE n \notin S
    BY <1>3, <2>1 DEF TreeInv, Rooted
  <2>2. CASE n \in S
    <3> DEFINE A == S \ Subtree(n)
    <3>1. p \in A
      BY <1>2, <1>3, <2>2
    <3>2. ASSUME NEW m \in A PROVE nodes[m].parent \in A
      <4>1. m # n
        BY SubtreeFacts DEF TreeInv
      <4>2. nodes[m].parent \in S
        BY <1>3, <4>1
      <4>3. nodes[m].parent \notin Subtree(n)
        <5>1. m \in nodes[nodes[m].parent].kids
          BY <4>2 DEF TreeInv, LinkInv
        <5> QED
          BY <5>1, SubtreeFacts DEF TreeInv
      <4> QED
        BY <4>2, <4>3
    <3>3. A \in SUBSET Live /\ A # {}
      BY <3>1
    <3> QED
      BY <3>2, <3>3 DEF TreeInv, Rooted
  <2> QED
    BY <2>1, <2>2
<1> QED
  BY <1>5, <1>6 DEF TreeInv

LEMMA CloseTree ==
  ASSUME TypeOK, TreeInv, NEW root \in Live, RemoveSubtree(root), Leaves' = Leaves
  PROVE  TreeInv'
<1> DEFINE Sub == Subtree(root)
<1>1. /\ root \in Sub /\ Sub \subseteq Live
      /\ \A m \in Sub : nodes[m].kids \subseteq Sub
      /\ \A c \in Sub : c = root \/ nodes[c].parent \in Sub
  BY SubtreeFacts DEF TreeInv
<1>2. Live' = Live \ Sub
  BY DEF RemoveSubtree, Live
<1>3. \A m \in Live \ Sub :
        /\ nodes'[m].parent = nodes[m].parent
        /\ nodes'[m].leaves = nodes[m].leaves
        /\ nodes'[m].kids = IF m = nodes[root].parent THEN nodes[m].kids \ {root} ELSE nodes[m].kids
  BY DEF RemoveSubtree, TypeOK, NodeRecs
<1> HIDE DEF Sub
<1>4. \A m \in Live \ Sub : nodes[m].parent \notin Sub
  BY <1>1 DEF TreeInv, LinkInv
<1>5. LinkInv'
  <2> SUFFICES ASSUME NEW m \in Live \ Sub
               PROVE  /\ nodes'[m].parent \in (Live \ Sub) \cup {NoNode}
                      /\ nodes'[m].kids \subseteq Live \ Sub /\ nodes'[m].leaves \subseteq Leaves
                      /\ \A k \in Live \ Sub : k \in nodes'[m].kids <=> nodes'[k].parent = m
    BY <1>2 DEF LinkInv
  <2>1. /\ nodes[m].parent \in Live \cup {NoNode}
        /\ nodes[m].kids \subseteq Live /\ nodes[m].leaves \subseteq Leaves
        /\ \A k \in Live : k \in nodes[m].kids <=> nodes[k].parent = m
    BY DEF TreeInv, LinkInv
  <2>2. \A k \in Live \ Sub : k \in nodes'[m].kids <=> k \in nodes[m].kids
    BY <1>1, <1>3
  <2>3. nodes'[m].kids \subseteq nodes[m].kids
    BY <1>3
  <2>4. root \notin nodes'[m].kids
    BY <1>3, <2>1
  <2>5. ASSUME NEW k \in nodes'[m].kids PROVE k \notin Sub
    <3>1. k \in Live /\ nodes[k].parent = m /\ k # root
      BY <2>1, <2>3, <2>4
    <3> QED
      BY <1>1, <3>1
  <2>6. \A k \in Live \ Sub : k \in nodes'[m].kids <=> nodes'[k].parent = m
    BY <1>3, <2>1, <2>2
  <2> QED
    BY <1>3, <1>4, <2>1, <2>3, <2>5, <2>6
<1>6. Rooted'
  BY <1>2, <1>3 DEF TreeInv, Rooted
<1> QED
  BY <1>5, <1>6 DEF TreeInv

LEMMA StepTree ==
  ASSUME AnyMove = FALSE, GraphInv, [Next]_vars
  PROVE  TreeInv'
<1> USE DEF GraphInv
<1>1. CASE UNCHANGED vars
  BY <1>1, LeafTree DEF vars, Leaves
<1>2. CASE SpawnLeaf \/ \E l \in Leaves : Reap(l) \/ Terminate(l) \/ ChildExit(l)
  BY <1>2, LeafTyped, LeafTree
<1>3. ASSUME NEW k \in Kind, NEW p \in Live \cup {NoNode}, CreateNode(k, p) PROVE TreeInv'
  BY <1>3, CreateTree
<1>4. ASSUME NEW n \in Live, NEW l \in Leaves, AttachLeaf(n, l) PROVE TreeInv'
  BY <1>4, AttachTree
<1>5. ASSUME NEW n \in Live, NEW p \in Live \cup {NoNode}, ReparentNode(n, p) PROVE TreeInv'
  BY <1>5, ReparentTree
<1>6. ASSUME NEW n \in Live, CloseNode(n) PROVE TreeInv'
  <2>1. Leaves' = Leaves
    BY <1>6, MoveTyped
  <2>2. RemoveSubtree(n) \/ UNCHANGED nodes
    BY <1>6 DEF CloseNode
  <2> QED
    BY <2>1, <2>2, CloseTree, LeafTree
<1> QED
  BY <1>1, <1>2, <1>3, <1>4, <1>5, <1>6 DEF Next

-----------------------------------------------------------------------------
(* No id changes hands: the one step that writes a whole node takes a free id *)
LEMMA StepStable ==
  ASSUME TypeOK, [Next]_vars, NEW n \in Live \cap DOMAIN nodes'
  PROVE  nodes'[n].kind = nodes[n].kind /\ nodes[n].leaves \subseteq nodes'[n].leaves
<1>1. CASE UNCHANGED nodes
  BY <1>1
<1>2. ASSUME NEW k \in Kind, NEW p \in Live \cup {NoNode}, CreateNode(k, p)
      PROVE  nodes'[n].kind = nodes[n].kind /\ nodes[n].leaves \subseteq nodes'[n].leaves
  <2>1. Allocated \notin Live
    BY <1>2, AllocatedFresh DEF TypeOK, CreateNode
  <2> QED
    BY <1>2, <2>1 DEF CreateNode, TypeOK, NodeRecs
<1>3. ASSUME NEW m \in Live, NEW l \in Leaves, AttachLeaf(m, l)
      PROVE  nodes'[n].kind = nodes[n].kind /\ nodes[n].leaves \subseteq nodes'[n].leaves
  BY <1>3 DEF AttachLeaf, TypeOK, NodeRecs
<1>4. ASSUME NEW m \in Live, NEW p \in Live \cup {NoNode}, ReparentNode(m, p)
      PROVE  nodes'[n].kind = nodes[n].kind /\ nodes[n].leaves \subseteq nodes'[n].leaves
  BY <1>4 DEF ReparentNode, TypeOK, NodeRecs
<1>5. ASSUME NEW m \in Live, RemoveSubtree(m)
      PROVE  nodes'[n].kind = nodes[n].kind /\ nodes[n].leaves \subseteq nodes'[n].leaves
  <2>1. n \in Live \ Subtree(m)
    BY <1>5 DEF RemoveSubtree
  <2> QED
    BY <1>5, <2>1 DEF RemoveSubtree, TypeOK, NodeRecs
<1>6. CASE UNCHANGED vars
  BY <1>1, <1>6 DEF vars
<1>7. CASE SpawnLeaf \/ \E l \in Leaves : Reap(l) \/ Terminate(l) \/ ChildExit(l)
  BY <1>1, <1>7, LeafTyped
<1>8. ASSUME NEW m \in Live, CloseNode(m)
      PROVE  RemoveSubtree(m) \/ UNCHANGED nodes
  BY <1>8 DEF CloseNode
<1> QED
  BY <1>1, <1>2, <1>3, <1>4, <1>5, <1>6, <1>7, <1>8 DEF Next

-----------------------------------------------------------------------------
(* Only a close that terminated every leaf below its root removes nodes.      *)
LEMMA RemovalIsClose ==
  ASSUME TypeOK, [Next]_vars, Removed # {}
  PROVE  \E root \in Live : KillAll(LeavesIn(Subtree(root))) /\ RemoveSubtree(root)
<1>1. CASE UNCHANGED nodes
  BY <1>1 DEF Removed, Live
<1>2. CASE UNCHANGED vars
  BY <1>1, <1>2 DEF vars
<1>3. CASE SpawnLeaf \/ \E l \in Leaves : Reap(l) \/ Terminate(l) \/ ChildExit(l)
  BY <1>1, <1>3, LeafTyped
<1>4. ASSUME NEW k \in Kind, NEW p \in Live \cup {NoNode}, CreateNode(k, p) PROVE FALSE
  BY <1>4 DEF CreateNode, Removed
<1>5. ASSUME NEW n \in Live, NEW l \in Leaves, AttachLeaf(n, l) PROVE FALSE
  BY <1>5 DEF AttachLeaf, Removed, TypeOK
<1>6. ASSUME NEW n \in Live, NEW p \in Live \cup {NoNode}, ReparentNode(n, p) PROVE FALSE
  BY <1>6 DEF ReparentNode, Removed
<1>7. ASSUME NEW n \in Live, CloseNode(n)
      PROVE  (KillAll(LeavesIn(Subtree(n))) /\ RemoveSubtree(n)) \/ UNCHANGED nodes
  BY <1>7 DEF CloseNode
<1> QED
  BY <1>1, <1>2, <1>3, <1>4, <1>5, <1>6, <1>7 DEF Next

LEMMA StepExact ==
  ASSUME GraphInv, [Next]_vars, Removed # {}
  PROVE  /\ Ended \subseteq LeavesIn(Removed)
         /\ \A l \in LeavesIn(Removed) : leaves'[l].terminated
         /\ \A l \in Ended : leaves'[l].child = "dead"
<1>1. PICK root \in Live : KillAll(LeavesIn(Subtree(root))) /\ RemoveSubtree(root)
  BY RemovalIsClose DEF GraphInv
<1>2. Removed = Subtree(root)
  BY <1>1 DEF Removed, RemoveSubtree, Subtree
<1>3. LeavesIn(Removed) \subseteq Leaves
  BY <1>2 DEF GraphInv, TreeInv, LinkInv, LeavesIn, Subtree
<1>4. leaves' = [l \in Leaves |-> IF l \in Terminable(LeavesIn(Removed))
                                THEN Killed(leaves[l]) ELSE leaves[l]]
  BY <1>1, <1>2 DEF KillAll
<1>5. \A l \in Leaves : leaves[l] \in LeafRecs
  BY DEF GraphInv, TypeOK
<1>6. \A l \in Leaves : Killed(leaves[l]).terminated /\ Killed(leaves[l]).child = "dead"
  BY <1>5 DEF Killed, LeafRecs
<1>7. ASSUME NEW l \in Ended PROVE l \in Terminable(LeavesIn(Removed))
  <2>1. l \in Leaves /\ leaves'[l].terminated /\ ~ leaves[l].terminated
    BY DEF Ended
  <2> QED
    BY <1>4, <2>1, Zenon
<1>8. \A l \in Ended : l \in LeavesIn(Removed) /\ leaves'[l].child = "dead"
  <2>1. \A l \in Ended : l \in Leaves
    BY DEF Ended
  <2> QED
    BY <1>4, <1>6, <1>7, <2>1 DEF Terminable
<1>9. ASSUME NEW l \in LeavesIn(Removed) PROVE leaves'[l].terminated
  <2>1. CASE leaves[l].terminated
    BY <1>3, <1>4, <1>6, <2>1, Zenon
  <2>2. CASE ~ leaves[l].terminated
    <3>1. l \in Terminable(LeavesIn(Removed))
      BY <2>2 DEF Terminable
    <3> QED
      BY <1>3, <1>4, <1>6, <3>1, Zenon
  <2> QED
    BY <2>1, <2>2
<1> QED
  BY <1>8, <1>9

-----------------------------------------------------------------------------
(* The event log, action by action.  Count is Times for any log.              *)
Count(log, kind) == Cardinality({i \in DOMAIN log : log[i] = kind})

LEMMA CountAppend ==
  ASSUME NEW log \in Seq(EventKinds), NEW e \in EventKinds, NEW kind \in EventKinds
  PROVE  /\ Count(log, kind) \in Nat
         /\ e = kind => Count(Append(log, e), kind) = Count(log, kind) + 1
         /\ e # kind => Count(Append(log, e), kind) = Count(log, kind)
<1> DEFINE At == {i \in DOMAIN log : log[i] = kind}
           n == Len(log) + 1
<1>1. Len(log) \in Nat /\ DOMAIN log = 1 .. Len(log)
  OBVIOUS
<1>2. IsFiniteSet(At)
  <2>1. IsFiniteSet(1 .. Len(log))
    BY <1>1, FS_Interval
  <2> QED
    BY <1>1, <2>1, FS_Subset
<1>3. Cardinality(At) \in Nat
  BY <1>2, FS_CardinalityType
<1>4. n \notin At
  BY <1>1
<1>5. /\ DOMAIN Append(log, e) = (DOMAIN log) \cup {n}
      /\ Append(log, e)[n] = e
      /\ \A i \in DOMAIN log : Append(log, e)[i] = log[i]
  BY <1>1
<1>6. {i \in DOMAIN Append(log, e) : Append(log, e)[i] = kind} = IF e = kind THEN At \cup {n} ELSE At
  BY <1>5
<1>7. Cardinality(At \cup {n}) = Cardinality(At) + 1
  BY <1>2, <1>4, FS_AddElement
<1>8. Count(log, kind) = Cardinality(At)
  BY DEF Count
<1>9. Count(Append(log, e), kind) = Cardinality(IF e = kind THEN At \cup {n} ELSE At)
  BY <1>6 DEF Count
<1> HIDE DEF At, n
<1> QED
  BY <1>3, <1>7, <1>8, <1>9

(* One leaf's part of EventInv. *)
Story(log, leaf) ==
  /\ log # <<>> /\ Head(log) = "Spawn" /\ Count(log, "Spawn") = 1
  /\ Count(log, "Exit") = (IF leaf.reaped THEN 1 ELSE 0)
  /\ Count(log, "Terminate") <= (IF leaf.terminated THEN 1 ELSE 0)

LEMMA EventsAreStories == EventInv <=> \A l \in Leaves : Story(events[l], leaves[l])
  BY DEF EventInv, Story, Times, Count

LEMMA FirstEntry ==
  ASSUME NEW log \in Seq(EventKinds), NEW e \in EventKinds, log # <<>>
  PROVE  Append(log, e) # <<>> /\ Head(Append(log, e)) = Head(log)
  OBVIOUS

LEMMA StoryGoesOn ==
  ASSUME NEW log \in Seq(EventKinds), NEW leaf \in LeafRecs, Story(log, leaf)
  PROVE  /\ ~ leaf.reaped => Story(Append(log, "Exit"), [leaf EXCEPT !.reaped = TRUE])
         /\ ~ leaf.terminated => Story(Append(log, "Terminate"), Killed(leaf))
         /\ Story(log, TimedOut(leaf))
         /\ Story(log, [leaf EXCEPT !.child = "dead"])
<1>1. \A k \in EventKinds : Count(log, k) \in Nat
  BY CountAppend
<1>2. "Spawn" \in EventKinds /\ "Exit" \in EventKinds /\ "Terminate" \in EventKinds
  BY DEF EventKinds
<1>3. /\ Count(Append(log, "Exit"), "Spawn") = Count(log, "Spawn")
      /\ Count(Append(log, "Exit"), "Terminate") = Count(log, "Terminate")
      /\ Count(Append(log, "Exit"), "Exit") = Count(log, "Exit") + 1
  <2>1. "Exit" # "Spawn" /\ "Exit" # "Terminate"
    OBVIOUS
  <2> QED
    BY <1>2, <2>1, CountAppend
<1>4. /\ Count(Append(log, "Terminate"), "Spawn") = Count(log, "Spawn")
      /\ Count(Append(log, "Terminate"), "Exit") = Count(log, "Exit")
      /\ Count(Append(log, "Terminate"), "Terminate") = Count(log, "Terminate") + 1
  <2>1. "Terminate" # "Spawn" /\ "Terminate" # "Exit"
    OBVIOUS
  <2> QED
    BY <1>2, <2>1, CountAppend
<1>5. /\ Append(log, "Exit") # <<>> /\ Head(Append(log, "Exit")) = "Spawn"
      /\ Append(log, "Terminate") # <<>> /\ Head(Append(log, "Terminate")) = "Spawn"
  BY <1>2, FirstEntry DEF Story
<1>6. ASSUME ~ leaf.reaped PROVE Story(Append(log, "Exit"), [leaf EXCEPT !.reaped = TRUE])
  <2>1. [leaf EXCEPT !.reaped = TRUE].reaped
        /\ ([leaf EXCEPT !.reaped = TRUE].terminated <=> leaf.terminated)
    BY DEF LeafRecs
  <2>2. Count(log, "Exit") = 0
    BY <1>6 DEF Story
  <2> QED
    BY <1>3, <1>5, <2>1, <2>2 DEF Story
<1>7. ASSUME ~ leaf.terminated PROVE Story(Append(log, "Terminate"), Killed(leaf))
  <2>1. Killed(leaf).terminated /\ (Killed(leaf).reaped <=> leaf.reaped)
    BY DEF LeafRecs, Killed
  <2>2. Count(log, "Terminate") <= 0
    BY <1>7 DEF Story
  <2>3. Count(log, "Terminate") + 1 <= 1
    BY <1>1, <1>2, <2>2
  <2> QED
    BY <1>4, <1>5, <2>1, <2>3 DEF Story
<1>8. Story(log, TimedOut(leaf))
  <2>1. TimedOut(leaf).terminated /\ (TimedOut(leaf).reaped <=> leaf.reaped)
    BY DEF LeafRecs, TimedOut
  <2>2. Count(log, "Terminate") <= 1
    BY <1>1, <1>2 DEF Story
  <2> QED
    BY <2>1, <2>2 DEF Story
<1>9. Story(log, [leaf EXCEPT !.child = "dead"])
  <2>1. /\ [leaf EXCEPT !.child = "dead"].reaped <=> leaf.reaped
        /\ [leaf EXCEPT !.child = "dead"].terminated <=> leaf.terminated
    BY DEF LeafRecs
  <2> QED
    BY <2>1 DEF Story
<1> QED
  BY <1>6, <1>7, <1>8, <1>9

LEMMA StepStories ==
  ASSUME TypeOK, EventInv, [Next]_vars
  PROVE  EventInv'
<1> DEFINE Goal == \A l \in Leaves' : Story(events'[l], leaves'[l])
<1> SUFFICES Goal
  <2>1. Goal <=> EventInv'
    BY DEF EventInv, Story, Times, Count
  <2> QED
    BY <2>1
<1>1. \A l \in Leaves : /\ events[l] \in Seq(EventKinds) /\ leaves[l] \in LeafRecs
                        /\ Story(events[l], leaves[l])
  BY EventsAreStories DEF TypeOK
<1>2. /\ \A l \in Leaves : ~ leaves[l].reaped =>
            Story(Append(events[l], "Exit"), [leaves[l] EXCEPT !.reaped = TRUE])
      /\ \A l \in Leaves : ~ leaves[l].terminated =>
            Story(Append(events[l], "Terminate"), Killed(leaves[l]))
      /\ \A l \in Leaves : Story(events[l], TimedOut(leaves[l]))
      /\ \A l \in Leaves : Story(events[l], [leaves[l] EXCEPT !.child = "dead"])
  BY <1>1, StoryGoesOn
<1>3. DOMAIN events = Leaves /\ leaves \in [Leaves -> LeafRecs]
  BY DEF TypeOK
<1>4. CASE UNCHANGED <<leaves, events>>
  BY <1>1, <1>4 DEF Leaves
<1>5. CASE SpawnLeaf
  <2>1. PICK l : /\ leaves' = [k \in Leaves \cup {l} |-> IF k = l THEN Spawned ELSE leaves[k]]
                 /\ events' = [k \in Leaves \cup {l} |-> IF k = l THEN <<"Spawn">> ELSE events[k]]
    BY <1>5 DEF SpawnLeaf
  <2>2. Story(<<"Spawn">>, Spawned)
    <3>1. <<>> \in Seq(EventKinds) /\ Append(<<>>, "Spawn") = <<"Spawn">>
      OBVIOUS
    <3>2. \A k \in EventKinds : Count(<<>>, k) = 0
      <4>1. \A k \in EventKinds : {i \in DOMAIN <<>> : <<>>[i] = k} = {}
        OBVIOUS
      <4> QED
        BY <4>1, FS_EmptySet DEF Count
    <3>3. "Spawn" \in EventKinds /\ "Exit" \in EventKinds /\ "Terminate" \in EventKinds
      BY DEF EventKinds
    <3>4. "Spawn" # "Exit" /\ "Spawn" # "Terminate"
      OBVIOUS
    <3>5. /\ Count(<<"Spawn">>, "Spawn") = 1
          /\ Count(<<"Spawn">>, "Exit") = 0
          /\ Count(<<"Spawn">>, "Terminate") = 0
      <4>1. PICK log \in Seq(EventKinds) :
              log = <<>> /\ Append(log, "Spawn") = <<"Spawn">> /\ \A k \in EventKinds : Count(log, k) = 0
        BY <3>1, <3>2
      <4>2. /\ Count(Append(log, "Spawn"), "Spawn") = Count(log, "Spawn") + 1
            /\ Count(Append(log, "Spawn"), "Exit") = Count(log, "Exit")
            /\ Count(Append(log, "Spawn"), "Terminate") = Count(log, "Terminate")
        BY <3>3, <3>4, CountAppend
      <4>3. /\ Count(log, "Spawn") = 0 /\ Count(log, "Exit") = 0 /\ Count(log, "Terminate") = 0
        BY <3>3, <4>1
      <4>4. Append(log, "Spawn") = <<"Spawn">>
        BY <4>1
      <4>5. Count(log, "Spawn") + 1 = 1
        BY <4>3
      <4> QED
        BY <4>2, <4>3, <4>4, <4>5, Zenon
    <3>6. <<"Spawn">> # <<>> /\ Head(<<"Spawn">>) = "Spawn"
      OBVIOUS
    <3> QED
      BY <3>5, <3>6 DEF Story, Spawned
  <2>3. Leaves' = Leaves \cup {l}
    BY <2>1 DEF Leaves
  <2> QED
    BY <1>1, <2>1, <2>2, <2>3
<1>6. ASSUME NEW l \in Leaves, Reap(l) PROVE Goal
  <2>1. /\ leaves' = [leaves EXCEPT ![l] = [leaves[l] EXCEPT !.reaped = TRUE]]
        /\ events' = [k \in Leaves |-> IF k \in {l} THEN Append(events[k], "Exit") ELSE events[k]]
        /\ ~ leaves[l].reaped
    BY <1>3, <1>6 DEF Reap, Record
  <2>2. Leaves' = Leaves
    BY <1>3, <2>1 DEF Leaves
  <2>3. Story(Append(events[l], "Exit"), [leaves[l] EXCEPT !.reaped = TRUE])
    BY <1>2, <2>1
  <2>4. \A k \in Leaves : k # l => leaves'[k] = leaves[k] /\ events'[k] = events[k]
    BY <1>3, <2>1
  <2>5. leaves'[l] = [leaves[l] EXCEPT !.reaped = TRUE] /\ events'[l] = Append(events[l], "Exit")
    BY <1>3, <2>1
  <2> QED
    BY <1>1, <2>2, <2>3, <2>4, <2>5
<1>7. ASSUME NEW l \in Leaves, ChildExit(l) PROVE Goal
  <2>1. /\ leaves' = [leaves EXCEPT ![l] = [leaves[l] EXCEPT !.child = "dead"]]
        /\ events' = events
    BY <1>7 DEF ChildExit
  <2>2. Leaves' = Leaves
    BY <1>3, <2>1 DEF Leaves
  <2>3. \A k \in Leaves : k # l => leaves'[k] = leaves[k]
    BY <1>3, <2>1
  <2>4. leaves'[l] = [leaves[l] EXCEPT !.child = "dead"]
    BY <1>3, <2>1
  <2> QED
    BY <1>1, <1>2, <2>1, <2>2, <2>3, <2>4
<1>8. ASSUME NEW ls, KillAll(ls) PROVE Goal
  <2>1. /\ leaves' = [l \in Leaves |-> IF l \in Terminable(ls) THEN Killed(leaves[l]) ELSE leaves[l]]
        /\ events' = [l \in Leaves |-> IF l \in Terminable(ls) THEN Append(events[l], "Terminate")
                                      ELSE events[l]]
    BY <1>3, <1>8 DEF KillAll, Record
  <2>2. Leaves' = Leaves
    BY <2>1 DEF Leaves
  <2>3. \A l \in Terminable(ls) : ~ leaves[l].terminated
    BY DEF Terminable
  <2> QED
    BY <1>1, <1>2, <2>1, <2>2, <2>3
<1>9. ASSUME NEW ls, NEW stuck, KillUpTo(ls, stuck) PROVE Goal
  <2>1. PICK done \in SUBSET (Terminable(ls) \ {stuck}) :
          /\ leaves' = [l \in Leaves |->
                          IF l = stuck THEN TimedOut(leaves[l])
                          ELSE IF l \in done THEN Killed(leaves[l]) ELSE leaves[l]]
          /\ events' = [l \in Leaves |-> IF l \in done THEN Append(events[l], "Terminate")
                                        ELSE events[l]]
    BY <1>3, <1>9 DEF KillUpTo, Record
  <2>2. Leaves' = Leaves
    BY <2>1 DEF Leaves
  <2>3. \A l \in done : ~ leaves[l].terminated /\ l # stuck
    BY DEF Terminable
  <2> QED
    BY <1>1, <1>2, <2>1, <2>2, <2>3
<1>10. ASSUME NEW l \in Leaves, Terminate(l) PROVE Goal
  <2>1. KillAll({l}) \/ KillUpTo({l}, l)
    BY <1>10 DEF Terminate
  <2> HIDE DEF Goal
  <2> QED
    BY <1>8, <1>9, <2>1
<1>11. ASSUME NEW n \in Live, CloseNode(n) PROVE Goal
  <2>1. PICK stuck : KillAll(LeavesIn(Subtree(n))) \/ KillUpTo(LeavesIn(Subtree(n)), stuck)
    BY <1>11 DEF CloseNode
  <2> HIDE DEF Goal
  <2> QED
    BY <1>8, <1>9, <2>1
<1>12. CASE \/ \E k \in Kind, p \in Live \cup {NoNode} : CreateNode(k, p)
            \/ \E n \in Live : \/ \E l \in Leaves : AttachLeaf(n, l)
                               \/ \E p \in Live \cup {NoNode} : ReparentNode(n, p)
            \/ UNCHANGED vars
  <2>1. UNCHANGED <<leaves, events>>
    BY <1>12 DEF CreateNode, AttachLeaf, ReparentNode, vars
  <2> HIDE DEF Goal
  <2> QED
    BY <1>4, <2>1
<1> HIDE DEF Goal
<1> QED
  BY <1>5, <1>6, <1>7, <1>10, <1>11, <1>12 DEF Next

-----------------------------------------------------------------------------
LEMMA NewGraph == New => GraphInv
<1> SUFFICES ASSUME New PROVE GraphInv
  OBVIOUS
<1>1. Live = {} /\ Leaves = {} /\ events \in [Leaves -> Seq(EventKinds)] /\ next_node \in Ids
  BY IdAssumption DEF New, Live, Leaves, Ids
<1>2. nodes \in [Live -> NodeRecs] /\ leaves \in [Leaves -> LeafRecs]
  BY <1>1 DEF New, Live, Leaves
<1>3. TypeOK
  BY <1>1, <1>2 DEF TypeOK
<1>4. TreeInv
  BY <1>1 DEF TreeInv, LinkInv, Rooted
<1> QED
  BY <1>3, <1>4 DEF GraphInv

(* Whatever is spawned, created, moved, closed and reaped, in any order and   *)
(* with any number of ids, the kernel's tables keep their types; the node     *)
(* counter in particular is never zero, also after it wrapped.                *)
THEOREM TypeCorrect == Spec => []TypeOK
<1>1. New => TypeOK
  BY NewGraph DEF GraphInv
<1>2. TypeOK /\ [Next]_vars => TypeOK'
  BY StepTyped
<1> QED
  BY <1>1, <1>2, PTL DEF Spec

(* Nobody who holds the id of a live node ever finds another node under it,  *)
(* however often the allocator wrapped.                                       *)
THEOREM NodesStable == Spec => StableNodes
<1>1. TypeOK /\ [Next]_vars =>
        [\A n \in Live \cap DOMAIN nodes' :
           nodes'[n].kind = nodes[n].kind /\ nodes[n].leaves \subseteq nodes'[n].leaves]_vars
  BY StepStable
<1> QED
  BY <1>1, TypeCorrect, PTL DEF Spec, StableNodes

(* Whatever order leaves are closed, terminated, retried and reaped in, the   *)
(* log starts each leaf's story with its spawn, has one exit when it was      *)
(* reaped and at most one termination, of a leaf that was terminated.         *)
THEOREM EventsHold == Spec => []EventInv
<1>1. New => EventInv
  BY DEF New, EventInv, Leaves
<1>2. TypeOK /\ EventInv /\ [Next]_vars => EventInv'
  BY StepStories
<1> QED
  BY <1>1, <1>2, TypeCorrect, PTL DEF Spec

(* As long as no caller moves a node below itself, parents and children agree *)
(* and every node has a root above it, so close_node's walk ends.             *)
THEOREM TreeHolds ==
  ASSUME AnyMove = FALSE
  PROVE  Spec => []TreeInv
<1>1. New => GraphInv
  BY NewGraph
<1>2. GraphInv /\ [Next]_vars => GraphInv'
  BY StepTyped, StepTree DEF GraphInv
<1>3. GraphInv => TreeInv
  BY DEF GraphInv
<1> QED
  BY <1>1, <1>2, <1>3, PTL DEF Spec

(* And under the same condition a close ends exactly the leaves below the     *)
(* node it removes, and all of them.                                          *)
THEOREM CloseIsExact ==
  ASSUME AnyMove = FALSE
  PROVE  Spec => CloseExact
<1>1. GraphInv /\ [Next]_vars =>
        [Removed # {} => /\ Ended \subseteq LeavesIn(Removed)
                         /\ \A l \in LeavesIn(Removed) : leaves'[l].terminated
                         /\ \A l \in Ended : leaves'[l].child = "dead"]_vars
  BY StepExact
<1>2. TypeOK /\ TreeInv => GraphInv
  BY DEF GraphInv
<1> QED
  BY <1>1, <1>2, TypeCorrect, TreeHolds, PTL DEF Spec, CloseExact
=============================================================================
