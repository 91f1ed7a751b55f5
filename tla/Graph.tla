-------------------------------- MODULE Graph --------------------------------
(***************************************************************************)
(* The kernel's graph (rill-kernel/src/kernel.rs): the leaves, the         *)
(* container nodes above them and the event log.  Every method of Kernel   *)
(* that changes them is an action; a method that returns an error without  *)
(* a change is no step.                                                    *)
(*                                                                         *)
(* The order of a node's children is left out, and so is a leaf attached   *)
(* twice to one node: the Vec of children is a set of nodes and a set of   *)
(* leaves.  The event log is kept leaf by leaf: how the events of two      *)
(* leaves follow each other is left out, and so is the event of an attach, *)
(* which is part of module Daemon.                                         *)
(***************************************************************************)
EXTENDS Integers, Sequences, FiniteSets

CONSTANTS
  Kind,      \* NodeKind
  IdMax,     \* u64::MAX: the id after which the allocators start again at 1
  AnyMove,   \* whether callers also move a node below itself
  MaxLeaves  \* bound: leaves spawned

NoNode == 0
Ids == 1 .. IdMax

ASSUME IdAssumption == IdMax \in Nat \ {0}
ASSUME GraphBounds == MaxLeaves \in Nat /\ AnyMove \in BOOLEAN

VARIABLES
  nodes,      \* Kernel::nodes
  next_node,  \* Kernel::next_node
  leaves,     \* Kernel::leaves: what becomes of the child, and who knows
  events      \* Kernel::events: what was recorded of each leaf

vars == <<nodes, next_node, leaves, events>>

Live == DOMAIN nodes
Leaves == DOMAIN leaves

(* child is running, dying (killed and not yet waited for) or dead; terminated *)
(* is Session::terminated, reaped child_exit.is_some().                        *)
Spawned == [child |-> "running", terminated |-> FALSE, reaped |-> FALSE]

Record(ls, kind) ==
  events' = [l \in DOMAIN events |-> IF l \in ls THEN Append(events[l], kind) ELSE events[l]]

New ==
  /\ nodes = [n \in {} |-> {}]
  /\ next_node = 1
  /\ leaves = [l \in {} |-> {}]
  /\ events = [l \in {} |-> <<>>]

-----------------------------------------------------------------------------
(* spawn_leaf_with, allocate_id.  Leaves are never removed, so their ids count *)
SpawnLeaf ==
  LET l == Cardinality(Leaves) + 1 IN
  /\ l <= MaxLeaves
  /\ leaves' = [k \in Leaves \cup {l} |-> IF k = l THEN Spawned ELSE leaves[k]]
  /\ events' = [k \in Leaves \cup {l} |-> IF k = l THEN <<"Spawn">> ELSE events[k]]
  /\ UNCHANGED <<nodes, next_node>>

(* A mutant: the exit is recorded at every look *)
ReapAlways(l) ==
  /\ leaves[l].child = "dead"
  /\ leaves' = [leaves EXCEPT ![l].reaped = TRUE]
  /\ Record({l}, "Exit")
  /\ UNCHANGED <<nodes, next_node>>

(* reap, poll_child *)
Reap(l) ==
  /\ ~ leaves[l].reaped /\ leaves[l].child = "dead"
  /\ leaves' = [leaves EXCEPT ![l].reaped = TRUE]
  /\ Record({l}, "Exit")
  /\ UNCHANGED <<nodes, next_node>>

(* Session::terminate and Pty::terminate for a set of leaves: the flag is set  *)
(* before the child is killed; the wait for its death may time out.            *)
Killed(s) == [s EXCEPT !.terminated = TRUE, !.child = "dead"]
TimedOut(s) == [s EXCEPT !.terminated = TRUE, !.child = "dying"]
Terminable(ls) == {l \in ls : ~ leaves[l].terminated}
CanTimeOut(l) == ~ leaves[l].terminated /\ leaves[l].child = "running"

(* The leaves of ls that are not yet terminated are; with a leaf stuck, only   *)
(* those before it.                                                            *)
KillAll(ls) ==
  /\ leaves' = [l \in Leaves |-> IF l \in Terminable(ls) THEN Killed(leaves[l]) ELSE leaves[l]]
  /\ Record(Terminable(ls), "Terminate")

KillUpTo(ls, stuck) ==
  /\ CanTimeOut(stuck)
  /\ \E done \in SUBSET (Terminable(ls) \ {stuck}) :
       /\ leaves' = [l \in Leaves |->
                       IF l = stuck THEN TimedOut(leaves[l])
                       ELSE IF l \in done THEN Killed(leaves[l]) ELSE leaves[l]]
       /\ Record(done, "Terminate")

(* Kernel::terminate *)
Terminate(l) ==
  /\ ~ leaves[l].terminated
  /\ KillAll({l}) \/ KillUpTo({l}, l)
  /\ UNCHANGED <<nodes, next_node>>

-----------------------------------------------------------------------------
(* Mutants: the id is taken whether or not it is in use; the ids wrap to zero *)
AllocatedUnchecked == next_node
AfterZero(id, k) == IF id + k > IdMax THEN id + k - IdMax - 1 ELSE id + k

(* allocate_node_id: the first unused id from next_node on, wrapping at IdMax.  *)
(* It never returns if there is none.                                          *)
After(id, k) == IF id + k > IdMax THEN id + k - IdMax ELSE id + k
Allocated ==
  After(next_node, CHOOSE k \in 0 .. IdMax - 1 :
                     /\ After(next_node, k) \notin Live
                     /\ \A j \in 0 .. k - 1 : After(next_node, j) \in Live)

CreateNode(kind, parent) ==
  /\ parent \in Live \cup {NoNode}
  /\ Ids \ Live # {}
  /\ next_node' = After(Allocated, 1)
  /\ LET id == Allocated IN
     nodes' = [n \in Live \cup {id} |->
                 IF n = id THEN [kind |-> kind, parent |-> parent, kids |-> {}, leaves |-> {}]
                 ELSE IF n = parent THEN [nodes[n] EXCEPT !.kids = @ \cup {id}] ELSE nodes[n]]
  /\ UNCHANGED <<leaves, events>>

AttachLeaf(n, l) ==
  /\ nodes' = [nodes EXCEPT ![n].leaves = @ \cup {l}]
  /\ UNCHANGED <<next_node, leaves, events>>

(* collect_subtree: root and all that is reached through children.  On a cycle *)
(* the walk never ends.                                                        *)
ClosedBelow(S) == \A m \in S \cap Live : nodes[m].kids \subseteq S
Subtree(root) == {n \in Live : \A S \in SUBSET Live : root \in S /\ ClosedBelow(S) => n \in S}
LeavesIn(S) == UNION {nodes[n].leaves : n \in S}
WalkEnds(root) ==
  \A S \in SUBSET Subtree(root) :
    S # {} => \E n \in S : \A m \in S : n \notin nodes[m].kids

(* A mutant: the node stays among the children of its old parent *)
ReparentNodeKeep(n, parent) ==
  /\ parent \in (Live \cup {NoNode}) \ {n}
  /\ AnyMove \/ parent \notin Subtree(n)
  /\ nodes' = [m \in Live |->
                 IF m = n THEN [nodes[m] EXCEPT !.parent = parent]
                 ELSE IF m = parent THEN [nodes[m] EXCEPT !.kids = @ \cup {n}] ELSE nodes[m]]
  /\ UNCHANGED <<next_node, leaves, events>>

(* reparent_node.  Only the node itself is refused as its new parent; that     *)
(* callers do not choose one below it either is AnyMove = FALSE.               *)
ReparentNode(n, parent) ==
  /\ parent \in (Live \cup {NoNode}) \ {n}
  /\ AnyMove \/ parent \notin Subtree(n)
  /\ nodes' = [m \in Live |->
                 IF m = n THEN [nodes[m] EXCEPT !.parent = parent]
                 ELSE IF m = parent THEN [nodes[m] EXCEPT !.kids = @ \cup {n}]
                 ELSE IF m = nodes[n].parent THEN [nodes[m] EXCEPT !.kids = @ \ {n}]
                 ELSE nodes[m]]
  /\ UNCHANGED <<next_node, leaves, events>>

RemoveSubtree(root) ==
  nodes' = [n \in Live \ Subtree(root) |->
              IF n = nodes[root].parent THEN [nodes[n] EXCEPT !.kids = @ \ {root}] ELSE nodes[n]]

(* A mutant: the nodes go although the leaves could not all be terminated *)
CloseNodeAnyway(root) ==
  /\ WalkEnds(root)
  /\ LET below == LeavesIn(Subtree(root)) IN
     \/ KillAll(below) /\ RemoveSubtree(root)
     \/ \E stuck \in below : KillUpTo(below, stuck) /\ RemoveSubtree(root)
  /\ UNCHANGED next_node

(* close_node: a leaf that cannot be terminated leaves the nodes as they are,  *)
(* with some leaves already gone.                                              *)
CloseNode(root) ==
  /\ WalkEnds(root)
  /\ LET below == LeavesIn(Subtree(root)) IN
     \/ KillAll(below) /\ RemoveSubtree(root)
     \/ \E stuck \in below : KillUpTo(below, stuck) /\ UNCHANGED nodes
  /\ UNCHANGED next_node

-----------------------------------------------------------------------------
(* A child exits by itself, or at last dies of the signal *)
ChildExit(l) ==
  /\ leaves[l].child \in {"running", "dying"}
  /\ leaves' = [leaves EXCEPT ![l].child = "dead"]
  /\ UNCHANGED <<nodes, next_node, events>>

Next ==
  \/ SpawnLeaf
  \/ \E l \in Leaves : Reap(l) \/ Terminate(l) \/ ChildExit(l)
  \/ \E k \in Kind, p \in Live \cup {NoNode} : CreateNode(k, p)
  \/ \E n \in Live : \/ CloseNode(n)
                     \/ \E l \in Leaves : AttachLeaf(n, l)
                     \/ \E p \in Live \cup {NoNode} : ReparentNode(n, p)

Spec == New /\ [][Next]_vars

-----------------------------------------------------------------------------
NodeRecs == [kind : Kind, parent : Ids \cup {NoNode}, kids : SUBSET Ids, leaves : SUBSET (1 .. MaxLeaves)]
LeafRecs == [child : {"running", "dying", "dead"}, terminated : BOOLEAN, reaped : BOOLEAN]
EventKinds == {"Spawn", "Terminate", "Exit"}

TypeOK ==
  /\ Live \subseteq Ids /\ nodes \in [Live -> NodeRecs]
  /\ next_node \in Ids
  /\ Leaves \subseteq 1 .. MaxLeaves /\ leaves \in [Leaves -> LeafRecs]
  /\ events \in [Leaves -> Seq(EventKinds)]

(* The two directions of the container tree agree, whatever was created,      *)
(* moved and closed: a node's parent is live and lists it, nobody else does,  *)
(* and the leaves it lists exist.                                              *)
LinkInv ==
  \A n \in Live :
    /\ nodes[n].parent \in Live \cup {NoNode}
    /\ nodes[n].kids \subseteq Live /\ nodes[n].leaves \subseteq Leaves
    /\ \A k \in Live : k \in nodes[n].kids <=> nodes[k].parent = n

(* No set of nodes hangs together without a way up: following parents from    *)
(* any node ends at a root, so the walk of close_node ends.                   *)
Rooted ==
  \A S \in SUBSET Live : S # {} => \E n \in S : nodes[n].parent \notin S

TreeInv == LinkInv /\ Rooted

(* The event log tells each leaf's story once (ADR 0015 D4): it starts with   *)
(* the spawn, records one exit exactly when the child was reaped, and at most *)
(* one termination, which happened; a retried close does not repeat it.       *)
Times(l, kind) == Cardinality({i \in DOMAIN events[l] : events[l][i] = kind})
EventInv ==
  \A l \in Leaves :
    /\ events[l] # <<>> /\ Head(events[l]) = "Spawn" /\ Times(l, "Spawn") = 1
    /\ Times(l, "Exit") = (IF leaves[l].reaped THEN 1 ELSE 0)
    /\ Times(l, "Terminate") <= (IF leaves[l].terminated THEN 1 ELSE 0)

(* close_node ends exactly what it removes: a step that removes nodes leaves  *)
(* none of their leaves running, and terminates no leaf that is not theirs.   *)
Removed == {n \in Live : n \notin DOMAIN nodes'}
Ended == {l \in Leaves : leaves'[l].terminated /\ ~ leaves[l].terminated}
CloseExact ==
  [][ Removed # {} => /\ Ended \subseteq LeavesIn(Removed)
                      /\ \A l \in LeavesIn(Removed) : leaves'[l].terminated
                      /\ \A l \in Ended : leaves'[l].child = "dead" ]_vars

(* A live id keeps meaning the same node when the allocator wraps: no step     *)
(* changes its kind or takes a leaf from it (SPEC-NAV 1).                      *)
StableNodes ==
  [][ \A n \in Live \cap DOMAIN nodes' :
        nodes'[n].kind = nodes[n].kind /\ nodes[n].leaves \subseteq nodes'[n].leaves ]_vars
=============================================================================
