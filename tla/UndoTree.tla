------------------------------ MODULE UndoTree ------------------------------
(***************************************************************************)
(* The branching history of a document (crates/stratum/src/undo.rs).       *)
(*                                                                         *)
(* The arena `nodes` is a sequence, a NodeId is an index of it, and 0      *)
(* stands for None.  The vector `children` of a node is not stored: it is  *)
(* the set of the nodes whose parent it is, in creation order.  The Edit   *)
(* kept with a node is for display only and is left out.                   *)
(*                                                                         *)
(* The module has no specification of its own: Document records, undoes    *)
(* and redoes through it, and is the only caller in the program.           *)
(***************************************************************************)
EXTENDS Integers, Sequences

CONSTANT MaxNodes   \* bound: the arena of the program grows without limit

ASSUME MaxNodesAssumption == MaxNodes \in Nat \ {0}

VARIABLES
  nodes,     \* sequence of [rope, parent, lastChild]
  current    \* the node whose rope is the live text

NodeIds == DOMAIN nodes

Rope == nodes[current].rope

\* UndoTree::new
Rooted(rope) == << [rope |-> rope, parent |-> 0, lastChild |-> 0] >>

Reset(rope) ==
  /\ nodes' = Rooted(rope)
  /\ current' = 1

Children(n) == {c \in NodeIds : nodes[c].parent = n}

\* Mutant of RedoTarget: the oldest branch, whichever was left last.
OldestBranch(n) ==
  IF Children(n) # {} THEN CHOOSE c \in Children(n) : \A d \in Children(n) : c <= d
  ELSE 0

\* last_child.or_else(|| children.last()), 0 at a leaf
RedoTarget(n) ==
  IF nodes[n].lastChild # 0 THEN nodes[n].lastChild
  ELSE IF Children(n) # {} THEN CHOOSE c \in Children(n) : \A d \in Children(n) : d <= c
  ELSE 0

\* Mutant of Record: the parent does not remember its new branch.
UnrememberedRecord(rope) ==
  /\ Len(nodes) < MaxNodes
  /\ nodes' = Append(nodes, [rope |-> rope, parent |-> current, lastChild |-> 0])
  /\ current' = Len(nodes) + 1

\* UndoTree::record
Record(rope) ==
  /\ Len(nodes) < MaxNodes
  /\ nodes' = Append([nodes EXCEPT ![current].lastChild = Len(nodes) + 1],
                     [rope |-> rope, parent |-> current, lastChild |-> 0])
  /\ current' = Len(nodes) + 1

\* UndoTree::undo, when there is a parent
StepBack ==
  /\ nodes[current].parent # 0
  /\ current' = nodes[current].parent
  /\ nodes' = [nodes EXCEPT ![nodes[current].parent].lastChild = current]

\* UndoTree::redo, when there is a child
StepForward ==
  /\ RedoTarget(current) # 0
  /\ current' = RedoTarget(current)
  /\ UNCHANGED nodes

-----------------------------------------------------------------------------

\* The arena is a tree: a parent is older than its child, the remembered
\* branch of a node is one of its children, and a node with children
\* remembers one, so that redo can always come back to where undo left.
TreeShape ==
  /\ current \in NodeIds
  /\ \A n \in NodeIds :
       /\ (nodes[n].parent = 0) <=> (n = 1)
       /\ nodes[n].parent \in 0 .. n - 1
       /\ nodes[n].lastChild # 0 =>
            /\ nodes[n].lastChild \in NodeIds
            /\ nodes[nodes[n].lastChild].parent = n
       /\ nodes[n].lastChild = 0 => Children(n) = {}
=============================================================================
