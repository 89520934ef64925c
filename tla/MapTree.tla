------------------------------ MODULE MapTree ------------------------------
(***************************************************************************)
(* The maps of the Umka virtual machine (src/src/umka_vm.c: doGetMapNode   *)
(* and its callers): a binary search tree with random priorities that is   *)
(* rebalanced by whoever walks down it, readers included.                  *)
(*                                                                         *)
(* One iteration of the loop of doGetMapNode is one step.  The loop works  *)
(* on the address of a child pointer (`MapNode **node'), the link here, so *)
(* that it can replace the node the pointer leads to.  The root of a map   *)
(* has no key and the priority 0: the loop passes it to the right and      *)
(* never rotates it.                                                       *)
(***************************************************************************)
EXTENDS Integers, Sequences, FiniteSets, SequencesExt, FiniteSetsExt

CONSTANTS
  Keys,        \* the keys the program uses
  Items, Zero, \* the items, and what a new item is initialised with
  Nodes,       \* the nodes that can be allocated
  Priorities,  \* the values of rand() + 1
  Width,       \* integers have Width bits
  Root,        \* map->root
  Nil          \* the null pointer

ASSUME NodesAssumption ==
  /\ IsFiniteSet(Nodes)
  /\ Root \notin Nodes /\ Nil \notin Nodes \cup {Root}

ASSUME DataAssumption ==
  /\ Width \in Nat \ {0}
  /\ Keys # {}
  /\ Keys \subseteq -(2^(Width - 1)) .. 2^(Width - 1) - 1
  /\ Zero \in Items
  /\ Priorities \subseteq Nat \ {0}

\* Arithmetic that the provers do not know
ASSUME PowersAssumption ==
  2^(Width - 1) \in Nat \ {0} /\ 2^Width = 2 * 2^(Width - 1)

VARIABLES
  child,    \* the left and right pointers of the nodes and of the root
  key,      \* node->key
  priority, \* node->priority
  data,     \* node->data
  len,      \* map->root->len
  op,       \* the operation in progress
  link,     \* the loop variable of doGetMapNode
  result    \* what the last operation has returned, or nothing when one is in progress

nodes == <<key, priority, data, len>>
vars == <<child, nodes, op, link, result>>

Sides == {"left", "right"}
Other(side) == IF side = "left" THEN "right" ELSE "left"

Op == [name : {"none", "index", "set", "delete", "validkey"}, key : Keys, item : Items]
NoOp == [name |-> "none", key |-> CHOOSE k \in Keys : TRUE, item |-> Zero]

Top == [of |-> Root, side |-> "right"]

Init ==
  /\ child = [n \in Nodes \cup {Root} |-> [side \in Sides |-> Nil]]
  /\ key = [n \in Nodes |-> NoOp.key]
  /\ priority = [n \in Nodes |-> 0]
  /\ data = [n \in Nodes |-> Zero]
  /\ len = 0
  /\ op = NoOp
  /\ link = Top
  /\ result = <<>>

(***************************************************************************)
(* The tree.                                                               *)
(***************************************************************************)
\* The nodes below n in the order of the tree, doGetMapKeysRecursively
InOrder[n \in Nodes \cup {Nil}] ==
  IF n = Nil THEN <<>>
  ELSE InOrder[child[n]["left"]] \o <<n>> \o InOrder[child[n]["right"]]

Linked == ToSet(InOrder[child[Root]["right"]])

\* The node the link leads to
At == child[link.of][link.side]

\* Mutant: the keys are compared as unsigned integers
KeyDiffUnsigned(k, j) == (k % 2^Width) - (j % 2^Width)

\* doCompare of two int keys: the difference, in the width of the type
KeyDiff(k, j) == (((k - j) + 2^(Width - 1)) % 2^Width) - 2^(Width - 1)

\* doRebalanceMapNodes: the child of the node at the link, on this side, and the node
\* swap places
Rebalance(side) ==
  LET c == child[At][side]
  IN  [child EXCEPT ![At][side] = child[c][Other(side)],
                    ![c][Other(side)] = At,
                    ![link.of][link.side] = c]

\* Mutant: equal priorities are rotated too
OutOfOrderOrEqual(n, c) == c # Nil /\ priority[c] >= priority[n]

\* Is the child c of node n to be rotated
OutOfOrder(n, c) == c # Nil /\ priority[c] > priority[n]

Searching == op.name # "none"
Reached == At # Nil => KeyDiff(op.key, key[At]) = 0

Direction == IF KeyDiff(op.key, key[At]) > 0 THEN "right" ELSE "left"

(***************************************************************************)
(* The operations.                                                         *)
(***************************************************************************)
\* doGetMapNode is called
Start(name, k, x) ==
  /\ ~Searching
  /\ op' = [name |-> name, key |-> k, item |-> x]
  /\ link' = Top
  /\ result' = <<>>
  /\ UNCHANGED <<child, nodes>>

\* One iteration: the child in the direction of the key is rotated up, or visited
Walk ==
  /\ Searching /\ ~Reached
  /\ IF OutOfOrder(At, child[At][Direction])
     THEN child' = Rebalance(Direction) /\ UNCHANGED link
     ELSE link' = [of |-> At, side |-> Direction] /\ UNCHANGED child
  /\ UNCHANGED <<nodes, op, result>>

Finish == op' = NoOp /\ link' = Top

\* The item that an index or an assignment leaves behind
NewItem(old) == IF op.name = "set" THEN op.item ELSE old

\* doGetMapPtr, and the assignment through the pointer: the key is there
IndexExisting ==
  /\ op.name \in {"index", "set"} /\ Reached /\ At # Nil
  /\ data' = [data EXCEPT ![At] = NewItem(@)]
  /\ result' = <<data'[At]>>
  /\ Finish
  /\ UNCHANGED <<child, key, priority, len>>

\* It is not: a node is linked where the search has ended
IndexMissing ==
  /\ op.name \in {"index", "set"} /\ At = Nil
  /\ \E n \in Nodes \ Linked, p \in Priorities :
       /\ child' = [child EXCEPT ![link.of][link.side] = n]
       /\ key' = [key EXCEPT ![n] = op.key]
       /\ priority' = [priority EXCEPT ![n] = p]
       /\ data' = [data EXCEPT ![n] = NewItem(Zero)]
  /\ len' = len + 1
  /\ result' = <<NewItem(Zero)>>
  /\ Finish

\* vmGetMapNodeData, doBuiltinValidKey
ValidKey ==
  /\ op.name = "validkey" /\ Reached
  /\ result' = IF At = Nil THEN <<>> ELSE <<key[At]>>
  /\ Finish
  /\ UNCHANGED <<child, nodes>>

\* The link to node n
LinkTo(n) ==
  CHOOSE l \in [of : Nodes \cup {Root}, side : Sides] : child[l.of][l.side] = n

\* Mutant: what is on the right of the successor is lost
UnlinkedLosingRight ==
  LET n == At
      l == child[n]["left"]
      r == child[n]["right"]
      m == Head(InOrder[r])
      s == LinkTo(m)
      cut == [child EXCEPT ![s.of][s.side] = Nil]
  IN  IF l = Nil THEN [child EXCEPT ![link.of][link.side] = r]
      ELSE IF r = Nil THEN [child EXCEPT ![link.of][link.side] = l]
      ELSE [cut EXCEPT ![m] = cut[n], ![link.of][link.side] = m]

\* The node at the link is taken out: its only child takes its place, or else its
\* successor, the leftmost on its right, which leaves its own right child in its old place
Unlinked ==
  LET n == At
      l == child[n]["left"]
      r == child[n]["right"]
      m == Head(InOrder[r])
      s == LinkTo(m)
      cut == [child EXCEPT ![s.of][s.side] = child[m]["right"]]
  IN  IF l = Nil THEN [child EXCEPT ![link.of][link.side] = r]
      ELSE IF r = Nil THEN [child EXCEPT ![link.of][link.side] = l]
      ELSE [cut EXCEPT ![m] = cut[n], ![link.of][link.side] = m]

\* doBuiltinDeleteMap
Delete ==
  /\ op.name = "delete" /\ Reached
  /\ IF At = Nil THEN UNCHANGED <<child, nodes>>
     ELSE /\ child' = [Unlinked EXCEPT ![At] = [side \in Sides |-> Nil]]
          /\ key' = [key EXCEPT ![At] = NoOp.key]
          /\ priority' = [priority EXCEPT ![At] = 0]
          /\ data' = [data EXCEPT ![At] = Zero]
          /\ len' = len - 1
  /\ result' = <<>>
  /\ Finish

\* doBuiltinKeys
ListKeys ==
  /\ ~Searching
  /\ result' = LET order == InOrder[child[Root]["right"]]
               IN  [i \in DOMAIN order |-> key[order[i]]]
  /\ UNCHANGED <<child, nodes, op, link>>

Next ==
  \/ \E k \in Keys, x \in Items : Start("set", k, x)
  \/ \E name \in {"index", "delete", "validkey"}, k \in Keys : Start(name, k, Zero)
  \/ Walk
  \/ IndexExisting \/ IndexMissing \/ ValidKey \/ Delete
  \/ ListKeys

Spec == Init /\ [][Next]_vars

(***************************************************************************)
(* Properties.                                                             *)
(***************************************************************************)
TypeOK ==
  /\ child \in [Nodes \cup {Root} -> [Sides -> Nodes \cup {Nil}]]
  /\ key \in [Nodes -> Keys]
  /\ priority \in [Nodes -> Priorities \cup {0}]
  /\ data \in [Nodes -> Items]
  /\ len \in Nat
  /\ op \in Op
  /\ link \in [of : Nodes \cup {Root}, side : Sides]
  /\ result \in Seq(Items \cup Keys)
  /\ child[Root]["left"] = Nil

\* Of two keys the difference can be expressed: what a program has to see to, since
\* nothing checks it.
KeysClose == \A k, j \in Keys : k - j < 2^(Width - 1)

\* No two pointers lead to the same node, so the linked nodes are a tree, which no
\* walk can leave and deleting a map frees each node of it once; len counts them,
\* without which keys() stops with "Wrong number of map keys".
TreeShaped ==
  LET order == InOrder[child[Root]["right"]]
  IN  /\ \A i, j \in DOMAIN order : order[i] = order[j] => i = j
      /\ len = Len(order)

\* A map is ordered by ascending key values, and a key is there once.  Rotations and
\* deletions preserve this at every point of a walk.
Ordered ==
  LET order == InOrder[child[Root]["right"]]
  IN  \A i, j \in DOMAIN order : i < j => key[order[i]] < key[order[j]]

\* A walk does not lose what it looks for: if the key is in the map, it is in the
\* subtree at the link, whatever has been rotated on the way.
SearchNarrows ==
  Searching =>
    \A n \in Linked : key[n] = op.key => n \in ToSet(InOrder[At])

\* All of this together holds after every iteration of every walk, not only between
\* operations: doGetMapNode leaves a search tree behind wherever it returns.
SearchTree == TypeOK /\ TreeShaped /\ Ordered /\ SearchNarrows

\* Every iteration of the loop leaves fewer nodes below the link, or the same ones and
\* a higher priority at it: the loop of doGetMapNode ends, whatever the priorities are.
WalkProgresses ==
  [][Walk =>
       LET below == ToSet(InOrder[At])
       IN  \/ Cardinality(below') < Cardinality(below)
           \/ below' = below /\ priority[At'] > priority[At]]_vars

\* The items by the keys of the linked nodes
Contents == [k \in {key[n] : n \in Linked} |-> data[CHOOSE n \in Linked : key[n] = k]]

\* The tree implements a map.
Map == INSTANCE OrderedMap WITH contents <- Contents

MapSpec == Map!Spec

=============================================================================
