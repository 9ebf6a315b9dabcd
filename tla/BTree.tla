------------------------------- MODULE BTree -------------------------------
(***************************************************************************)
(* The B-tree of btree.rs as operators on a value                          *)
(*   nodes  the nodes, referred to by their index,                         *)
(*   root   the index of the root, and                                     *)
(*   len    the number of entries.                                         *)
(* Keys are numbers, in the place of strings and their order.              *)
(***************************************************************************)
EXTENDS Integers, Sequences, SequencesExt, FiniteSets

CONSTANTS MinDegree,  \* MIN_DEGREE
          NoValue     \* the answer of get for a key that is not there

ASSUME BTreeAssumption == MinDegree \in Nat /\ MinDegree >= 2

MaxKeys == 2 * MinDegree - 1

Node(keys, values, children) ==
  [keys |-> keys, values |-> values, children |-> children]

Leaf(node) == node.children = <<>>

new == [nodes |-> <<Node(<<>>, <<>>, <<>>)>>, root |-> 1, len |-> 0]

\* Where binary_search finds the key, or where it belongs.
Slot(keys, key) == 1 + Cardinality({i \in DOMAIN keys : keys[i] < key})

Holds(node, key) == Contains(node.keys, key)

-----------------------------------------------------------------------------
RECURSIVE get_from(_, _, _)
get_from(tree, id, key) ==
  LET node == tree.nodes[id]
      slot == Slot(node.keys, key)
  IN  IF Holds(node, key) THEN node.values[slot]
      ELSE IF Leaf(node) THEN NoValue
      ELSE get_from(tree, node.children[slot], key)

get(tree, key) == get_from(tree, tree.root, key)

\* collect: the entries below a node, in order.
RECURSIVE collect(_, _)
collect(tree, id) ==
  LET node == tree.nodes[id]
      Below(i) == IF Leaf(node) THEN <<>> ELSE collect(tree, node.children[i])
  IN  FlattenSeq([i \in DOMAIN node.keys |->
                    Append(Below(i), <<node.keys[i], node.values[i]>>)])
        \o Below(Len(node.keys) + 1)

entries(tree) == collect(tree, tree.root)

range(tree, start, end) ==
  SelectSeq(entries(tree), LAMBDA e : e[1] >= start /\ e[1] < end)

-----------------------------------------------------------------------------
\* The nodes after a new value for a key that is there.
RECURSIVE replace(_, _, _, _)
replace(nodes, id, key, value) ==
  LET slot == Slot(nodes[id].keys, key)
  IN  IF Holds(nodes[id], key) THEN [nodes EXCEPT ![id].values[slot] = value]
      ELSE replace(nodes, nodes[id].children[slot], key, value)

\* A part of a node, from one key to another, with the children between.
Part(node, from, to) ==
  Node(SubSeq(node.keys, from, to), SubSeq(node.values, from, to),
       IF Leaf(node) THEN <<>> ELSE SubSeq(node.children, from, to + 1))

\* The child at a slot of the parent is split at its key number m.
SplitAt(nodes, parent, slot, m) ==
  LET id == nodes[parent].children[slot]
      child == nodes[id]
  IN  Append([nodes EXCEPT
                ![id] = Part(child, 1, m - 1),
                ![parent].keys = InsertAt(@, slot, child.keys[m]),
                ![parent].values = InsertAt(@, slot, child.values[m]),
                ![parent].children = InsertAt(@, slot + 1, Len(nodes) + 1)],
             Part(child, m + 1, Len(child.keys)))

\* Mutant of split_child: the key before the median goes up.
split_child_before(nodes, parent, slot) == SplitAt(nodes, parent, slot, MinDegree - 1)

\* The full child at a slot of the parent gives its median to the parent and
\* what follows the median to a new node.
split_child(nodes, parent, slot) == SplitAt(nodes, parent, slot, MinDegree)

Full(node) == Len(node.keys) = MaxKeys

\* Mutant of HalfOf: the key goes to the left half.
HalfOfLeft(node, slot, key) == slot

\* The half of a child split at the slot that the key belongs to.
HalfOf(node, slot, key) == IF key > node.keys[slot] THEN slot + 1 ELSE slot

\* Insertion below a node that is not full.  A full child is split before it
\* is entered; the new key may then belong to its right half.
RECURSIVE insert_non_full(_, _, _, _)
insert_non_full(nodes, id, key, value) ==
  LET slot == Slot(nodes[id].keys, key)
  IN  IF Leaf(nodes[id])
        THEN [nodes EXCEPT ![id].keys = InsertAt(@, slot, key),
                           ![id].values = InsertAt(@, slot, value)]
      ELSE IF Full(nodes[nodes[id].children[slot]])
        THEN LET split == split_child(nodes, id, slot)
                 half == HalfOf(split[id], slot, key)
             IN  insert_non_full(split, split[id].children[half], key, value)
        ELSE insert_non_full(nodes, nodes[id].children[slot], key, value)

\* The tree with a new root above a root that is full.
Grown(tree) ==
  LET root == Len(tree.nodes) + 1
      above == Append(tree.nodes, Node(<<>>, <<>>, <<tree.root>>))
  IN  IF Full(tree.nodes[tree.root])
        THEN [tree EXCEPT !.nodes = split_child(above, root, 1), !.root = root]
        ELSE tree

insert(tree, key, value) ==
  IF get(tree, key) # NoValue
    THEN [tree EXCEPT !.nodes = replace(@, tree.root, key, value)]
    ELSE LET grown == Grown(tree)
         IN  [grown EXCEPT
                !.nodes = insert_non_full(@, grown.root, key, value),
                !.len = @ + 1]

\* delete builds the tree again from the entries that stay.
delete(tree, key) ==
  IF get(tree, key) = NoValue THEN tree
  ELSE FoldLeft(LAMBDA t, e : insert(t, e[1], e[2]), new,
                SelectSeq(entries(tree), LAMBDA e : e[1] # key))
=============================================================================
