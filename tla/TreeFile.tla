------------------------------ MODULE TreeFile ------------------------------
(***************************************************************************)
(* A B-tree and its page file: the changes of the tree, and save and       *)
(* load_exact of btree.rs, which put every node on a slotted page and go   *)
(* through the pager one call at a time.  The renames that publish a saved *)
(* file are in the module Store.                                           *)
(*                                                                         *)
(* The pager has two kinds of user: the tree, or a caller of its own that  *)
(* makes any sequence of calls.                                            *)
(***************************************************************************)
EXTENDS BTree, Pager

CONSTANTS
  PageSize, NoRoom,
  KeySize,    \* the length of a key in bytes
  Bounds      \* bounds, one of which the entries have to be within: keys, and
              \* values, each given by its length in bytes

ASSUME TreeFileAssumption ==
  \A b \in Bounds : b.keys \subseteq Nat /\ b.values \subseteq Nat

INSTANCE SlottedPage

VARIABLES
  tree,       \* the tree in memory
  stage,      \* the next step of save; "none" when a caller has the pager
  item,       \* the page it writes next
  map         \* history: the value each key should have

treeVars == <<tree, stage, item, map>>

vars == <<treeVars, pagerVars>>

AllKeys == UNION {b.keys : b \in Bounds}

FileInit ==
  /\ Init
  /\ tree = new /\ stage \in {"idle", "none"} /\ item = 0
  /\ map = [k \in AllKeys |-> NoValue]

-----------------------------------------------------------------------------
(* The tree on pages.  Node i is on page i + 1, behind the metadata.       *)

PageOf(id) == id + 1

LeftCell(child) == [size |-> 8, child |-> PageOf(child)]

\* encode_pair: two lengths, the key and the value.
PairSize(value) == 8 + KeySize + value

LeafCell(key, value) == [size |-> PairSize(value), key |-> key, value |-> value]

InternalCell(key, value, child) ==
  [size |-> PairSize(value) + 8, key |-> key, value |-> value, child |-> PageOf(child)]

NodePage(node) ==
  IF Leaf(node)
    THEN Filled("leaf", [i \in DOMAIN node.keys |-> LeafCell(node.keys[i], node.values[i])])
    ELSE Filled("internal",
           <<LeftCell(node.children[1])>>
             \o [i \in DOMAIN node.keys |->
                   InternalCell(node.keys[i], node.values[i], node.children[i + 1])])

MetaPage ==
  Filled("meta", <<[size |-> 24, root |-> PageOf(tree.root),
                    nodes |-> Len(tree.nodes), len |-> tree.len]>>)

\* The page save writes as its item-th.
ItemPage == IF item = 1 THEN MetaPage ELSE NodePage(tree.nodes[item - 1])

\* load_exact, in two parts: the node a page holds, and the checks.
NodeOf(page) ==
  LET pairs == IF page.kind = "internal" THEN Tail(page.cells) ELSE page.cells
  IN  Node([i \in DOMAIN pairs |-> pairs[i].key],
           [i \in DOMAIN pairs |-> pairs[i].value],
           IF page.kind = "leaf" THEN <<>>
           ELSE [i \in DOMAIN page.cells |-> page.cells[i].child - 1])

LoadedTree(f) ==
  LET meta == f[1].cells[1]
  IN  IF f = <<>> THEN new
      ELSE [nodes |-> [i \in 1..meta.nodes |-> NodeOf(f[i + 1])],
            root |-> meta.root - 1, len |-> meta.len]

\* page_to_index succeeds.
InRange(page, count) == page - 1 \in 1..count

load_exact(f) ==
  \/ f = <<>>
  \/ /\ from_bytes(f[1]) /\ f[1].kind = "meta"
     /\ LET meta == f[1].cells[1]
        IN  /\ meta.nodes > 0 /\ Len(f) = meta.nodes + 1
            /\ \A i \in 2..Len(f) :
                 /\ from_bytes(f[i]) /\ f[i].kind \in {"leaf", "internal"}
                 /\ f[i].kind = "internal" =>
                      \A c \in DOMAIN f[i].cells :
                        InRange(f[i].cells[c].child, meta.nodes)
            /\ InRange(meta.root, meta.nodes)
     /\ Len(entries(LoadedTree(f))) = LoadedTree(f).len

-----------------------------------------------------------------------------
(* The tree in memory.                                                     *)

Within(m) ==
  \E b \in Bounds : \A k \in AllKeys : m[k] # NoValue => k \in b.keys /\ m[k] \in b.values

Change(t, m) ==
  /\ stage = "idle" /\ Within(m)
  /\ tree' = t /\ map' = m
  /\ UNCHANGED <<stage, item, pagerVars>>

Insertion ==
  \E k \in AllKeys, v \in UNION {b.values : b \in Bounds} :
    Change(insert(tree, k, v), [map EXCEPT ![k] = v])

Deletion ==
  \E k \in AllKeys : Change(delete(tree, k), [map EXCEPT ![k] = NoValue])

-----------------------------------------------------------------------------
(* save.                                                                   *)

\* The pager has no file.
Closed ==
  /\ file' = <<>> /\ unsynced' = {} /\ cache' = NoCache
  /\ clock' = 0 /\ pages' = 0 /\ changed' = {}

\* Pager::create, on a file that is empty.
SaveBegins ==
  /\ stage = "idle" /\ stage' = "allocate"
  /\ UNCHANGED <<tree, item, map, pagerVars>>

\* A page for the metadata and one for each node, as zeros.
SaveAllocates ==
  /\ stage = "allocate"
  /\ write(pages + 1, Zero)
  /\ IF pages' = Len(tree.nodes) + 1 THEN stage' = "write" /\ item' = 1
                                     ELSE UNCHANGED <<stage, item>>
  /\ UNCHANGED <<tree, map>>

SaveWrites ==
  /\ stage = "write" /\ item <= Len(tree.nodes) + 1
  /\ ItemPage # NoRoom
  /\ write(item, ItemPage)
  /\ item' = item + 1
  /\ UNCHANGED <<tree, stage, map>>

SaveFlushes ==
  /\ stage = "write" /\ item > Len(tree.nodes) + 1
  /\ flush
  /\ stage' = "saved"
  /\ UNCHANGED <<tree, item, map>>

\* save returns: with an error, when a node does not fit its page or a call of
\* the pager fails, or when the file is published.  The file it leaves behind
\* after an error is emptied by the next save.
SaveEnds ==
  /\ \/ stage = "write" /\ item <= Len(tree.nodes) + 1
        /\ ItemPage = NoRoom /\ UNCHANGED errors
     \/ stage \in {"allocate", "write"} /\ Error
     \/ stage = "saved" /\ UNCHANGED errors
  /\ stage' = "idle" /\ item' = 0 /\ Closed
  /\ UNCHANGED <<tree, map>>

\* The saved file is loaded when the store is opened again.
Load ==
  /\ stage = "saved" /\ load_exact(file)
  /\ tree' = LoadedTree(file)
  /\ stage' = "idle" /\ item' = 0 /\ Closed
  /\ UNCHANGED <<map, errors>>

FileNext ==
  \/ Insertion \/ Deletion \/ Load
  \/ SaveBegins \/ SaveAllocates \/ SaveWrites \/ SaveFlushes \/ SaveEnds
  \/ stage = "none" /\ Next /\ UNCHANGED treeVars

FileSpec == FileInit /\ [][FileNext]_vars

-----------------------------------------------------------------------------
(* Properties.                                                             *)

\* The nodes of a tree refer to one another by index.
IsNode(node, count) ==
  /\ Len(node.keys) = Len(node.values) /\ Len(node.keys) <= MaxKeys
  /\ Leaf(node) \/ Len(node.children) = Len(node.keys) + 1
  /\ \A i \in DOMAIN node.children : node.children[i] \in 1..count

\* The shape of the tree and of the pager's state.
TypeOK ==
  /\ \A id \in DOMAIN tree.nodes : IsNode(tree.nodes[id], Len(tree.nodes))
  /\ tree.root \in DOMAIN tree.nodes /\ tree.len \in Nat
  /\ stage \in {"none", "idle", "allocate", "write", "saved"}
  /\ DOMAIN cache \subseteq 1..pages /\ Cardinality(DOMAIN cache) <= Capacity
  /\ Len(file) <= pages /\ unsynced \subseteq DOMAIN file
  /\ changed \subseteq 1..pages

\* The entries are those of a map that underwent the same changes.
IsMap(t) ==
  LET e == entries(t)
  IN  /\ \A i, j \in DOMAIN e : i < j => e[i][1] < e[j][1]
      /\ \A i \in DOMAIN e : map[e[i][1]] = e[i][2]
      /\ Len(e) = Cardinality({k \in AllKeys : map[k] # NoValue})

\* After any sequence of insertions, replacements, deletions and reloads the
\* tree holds what a map would: in ascending order for scans, and found by get
\* along the path that splits have left; a range is what lies between its ends.
TreeIsMap ==
  stage = "idle" =>
    /\ IsMap(tree) /\ tree.len = Len(entries(tree))
    /\ \A k \in AllKeys : get(tree, k) = map[k]
    /\ \A a, b \in AllKeys :
         ToSet(range(tree, a, b)) = {<<k, map[k]>> : k \in {k \in a..(b - 1) : map[k] # NoValue}}

\* The nodes at each distance from the root.
Levels(t) ==
  LET level[d \in 0..Len(t.nodes)] ==
        IF d = 0 THEN {t.root}
        ELSE UNION {ToSet(t.nodes[id].children) : id \in level[d - 1]}
  IN  level

\* The tree stays balanced: all leaves are at the same depth, every node but the
\* root is at least half full, and each node has one place in the tree, so that
\* save writes no page twice and none in vain.
Balanced ==
  stage = "idle" =>
  LET level == Levels(tree)
  IN  /\ \A d \in DOMAIN level : \A a, b \in level[d] :
           Leaf(tree.nodes[a]) = Leaf(tree.nodes[b])
      /\ \A id \in DOMAIN tree.nodes \ {tree.root} :
           Len(tree.nodes[id].keys) >= MinDegree - 1
      /\ UNION {level[d] : d \in DOMAIN level} = DOMAIN tree.nodes
      /\ Cardinality(UNION {{<<p, i>> : i \in DOMAIN tree.nodes[p].children} :
                              p \in DOMAIN tree.nodes}) = Len(tree.nodes) - 1

\* A file that save has flushed loads, whatever the cache had to evict on the
\* way, and gives the entries of the tree it was saved from.
SavedTreeLoads ==
  stage = "saved" => load_exact(file) /\ IsMap(LoadedTree(file))

\* The largest key and value, together, of which every node has room for
\* MaxKeys: 251 bytes for the code's 4096-byte page and 15 keys.
SafeSize == (PageSize - HeaderSize - 12) \div MaxKeys - 20

\* A tree whose entries are within SafeSize is never refused by save for lack
\* of space on a page; above it a node that fills up makes every checkpoint
\* fail from then on.
SmallEntriesFit ==
  (\A k \in AllKeys : map[k] # NoValue => KeySize + map[k] <= SafeSize)
    => (stage = "write" /\ item <= Len(tree.nodes) + 1 => ItemPage # NoRoom)
=============================================================================
