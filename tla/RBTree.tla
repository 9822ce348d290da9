------------------------------- MODULE RBTree -------------------------------
(***************************************************************************)
(* The red-black tree of rbtree.c, by which the regions of an address      *)
(* space are found: insertion with its five cases and rotations, the list  *)
(* that links the nodes in order, the search with its cache, and clearing. *)
(* A key is in the tree once, so the node of a key is named by the key.    *)
(***************************************************************************)
EXTENDS Integers, FiniteSets

CONSTANTS Keys,        \* integers that may be inserted
          SearchKeys,  \* integers that may be searched
          Data,
          None         \* the null pointer, no integer of these sets

VARIABLES tree, answer

vars == <<tree, answer>>

NoNode == [absent |-> TRUE]
Modes == {"LEFTWARDS", "EXACT", "RIGHTWARDS"}

NewTree == [root |-> None, first |-> None, last |-> None,
            node |-> [k \in Keys |-> NoNode],
            cached_key |-> None, cached_mode |-> "EXACT",
            cached_node |-> None,
            asserted |-> TRUE]     \* every ASSERT so far has held

Init == tree = NewTree /\ answer = None

\* rbtree_node_new
NewNode(data) == [color |-> "RED", parent |-> None, left |-> None,
                  right |-> None, prev |-> None, next |-> None, data |-> data]

Asserts(t, p) == [t EXCEPT !.asserted = @ /\ p]
Set(t, k, field, v) == [t EXCEPT !.node[k] = [@ EXCEPT ![field] = v]]
SetIf(t, k, field, v) == IF k = None THEN t ELSE Set(t, k, field, v)
Parent(t, n) == t.node[n].parent
Grandparent(t, n) == IF Parent(t, n) = None THEN None ELSE Parent(t, Parent(t, n))
Uncle(t, n) ==
  LET g == Grandparent(t, n) IN
  IF g = None THEN None
  ELSE IF t.node[g].left = Parent(t, n) THEN t.node[g].right ELSE t.node[g].left

\* The node n takes its place in the list, before or after its parent p.
LinkBefore(t, p, n) ==
  LET before == t.node[p].prev
      t1 == Set(Set(Set(t, n, "prev", before), n, "next", p), p, "prev", n)
  IN  IF before = None THEN [t1 EXCEPT !.first = n] ELSE Set(t1, before, "next", n)
LinkAfter(t, p, n) ==
  LET after == t.node[p].next
      t1 == Set(Set(Set(t, n, "next", after), n, "prev", p), p, "next", n)
  IN  IF after = None THEN [t1 EXCEPT !.last = n] ELSE Set(t1, after, "prev", n)

\* rbtree_insert_node, for a key that is not in the tree: down from p.
RECURSIVE InsertNode(_, _, _)
InsertNode(t, p, n) ==
  IF n < p
  THEN IF t.node[p].left # None THEN InsertNode(t, t.node[p].left, n)
       ELSE LinkBefore(Set(Set(t, p, "left", n), n, "parent", p), p, n)
  ELSE IF t.node[p].right # None THEN InsertNode(t, t.node[p].right, n)
       ELSE LinkAfter(Set(Set(t, p, "right", n), n, "parent", p), p, n)

\* rbtree_node_rotate_left (toward = "left") and rbtree_node_rotate_right: the
\* child n of p on the other side becomes the parent of p.
Other(side) == IF side = "left" THEN "right" ELSE "left"
RotateOrphan(t, p, toward) ==  \* mutant: the inner subtree keeps its parent
  LET g == t.node[p].parent
      n == t.node[p][Other(toward)]
      c == t.node[n][toward]
      t1 == IF g = None THEN [t EXCEPT !.root = n]
            ELSE Set(t, g, IF t.node[g].left = p THEN "left" ELSE "right", n)
  IN  Set(Set(Set(Set(t1, n, toward, p), p, Other(toward), c), n, "parent", g),
          p, "parent", n)
Rotate(t, p, toward) ==
  LET g == t.node[p].parent
      n == t.node[p][Other(toward)]
      c == t.node[n][toward]
      t1 == IF g = None THEN [t EXCEPT !.root = n]
            ELSE Set(Asserts(t, t.node[g].left # t.node[g].right), g,
                     IF t.node[g].left = p THEN "left" ELSE "right", n)
      t2 == SetIf(Set(Set(t1, n, toward, p), p, Other(toward), c), c, "parent", p)
  IN  Set(Set(t2, n, "parent", g), p, "parent", n)

\* rbtree_insert_case_5
Case5(t, n) ==
  LET g  == Grandparent(t, n)
      t1 == Set(Set(t, Parent(t, n), "color", "BLACK"), g, "color", "RED")
  IN  Rotate(t1, g, IF n = t.node[Parent(t, n)].left THEN "right" ELSE "left")

\* rbtree_insert_case_4
Case4(t, n) ==
  LET p == Parent(t, n)
      g == Grandparent(t, n)
      s == IF p = t.node[g].left THEN "left" ELSE "right"
      inner == n = t.node[p][Other(s)]
      t1 == IF inner THEN Rotate(t, p, s) ELSE t
      n1 == IF inner THEN t1.node[n][s] ELSE n
  IN  Case5(Asserts(t1, Grandparent(t1, n1) = g /\ g # None), n1)

\* rbtree_insert_case_1 to rbtree_insert_case_3
RECURSIVE Case1(_, _)
Case1(t, n) ==
  LET p == Parent(t, n)
      u == Uncle(t, n)
      g == Grandparent(t, n)
  IN  IF p = None THEN Set(t, n, "color", "BLACK")
      ELSE IF t.node[p].color # "RED" THEN t
      ELSE IF u # None /\ t.node[u].color = "RED"
      THEN Case1(Set(Set(Set(t, p, "color", "BLACK"), u, "color", "BLACK"),
                     g, "color", "RED"), g)
      ELSE Case4(t, n)

\* Mutant: a new node leaves the cache as it is.
InsertedCached(t, key, data) ==
  LET t2 == [t EXCEPT !.node[key] = NewNode(data)] IN
  IF t.node[key] # NoNode THEN [t EXCEPT !.node[key].data = data]
  ELSE IF t.root = None
  THEN Case1([t2 EXCEPT !.root = key, !.first = key, !.last = key], key)
  ELSE Case1(InsertNode(t2, t.root, key), key)

\* rbtree_insert_ex: the data of a key already present is replaced.
Inserted(t, key, data) ==
  LET t1 == [t EXCEPT !.cached_node = None]
      t2 == [t1 EXCEPT !.node[key] = NewNode(data)]
  IN  IF t.node[key] # NoNode THEN [t1 EXCEPT !.node[key].data = data]
      ELSE IF t.root = None
      THEN Case1([t2 EXCEPT !.root = key, !.first = key, !.last = key], key)
      ELSE Case1(InsertNode(t2, t.root, key), key)

\* rbtree_node_search: the node where the search for a key ends.
RECURSIVE NodeSearch(_, _, _)
NodeSearch(t, n, key) ==
  LET side == IF key < n THEN "left" ELSE "right" IN
  IF n = key \/ t.node[n][side] = None THEN n
  ELSE NodeSearch(t, t.node[n][side], key)

\* rbtree_search
Closest(t, key, mode) ==
  LET c == NodeSearch(t, t.root, key) IN
  CASE key < c /\ mode = "LEFTWARDS"  -> t.node[c].prev
    [] c < key /\ mode = "RIGHTWARDS" -> t.node[c].next
    [] c # key /\ mode = "EXACT"      -> None
    [] OTHER                          -> c
Cached(t, key, mode) ==
  t.cached_key = key /\ t.cached_mode = mode /\ t.cached_node # None

-----------------------------------------------------------------------------
Insert(key, data) == tree' = Inserted(tree, key, data) /\ UNCHANGED answer

Search(key, mode) ==
  \/ /\ tree.root = None
     /\ answer' = None /\ UNCHANGED tree
  \/ /\ tree.root # None /\ Cached(tree, key, mode)
     /\ answer' = tree.cached_node /\ UNCHANGED tree
  \/ /\ tree.root # None /\ ~Cached(tree, key, mode)
     /\ answer' = Closest(tree, key, mode)
     /\ tree' = IF mode = "EXACT" /\ answer' = None THEN tree
                ELSE [tree EXCEPT !.cached_mode = mode, !.cached_key = key,
                                  !.cached_node = answer']

\* rbtree_clear: the nodes are destroyed, the cache stays.
Cleared(t) == [t EXCEPT !.node = [k \in Keys |-> NoNode],
                        !.root = None, !.first = None, !.last = None]
Clear == tree' = Cleared(tree) /\ UNCHANGED answer

Next ==
  \/ \E key \in Keys, data \in Data : Insert(key, data)
  \/ \E key \in SearchKeys, mode \in Modes : Search(key, mode)
  \/ Clear

Spec == Init /\ [][Next]_vars

-----------------------------------------------------------------------------
(* Properties                                                              *)

Present == {k \in Keys : tree.node[k] # NoNode}

\* Whatever the order of insertions, searches and clearings, the tree is the
\* map rbtree.h describes: a search, answered by the tree, its list or its
\* cache, finds the key or the nearest one on the side asked for.
Map == INSTANCE OrderedMap WITH map <- [k \in Present |-> tree.node[k].data]
ImplementsOrderedMap == Map!Spec

RECURSIVE BlackHeights(_)
BlackHeights(n) ==
  IF n = None THEN {1}
  ELSE {h + (IF tree.node[n].color = "BLACK" THEN 1 ELSE 0) :
          h \in BlackHeights(tree.node[n].left)
                \cup BlackHeights(tree.node[n].right)}

\* The tree keeps its shape: no red node has a red child, all paths have as
\* many black nodes, children know their parents, the ASSERTs of rotations
\* hold, and the list that vm_space_walk follows visits the keys in order
\* both ways.
RedBlack ==
  /\ tree.asserted
  /\ tree.root # None => tree.node[tree.root].color = "BLACK"
  /\ Cardinality(BlackHeights(tree.root)) = 1
  /\ \A k \in Present : \A side \in {"left", "right"} :
       LET c == tree.node[k][side] IN
       c # None => /\ tree.node[c].parent = k
                   /\ ~(tree.node[k].color = "RED" /\ tree.node[c].color = "RED")
  /\ \A k \in Present :
       /\ tree.node[k].next = Map!Nearest({x \in Present : x > k},
                                          LAMBDA x, y : x <= y)
       /\ tree.node[k].prev = Map!Nearest({x \in Present : x < k},
                                          LAMBDA x, y : x >= y)
       /\ tree.node[k].next = None => tree.last = k
       /\ tree.node[k].prev = None => tree.first = k
=============================================================================
