---------------------------- MODULE MCStructures ----------------------------
(***************************************************************************)
(* The data structures of common/ and the objects of object.c, each        *)
(* checked on its own: the first state chooses one of them and the others  *)
(* never move.                                                             *)
(***************************************************************************)
EXTENDS KernelObject, TLC

CONSTANTS TreeKeys, SearchKeys, Data, None,
          RootBits, Bits, KeyLen, PageKeys, Values, Tags,
          ListElems, Indices

ASSUME StructuresAssumption ==
  /\ TreeKeys \cup SearchKeys \subseteq Int \ {None}
  /\ RootBits > 0 /\ Bits > 0 /\ KeyLen > 1
  /\ Indices \subseteq Int
  /\ PageKeys \subseteq {key \in 0 .. 2^(RootBits + Bits * (KeyLen - 1)) - 1 : key % 2^Bits = 0}

VARIABLES chosen, tree, answer, root, pages, kind, list, order

RB == INSTANCE RBTree WITH Keys <- TreeKeys
RT == INSTANCE RadixTree
LS == INSTANCE Lists WITH Elems <- ListElems

treeVars  == <<tree, answer>>
radixVars == <<root, pages>>
listVars  == <<kind, list, order>>
vars == <<chosen, treeVars, radixVars, listVars, objectVars>>

Init ==
  /\ chosen \in {"rbtree", "radix_tree", "list", "objects"}
  /\ RB!Init /\ RT!Init /\ LS!Init /\ ObjectsInit
  /\ chosen # "list" => kind = "plain"

Next ==
  /\ UNCHANGED chosen
  /\ \/ chosen = "rbtree" /\ RB!Next /\ UNCHANGED <<radixVars, listVars, k>>
     \/ chosen = "radix_tree" /\ RT!Next /\ UNCHANGED <<treeVars, listVars, k>>
     \/ chosen = "list" /\ LS!Next /\ UNCHANGED <<treeVars, radixVars, k>>
     \/ chosen = "objects" /\ ObjectsNext /\ UNCHANGED <<treeVars, radixVars, listVars>>

Spec == Init /\ [][Next]_vars

\* Tasks and the lists of references are interchangeable.
Symmetry == Permutations(Tasks) \cup Permutations(RefLists)

\* No function of object.c reads what the last one returned.
View == <<chosen, treeVars, radixVars, listVars, [k EXCEPT !.ret = 1]>>

\* rbtree.c: balance, order and links of the tree.
RedBlack == RB!RedBlack

\* rbtree.c: insertions, cached searches and clearings are those of a map.
ImplementsOrderedMap == RB!ImplementsOrderedMap

\* radix_tree.c: walks and lookups see the pages that were put.
WalkIsMap == RT!WalkIsMap

\* list.c: the links are the order the callers asked for.
LinksAreOrder == LS!LinksAreOrder

=============================================================================
