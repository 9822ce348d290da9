------------------------------ MODULE RadixTree ------------------------------
(***************************************************************************)
(* The radix tree of radix_tree.c that holds the pages of a page set.  A   *)
(* key is a number cut into letters, the first of RootBits bits and the    *)
(* others of Bits; a node stands for a run of letters all its keys share,  *)
(* and is broken in two when a key that differs within the run comes.      *)
(*                                                                         *)
(* The first key of a tree is stored at letter 0 whatever its last letter  *)
(* is; the keys the kernel uses are offsets of pages, which end in 0.      *)
(***************************************************************************)
EXTENDS Integers, FiniteSets

CONSTANTS RootBits, Bits,  \* widths of letters (4 and 6 in the code)
          KeyLen,          \* RADIX_TREE_KEYLEN_MAX (11)
          PageKeys,        \* offsets of the pages put in the tree
          Values,          \* what slots hold: physical pages
          Tags             \* sets of tag bits are subsets of Tags

VARIABLES root,  \* the tree
          pages  \* history: what the calls that succeeded put in the tree

vars == <<root, pages>>

Null == [null |-> TRUE]
KeyBits == RootBits + Bits * (KeyLen - 1)
Letters == 0 .. 2^Bits - 1
Keys == {key \in 0 .. 2^KeyBits - 1 : key % 2^Bits = 0}  \* all offsets of pages

\* radix_tree_get_shift, radix_key_letter_at, radix_key, radix_key_equal_size
Shift(len) == IF len = 0 THEN KeyBits ELSE KeyBits - RootBits - Bits * (len - 1)
Letter(key, off) == (key \div 2^Shift(off + 1)) % 2^Bits
Prefix(key, len) == (key \div 2^Shift(len)) * 2^Shift(len)
EqualSize(a, b, len) ==
  CHOOSE n \in 0 .. len :
    /\ \A i \in 1 .. n : Prefix(a, i) = Prefix(b, i)
    /\ n < len => Prefix(a, n + 1) # Prefix(b, n + 1)

\* radix_tree_node_new
NewNode(key, keylen) == [key |-> key, keylen |-> keylen,
                         slots |-> [i \in Letters |-> Null],
                         tags |-> [i \in Letters |-> {}]]

\* Mutant: the tags stay in the node that keeps the key.
BrokenTags(node, offset, size) ==
  LET child == [node EXCEPT !.keylen = @ - (size - offset),
                            !.tags = [i \in Letters |-> {}]] IN
  [NewNode(node.key, size - offset) EXCEPT !.slots[Letter(node.key, size)] = child]

\* __radix_tree_break: the node keeps the letters up to size, a copy of it
\* with the others becomes its child.
Broken(node, offset, size) ==
  LET child == [node EXCEPT !.keylen = @ - (size - offset)] IN
  [NewNode(node.key, size - offset) EXCEPT !.slots[Letter(node.key, size)] = child]

\* __radix_tree_node_insert; mem nodes can be allocated before one cannot.
\* It returns the node as it is after and whether the data is in it.
RECURSIVE NodeInsert(_, _, _, _, _)
NodeInsert(node, key, data, offset, mem) ==
  LET acclen   == offset + node.keylen
      likeness == EqualSize(key, node.key, acclen)
      sub      == Letter(key, likeness)
      leaf     == [NewNode(key, KeyLen - likeness - 1)
                     EXCEPT !.slots[Letter(key, KeyLen - 1)] = data]
      broken   == Broken(node, offset, likeness)
      below    == NodeInsert(IF node.slots[sub] = Null
                             THEN NewNode(key, KeyLen - likeness - 1)
                             ELSE node.slots[sub],
                             key, data, acclen, mem)
  IN  CASE likeness < acclen /\ mem = 0 -> [node |-> node, ok |-> FALSE]
        [] likeness < acclen /\ mem = 1 -> [node |-> broken, ok |-> FALSE]
        [] likeness < acclen /\ mem > 1 ->
             [node |-> [broken EXCEPT !.slots[sub] = leaf], ok |-> TRUE]
        [] likeness = acclen /\ acclen = KeyLen - 1 ->
             [node |-> [node EXCEPT !.slots[sub] = data], ok |-> TRUE]
        [] OTHER ->
             IF node.slots[sub] = Null /\ mem = 0
             THEN [node |-> node, ok |-> FALSE]
             ELSE [node |-> [node EXCEPT !.slots[sub] = below.node],
                   ok |-> below.ok]

\* radix_tree_set
TreeSet(tree, key, data, mem) ==
  CASE tree # Null -> NodeInsert(tree, key, data, 0, mem)
    [] tree = Null /\ mem = 0 -> [node |-> Null, ok |-> FALSE]
    [] OTHER -> [node |-> [NewNode(key, KeyLen - 1) EXCEPT !.slots[0] = data],
                 ok |-> TRUE]

\* __radix_tree_node_lookup_slot: whether there is a slot for the key.
RECURSIVE HasSlot(_, _, _)
HasSlot(node, key, offset) ==
  LET acclen   == offset + node.keylen
      likeness == EqualSize(key, node.key, acclen)
      sub      == Letter(key, likeness)
  IN  IF likeness < acclen THEN FALSE
      ELSE IF acclen = KeyLen - 1 THEN TRUE
      ELSE node.slots[sub] # Null /\ HasSlot(node.slots[sub], key, acclen)

RECURSIVE SlotOf(_, _, _)
SlotOf(node, key, offset) ==
  LET acclen == offset + node.keylen
      sub    == Letter(key, acclen)
  IN  IF acclen = KeyLen - 1
      THEN [data |-> node.slots[sub], tags |-> node.tags[sub]]
      ELSE SlotOf(node.slots[sub], key, acclen)

\* radix_tree_set_tag, radix_tree_add_tags and radix_tree_remove_tags write
\* what radix_tree_lookup_tag finds.
RECURSIVE Tagged(_, _, _, _)
Tagged(node, key, tags, offset) ==
  LET acclen == offset + node.keylen
      sub    == Letter(key, acclen)
  IN  IF acclen = KeyLen - 1 THEN [node EXCEPT !.tags[sub] = tags]
      ELSE [node EXCEPT !.slots[sub] = Tagged(@, key, tags, acclen)]

\* radix_tree_walk: the slots its callback is called for.
RECURSIVE WalkFrom(_, _)
WalkFrom(node, offset) ==
  LET acclen == offset + node.keylen
      used   == {i \in Letters : node.slots[i] # Null}
  IN  IF acclen = KeyLen - 1
      THEN {[key |-> Prefix(node.key, acclen) + i, data |-> node.slots[i],
             tags |-> node.tags[i]] : i \in used}
      ELSE UNION {WalkFrom(node.slots[i], acclen) : i \in used}
Walk(tree) == IF tree = Null THEN {} ELSE WalkFrom(tree, 0)

-----------------------------------------------------------------------------
Init == root = Null /\ pages = {}

Entry(key) == {e \in pages : e.key = key}

Set(key, v, mem) ==
  LET done == TreeSet(root, key, [phys |-> v], mem)
      tags == UNION {e.tags : e \in Entry(key)}
  IN  /\ root' = done.node
      /\ pages' = IF done.ok
                  THEN (pages \ Entry(key))
                         \cup {[key |-> key, data |-> [phys |-> v], tags |-> tags]}
                  ELSE pages

\* The callers set, add or remove a tag of a page they have put.
SetTags(key, tags) ==
  /\ root # Null /\ HasSlot(root, key, 0)
  /\ root' = Tagged(root, key, tags, 0)
  /\ pages' = {IF e.key = key THEN [e EXCEPT !.tags = tags] ELSE e : e \in pages}
AddTags(key, tags) == SetTags(key, SlotOf(root, key, 0).tags \cup tags)
RemoveTags(key, tags) == SetTags(key, SlotOf(root, key, 0).tags \ tags)

\* radix_tree_destroy frees what Walk visits.
Destroy == root # Null /\ root' = Null /\ pages' = {}

Next ==
  \/ \E key \in PageKeys, v \in Values, mem \in 0 .. 2 : Set(key, v, mem)
  \/ \E key \in PageKeys, tags \in SUBSET Tags :
       root # Null /\ HasSlot(root, key, 0) /\
         (SetTags(key, tags) \/ AddTags(key, tags) \/ RemoveTags(key, tags))
  \/ Destroy

Spec == Init /\ [][Next]_vars

-----------------------------------------------------------------------------
(* Properties                                                              *)

\* After any insertions, some of them cut short by a failed allocation, a
\* walk visits exactly the pages that were put, each once and with its tags,
\* and a look at a key finds its page and nothing at any other key.
WalkIsMap ==
  /\ Walk(root) = pages
  /\ \A key \in Keys :
       IF root # Null /\ HasSlot(root, key, 0)
       THEN LET s == SlotOf(root, key, 0) IN
            s.data # Null => [key |-> key, data |-> s.data, tags |-> s.tags] \in pages
       ELSE Entry(key) = {}
=============================================================================
