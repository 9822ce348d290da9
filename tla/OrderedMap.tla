----------------------------- MODULE OrderedMap -----------------------------
(***************************************************************************)
(* What rbtree.h promises: a map from keys to data with its keys in order, *)
(* searched exactly or for the nearest key on either side.                 *)
(***************************************************************************)
EXTENDS Integers

CONSTANTS Keys, SearchKeys, Data, None

VARIABLES map,     \* from the keys present to their data
          answer   \* the key the last search returned, or None

Modes == {"LEFTWARDS", "EXACT", "RIGHTWARDS"}

Init == map = << >> /\ answer = None

Nearest(S, better(_, _)) ==
  IF S = {} THEN None ELSE CHOOSE x \in S : \A y \in S : better(x, y)

Found(key, mode) ==
  CASE key \in DOMAIN map  -> key
    [] mode = "EXACT"      -> None
    [] mode = "LEFTWARDS"  -> Nearest({x \in DOMAIN map : x < key},
                                      LAMBDA x, y : x >= y)
    [] mode = "RIGHTWARDS" -> Nearest({x \in DOMAIN map : x > key},
                                      LAMBDA x, y : x <= y)

Insert(key, data) ==
  /\ map' = [x \in DOMAIN map \cup {key} |-> IF x = key THEN data ELSE map[x]]
  /\ UNCHANGED answer

Search(key, mode) == answer' = Found(key, mode) /\ UNCHANGED map

Clear == map' = << >> /\ UNCHANGED answer

Next ==
  \/ \E key \in Keys, data \in Data : Insert(key, data)
  \/ \E key \in SearchKeys, mode \in Modes : Search(key, mode)
  \/ Clear

Spec == Init /\ [][Next]_<<map, answer>>
=============================================================================
