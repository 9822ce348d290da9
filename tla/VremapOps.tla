----------------------------- MODULE VremapOps -----------------------------
(***************************************************************************)
(* The free list of a vremap region (vremap.c) as an algorithm on          *)
(* sequences.  A vremap region hands out runs of virtual pages; its free   *)
(* chunks are kept in a list sorted by size, the largest first, so that    *)
(* looking for room never goes past the head.  Addresses are page numbers. *)
(***************************************************************************)
EXTENDS Naturals, Sequences, FiniteSets, SequencesExt

(* struct vremap_free_chunk                                                 *)
Chunk == [address : Nat, pages : Nat]

EndOf(c)    == c.address + c.pages
Span(c)  == c.address .. (EndOf(c) - 1)
Adjacent(c, d) == EndOf(d) = c.address \/ EndOf(c) = d.address

(* Mutant: chunks are inserted smallest first. *)
InsertSmallest(c, list) ==
  LET before == {i \in DOMAIN list : list[i].pages < c.pages}
  IN  InsertAt(list, Cardinality(before) + 1, c)

(* rsorted_list_insert: ahead of the first chunk that is not larger.        *)
Insert(c, list) ==
  LET larger == {i \in DOMAIN list : \A j \in 1..i : list[j].pages > c.pages}
  IN  InsertAt(list, Cardinality(larger) + 1, c)

(* vm_region_vremap_find                                                    *)
HasRoom(list, n) == list # <<>> /\ Head(list).pages >= n

(* vm_region_vremap_ensure, with room: the run starts where the head starts;*)
(* what is left of the head goes back to its place in the list.             *)
Take(list, n) ==
  LET chunk == Head(list) IN
  IF chunk.pages = n THEN Tail(list)
  ELSE Insert([address |-> chunk.address + n, pages |-> chunk.pages - n], Tail(list))

(* The chunk of the list found adjacent to d, grown by d.                   *)
Join(c, d) ==
  [address |-> IF EndOf(d) = c.address THEN d.address ELSE c.address,
   pages   |-> c.pages + d.pages]

Earliest(hits) == CHOOSE i \in hits : \A j \in hits : i <= j

(* vremap_data_try_merge: the first chunk of the list that is adjacent to d *)
(* grows by d and is merged in turn with what it is now adjacent to.  A     *)
(* chunk that starts where d starts is met first only on a double free.     *)
Found(l, d) == {i \in DOMAIN l : Adjacent(l[i], d) \/ l[i].address = d.address}

Merge[l \in Seq(Chunk)] ==
  [d \in Chunk |->
     LET i     == Earliest(Found(l, d))
         found == Join(l[i], d)
         rest  == Merge[RemoveAt(l, i)][found]
     IN IF Found(l, d) = {}
        THEN [how |-> "apart", list |-> l]
        ELSE IF ~Adjacent(l[i], d)
        THEN [how |-> "double_free", list |-> l]
        ELSE IF rest.how = "apart"
        THEN [how |-> "merged", list |-> Insert(found, rest.list)]
        ELSE rest]

TryMerge(list, d) == Merge[list][d]
=============================================================================
