-------------------------------- MODULE Slab --------------------------------
(***************************************************************************)
(* Slab caches (slab.c) as operators on a cache.  A cache of small objects *)
(* has some in its own page and more in slabs of one page, kept in three   *)
(* lists by how much of them is used.  A slab of a cache of big objects    *)
(* holds one of them and is in one of two lists.                           *)
(***************************************************************************)
EXTENDS Integers, SequencesExt

CONSTANTS
  OwnObjects,   (* object_count of a cache of small objects                 *)
  SlabObjects   (* object_count of its slabs                                *)

States == {"EMPTY", "PARTIAL", "FULL"}      (* MM_SLAB_STATE_*               *)
NULL   == [slab |-> 0, block |-> -1]

(* struct small_slab_header; of a big one, only the state is in use.        *)
SlabHeader == [state : States, used : Nat, bitmap : SUBSET Nat]

(* struct kmem_cache: `state', `used' and `bitmap' are about its own page.  *)
(* The slabs are numbered in the order they are allocated; own is 0.        *)
KmemCache ==
  [big : BOOLEAN, state : States, used : Nat, bitmap : SUBSET Nat, slabs_per_alloc : Nat,
   slabs : Seq(SlabHeader), free : Seq(Nat), partial : Seq(Nat), full : Seq(Nat)]

EmptySlab == [state |-> "EMPTY", used |-> 0, bitmap |-> {}]

(* kmem_cache_create                                                        *)
NewCache(big) ==
  [big |-> big, state |-> "EMPTY", used |-> 0, bitmap |-> {}, slabs_per_alloc |-> 1,
   slabs |-> <<>>, free |-> <<>>, partial |-> <<>>, full |-> <<>>]

(* bitmap_search_free: no one sets the hints, so the search starts at 0.    *)
FreeBlocks(bitmap, count) == (0 .. (count - 1)) \ bitmap
LowestFree(bitmap, count) ==
  CHOOSE b \in FreeBlocks(bitmap, count) : \A c \in FreeBlocks(bitmap, count) : b <= c

(* The state of a slab by the objects used of those it has.                 *)
StateOf(used, count) ==
  IF used = count THEN "FULL" ELSE IF used = 0 THEN "EMPTY" ELSE "PARTIAL"

(* Mutant: the block given is not marked in the bitmap. *)
TakenUnmarked(s, count) == [s EXCEPT !.used = @ + 1, !.state = StateOf(s.used + 1, count)]

(* A block of s, a slab or the cache's own page, is given ...               *)
Taken(s, count) ==
  [s EXCEPT !.bitmap = @ \cup {LowestFree(@, count)}, !.used = @ + 1,
            !.state = StateOf(s.used + 1, count)]

(* ... and comes back.                                                      *)
Returned(s, block) ==
  [s EXCEPT !.bitmap = @ \ {block}, !.used = @ - 1,
            !.state = IF s.used = 1 THEN "EMPTY" ELSE "PARTIAL"]

(* list_remove_element, of the list the slab is in                          *)
Unlisted(c, i) ==
  [c EXCEPT !.free = RemoveFirst(@, i), !.partial = RemoveFirst(@, i), !.full = RemoveFirst(@, i)]

(* Slab i, taken out of its list, is s now: it goes to the head of the list *)
(* of its state.                                                            *)
Listed(c, i, s) ==
  LET out == [c EXCEPT !.slabs[i] = s] IN
  CASE s.state = "EMPTY"   -> [out EXCEPT !.free = <<i>> \o @]
    [] s.state = "PARTIAL" -> [out EXCEPT !.partial = <<i>> \o @]
    [] s.state = "FULL"    -> [out EXCEPT !.full = <<i>> \o @]

(* The blocks the headers of the slabs of a list count as used.             *)
UsedIn(c, list) == UNION {{i} \X (1 .. c.slabs[i].used) : i \in ToSet(list)}

(* kmem_cache_get_usage, in objects: the slabs of the lists, and the own page. *)
Usage(c) ==
  IF c.big
  THEN [used |-> Len(c.full), usable |-> Len(c.full) + Len(c.free)]
  ELSE [used   |-> c.used + Cardinality(UsedIn(c, c.partial)) + Cardinality(UsedIn(c, c.full)),
        usable |-> OwnObjects + SlabObjects * (Len(c.free) + Len(c.partial) + Len(c.full))]

Outcome(c, o, why) == [cache |-> c, object |-> o, failure |-> why]

(* __small_kmem_cache_alloc: a free slab is preferred to a partial one.     *)
SmallAlloc(c) ==
  LET i == IF c.free # <<>> THEN Head(c.free) ELSE Head(c.partial)
      s == c.slabs[i]
  IN IF c.free = <<>> /\ c.partial = <<>> THEN Outcome(c, NULL, "none")
     ELSE IF FreeBlocks(s.bitmap, SlabObjects) = {} THEN Outcome(c, NULL, "incoherent")
     ELSE Outcome(Listed(Unlisted(c, i), i, Taken(s, SlabObjects)),
                  [slab |-> i, block |-> LowestFree(s.bitmap, SlabObjects)], "none")

(* __big_kmem_cache_alloc                                                   *)
BigAlloc(c) ==
  IF c.free = <<>> THEN Outcome(c, NULL, "none")
  ELSE LET i == Head(c.free) IN
       Outcome(Listed(Unlisted(c, i), i, [c.slabs[i] EXCEPT !.state = "FULL"]),
               [slab |-> i, block |-> 0], "none")

(* __kmem_cache_alloc: slabs are looked at when the own page is full.       *)
CacheAlloc(c) ==
  CASE c.big -> BigAlloc(c)
    [] ~c.big /\ c.state = "FULL" -> SmallAlloc(c)
    [] OTHER ->
         IF FreeBlocks(c.bitmap, OwnObjects) = {} THEN Outcome(c, NULL, "incoherent")
         ELSE Outcome(Taken(c, OwnObjects),
                      [slab |-> 0, block |-> LowestFree(c.bitmap, OwnObjects)], "none")

(* __small_kmem_cache_free and its assertions                               *)
SmallFree(c, o) ==
  LET s == c.slabs[o.slab] IN
  IF s.used > 0 /\ s.state # "EMPTY" /\ o.block \in s.bitmap
  THEN Outcome(Listed(Unlisted(c, o.slab), o.slab, Returned(s, o.block)), NULL, "none")
  ELSE Outcome(c, NULL, "not_allocated")

(* __big_kmem_cache_free and its assertions                                 *)
BigFree(c, o) ==
  IF c.slabs[o.slab].state = "FULL"
  THEN Outcome(Listed(Unlisted(c, o.slab), o.slab, EmptySlab), NULL, "none")
  ELSE Outcome(c, NULL, "not_allocated")

(* __kmem_cache_free                                                        *)
CacheFree(c, o) ==
  CASE c.big -> BigFree(c, o)
    [] ~c.big /\ o.slab # 0 -> SmallFree(c, o)
    [] OTHER ->
         IF c.used > 0 /\ o.block \in c.bitmap THEN Outcome(Returned(c, o.block), NULL, "none")
         ELSE Outcome(c, NULL, "not_allocated")

(* Mutant: a cache that does not get all the slabs it asks for is refused. *)
GrowAllOrNothing(c, room) ==
  LET n   == IF room < c.slabs_per_alloc THEN room ELSE c.slabs_per_alloc
      new == [i \in 1..n |-> Len(c.slabs) + i]
  IN [ok    |-> n = c.slabs_per_alloc, slabs |-> n,
      cache |-> [c EXCEPT !.slabs = @ \o [i \in 1..n |-> EmptySlab],
                          !.free = Reverse(new) \o @,
                          !.slabs_per_alloc = IF n = @ THEN 2 * @ ELSE @]]

(* __kmem_cache_grow, with memory for `room' more slabs: what it gets of    *)
(* slabs_per_alloc is kept, and only if that is all it asks for more next   *)
(* time.                                                                    *)
Grow(c, room) ==
  LET n   == IF room < c.slabs_per_alloc THEN room ELSE c.slabs_per_alloc
      new == [i \in 1..n |-> Len(c.slabs) + i]
  IN [ok    |-> n > 0, slabs |-> n,
      cache |-> [c EXCEPT !.slabs = @ \o [i \in 1..n |-> EmptySlab],
                          !.free = Reverse(new) \o @,
                          !.slabs_per_alloc = IF n = @ THEN 2 * @ ELSE @]]
=============================================================================
