------------------------------- MODULE Buddy --------------------------------
(***************************************************************************)
(* The physical page allocator (buddy.c).  The free pages of a region are  *)
(* kept in blocks of 2^order pages; the blocks of an order are a bucket, a *)
(* list sorted by page and linked through the pages themselves.            *)
(*                                                                         *)
(* The links are modelled as the code writes them, those it leaves behind  *)
(* in pages that are no longer free included.  page_alloc and page_free    *)
(* are critical sections, hence one step.                                  *)
(***************************************************************************)
EXTENDS Integers, SequencesExt

CONSTANTS
  Orders,     (* the highest order: the region has at most 2^Orders pages   *)
  Pages,      (* mr_pages                                                   *)
  Metadata,   (* the pages taken by the region's own tables                 *)
  Requests,   (* the numbers of pages callers ask for                       *)
  LastFirst   (* whether callers give back first what they were given last  *)

VARIABLES
  links,   (* mr_buckets[].first, and free_prev and free_next of each page  *)
  held     (* the runs callers have been given and not given back, in order *)

vars == <<links, held>>

Page    == 0 .. (Pages - 1)
Nothing == -1
PagesOf(r) == r.page .. (r.page + r.pages - 1)

(* struct mm_region, as far as free pages go; fault is not in the code: it  *)
(* says why an operation does not end, or leaves the table of pages.        *)
Links == [first : [0..Orders -> Page \cup {Nothing}],
          prev  : [Page -> Page \cup {Nothing}],
          next  : [Page -> Page \cup {Nothing}],
          fault : {"none", "hang", "overrun"}]

(* mm_region_ceil_order, mm_region_floor_order                              *)
CeilOrder(n)  == CHOOSE o \in 0..Orders : n <= 2^o /\ \A p \in 0..(o - 1) : 2^p < n
FloorOrder(n) == CHOOSE o \in 0..Orders : 2^o <= n /\ n < 2^(o + 1)

(* __buddies                                                                *)
Buddies(p, q, o) ==
  p # Nothing /\ q # Nothing /\ q - p = 2^o /\ p % 2^(o + 1) = 0

(* Mutant: only the link forwards is followed. *)
UnlinkedAhead(l, o, p) ==
  IF l.next[p] = Nothing THEN l ELSE [l EXCEPT !.first[o] = l.next[p], !.prev[l.next[p]] = Nothing]

(* mm_region_remove_from_bucket                                             *)
Unlinked(l, o, p) ==
  LET out == IF l.prev[p] = Nothing
             THEN [l EXCEPT !.first[o] = l.next[p]]
             ELSE [l EXCEPT !.next[l.prev[p]] = l.next[p]]
  IN IF l.next[p] = Nothing THEN out ELSE [out EXCEPT !.prev[l.next[p]] = l.prev[p]]

(* The page of the bucket after which p belongs: the loop of                *)
(* mm_region_insert_in_bucket, from page q on.                              *)
RECURSIVE Place(_, _, _, _)
Place(l, p, q, seen) ==
  CASE q \in seen -> Nothing
    [] l.next[q] = Nothing \/ p < l.next[q] -> q
    [] OTHER -> Place(l, p, l.next[q], seen \cup {q})

(* mm_region_insert_in_bucket: a block that is met by its buddy is removed  *)
(* and inserted one order up, or so it is meant.                            *)
RECURSIVE InsertInBucket(_, _, _)
InsertInBucket(l, o, p) ==
  LET first  == l.first[o]
      this   == Place(l, p, first, {})
      next   == l.next[this]
      linked == [l EXCEPT !.next[this] = p, !.next[p] = next, !.prev[p] = this]
  IN CASE p \notin Page -> [l EXCEPT !.fault = "overrun"]
       [] first = Nothing ->
            [l EXCEPT !.first[o] = p, !.prev[p] = Nothing, !.next[p] = Nothing]
       [] p < first /\ Buddies(p, first, o) -> InsertInBucket(Unlinked(l, o, p), o + 1, p)
       [] p < first /\ ~Buddies(p, first, o) ->
            [l EXCEPT !.next[p] = first, !.prev[p] = Nothing, !.first[o] = p]
       [] OTHER ->
            IF this = Nothing THEN [l EXCEPT !.fault = "hang"]
            ELSE IF Buddies(this, p, o) THEN InsertInBucket(Unlinked(l, o, this), o + 1, this)
            ELSE IF Buddies(p, next, o) THEN InsertInBucket(Unlinked(l, o, next), o + 1, p)
            ELSE IF next = Nothing THEN linked
            ELSE [linked EXCEPT !.prev[next] = p]

(* mm_region_free_pages: the run is cut into aligned blocks, the largest    *)
(* that fits first.                                                         *)
RECURSIVE FreePages(_, _, _)
FreePages(l, p, n) ==
  IF n = 0 \/ l.fault # "none" THEN l
  ELSE LET o == CHOOSE o \in 0..FloorOrder(n) :
                  /\ p % 2^o = 0
                  /\ \A q \in (o + 1)..FloorOrder(n) : p % 2^q # 0
       IN FreePages(InsertInBucket(l, o, p), p + 2^o, n - 2^o)

(* mm_region_alloc_pages: the first block of the lowest order that has one; *)
(* what is not asked for goes back.                                         *)
Blocks(l, n) == {o \in CeilOrder(n)..Orders : l.first[o] # Nothing}
OrderFor(l, n) == CHOOSE o \in Blocks(l, n) : \A p \in Blocks(l, n) : o <= p

AllocPages(l, n) ==
  LET o == OrderFor(l, n)
      p == l.first[o]
  IN FreePages(Unlinked(l, o, p), p + n, 2^o - n)

(* mm_register_region                                                       *)
RECURSIVE Seeded(_, _, _)
Seeded(l, p, n) ==
  IF n = 0 THEN l
  ELSE Seeded([l EXCEPT !.first[FloorOrder(n)] = p], p + 2^FloorOrder(n), n - 2^FloorOrder(n))

Init ==
  /\ links = AllocPages(Seeded([first |-> [o \in 0..Orders |-> Nothing],
                                prev  |-> [p \in Page |-> Nothing],
                                next  |-> [p \in Page |-> Nothing],
                                fault |-> "none"], 0, Pages), Metadata)
  /\ held = <<>>

(* page_alloc                                                               *)
Alloc(n) ==
  /\ links.fault = "none"
  /\ IF Blocks(links, n) = {}
     THEN UNCHANGED vars
     ELSE /\ links' = AllocPages(links, n)
          /\ held' = Append(held, [page |-> links.first[OrderFor(links, n)], pages |-> n])

(* page_free                                                                *)
Free(i) ==
  /\ links.fault = "none"
  /\ LastFirst => i = Len(held)
  /\ links' = FreePages(links, held[i].page, held[i].pages)
  /\ held' = RemoveAt(held, i)

Next == (\E n \in Requests : Alloc(n)) \/ (\E i \in DOMAIN held : Free(i))

Spec == Init /\ [][Next]_vars

-----------------------------------------------------------------------------
RECURSIVE Chain(_, _)
Chain(p, seen) ==
  IF p = Nothing \/ p \in seen THEN seen ELSE Chain(links.next[p], seen \cup {p})

Bucket(o)    == Chain(links.first[o], {})
FreeBlocks   == UNION {{[page |-> p, pages |-> 2^o] : p \in Bucket(o)} : o \in 0..Orders}
FreeSet      == UNION {PagesOf(b) : b \in FreeBlocks}
HeldSet      == UNION {PagesOf(held[i]) : i \in DOMAIN held}
MetadataSet  == 0 .. (Metadata - 1)

(* Buckets are sorted by page, as the search for the place of a block       *)
(* expects, and hold no two buddies that should have been merged.           *)
BucketsMerged ==
  \A o \in 0..Orders : \A p \in Bucket(o) :
    /\ links.next[p] # Nothing => p < links.next[p]
    /\ \A q \in Bucket(o) : ~(q = p + 2^o /\ p % 2^(o + 1) = 0)

(* Every page of the region is in use or in one block of one bucket: what   *)
(* was merged and cut gives no page to two callers, what is left of a block *)
(* that was cut comes back, and merging drops no block; and buckets stay    *)
(* sorted and merged, without which the next merge would go wrong.          *)
PagesExact ==
  /\ BucketsMerged
  /\ \A b, c \in FreeBlocks : b # c => PagesOf(b) \cap PagesOf(c) = {}
  /\ FreeSet \cap (HeldSet \cup MetadataSet) = {}
  /\ \A i, j \in DOMAIN held : i # j => PagesOf(held[i]) \cap PagesOf(held[j]) = {}
  /\ Page = FreeSet \cup HeldSet \cup MetadataSet

(* What mm_register_region says of its last step, that it marks the pages   *)
(* of the tables as used: they are never free.                              *)
MetadataUsed == MetadataSet \cap FreeSet = {}
=============================================================================
