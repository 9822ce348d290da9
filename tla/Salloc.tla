------------------------------- MODULE Salloc -------------------------------
(***************************************************************************)
(* The kernel's heap (salloc.c): a slab cache per size and pool, created   *)
(* when the first object of its size is asked for and grown when there is  *)
(* no object left.  Memory allocated at boot and by interrupts comes from  *)
(* one pool, that of tasks from another; each is guarded in its own way,   *)
(* so every call is one step here (KernelSync has salloc_mutex itself).    *)
(* Slabs are never given back: kmem_cache_shrink and _reap are empty.      *)
(***************************************************************************)
EXTENDS Slab

CONSTANTS
  SlabPages,  (* for each size, the pages of a slab if it is big, else 0    *)
  Memory      (* the pages page_alloc has                                   *)

ASSUME SallocAssumption ==
  /\ OwnObjects \in Nat \ {0} /\ SlabObjects \in Nat \ {0}
  /\ Memory \in Nat /\ \A s \in DOMAIN SlabPages : SlabPages[s] \in Nat

VARIABLES
  context,    (* get_current_context (): boot time until tasks run          *)
  caches,     (* kmem_cache_list, by pool and size                          *)
  pages,      (* the pages page_alloc has left                              *)
  objects,    (* the objects callers have been given and not freed          *)
  answer,     (* the cache of the last call, and whether it was refused     *)
  trap        (* the assertion that stopped the kernel, or "none"           *)

sallocVars == <<context, caches, pages, objects, answer, trap>>

Sizes == DOMAIN SlabPages

SallocInit ==
  /\ context = "BOOT_TIME"
  /\ caches = <<>>
  /\ pages = Memory
  /\ objects = {}
  /\ answer = [name |-> <<>>, refused |-> FALSE]
  /\ trap = "none"

(* kmem_cache_alloc_small, kmem_cache_alloc_big: a slab's pages.            *)
PagesPerSlab(size) == IF SlabPages[size] = 0 THEN 1 ELSE SlabPages[size]

Ends(name, cache, left, object, why) ==
  /\ caches' = [n \in DOMAIN caches \cup {name} |-> IF n = name THEN cache ELSE caches[n]]
  /\ pages' = left
  /\ objects' = IF object = NULL THEN objects ELSE objects \cup {[name |-> name, at |-> object]}
  /\ answer' = [name |-> name, refused |-> object = NULL]
  /\ trap' = why

(* kmem_cache_lookup                                                        *)
Known(name) == name \in DOMAIN caches

(* __salloc                                                                 *)
Salloc(pool, size) ==
  /\ trap = "none"
  /\ UNCHANGED context
  /\ LET name   == <<pool, size>>
         known  == Known(name)
         cache  == IF known THEN caches[name] ELSE NewCache(SlabPages[size] > 0)
         left   == IF known THEN pages ELSE pages - 1
         try    == CacheAlloc(cache)
         grown  == Grow(cache, left \div PagesPerSlab(size))
         rest   == left - grown.slabs * PagesPerSlab(size)
         again  == CacheAlloc(grown.cache)
     IN IF left < 0
        THEN answer' = [name |-> name, refused |-> TRUE] /\ UNCHANGED <<caches, pages, objects, trap>>
        ELSE IF try.object # NULL \/ try.failure # "none"
        THEN Ends(name, try.cache, left, try.object, try.failure)
        ELSE IF grown.ok
        THEN Ends(name, again.cache, rest, again.object, again.failure)
        ELSE Ends(name, grown.cache, rest, NULL, "none")

(* salloc_irq, which salloc is but for tasks, and some call from anywhere   *)
SallocIrq(size) == Salloc("irqpool", size)

(* salloc_task, which salloc is for tasks, under salloc_mutex               *)
SallocTask(size) == context = "TASK" /\ Salloc("taskpool", size)

(* sfree: the object's page leads to its cache, whichever pool that is of.  *)
Sfree(o) ==
  /\ trap = "none"
  /\ LET freed == CacheFree(caches[o.name], o.at) IN
     /\ caches' = [caches EXCEPT ![o.name] = freed.cache]
     /\ trap' = freed.failure
  /\ objects' = objects \ {o}
  /\ answer' = [name |-> o.name, refused |-> FALSE]
  /\ UNCHANGED <<context, pages>>

(* switch_to, at the end of the boot                                        *)
RunTasks ==
  /\ trap = "none"
  /\ context = "BOOT_TIME"
  /\ context' = "TASK"
  /\ UNCHANGED <<caches, pages, objects, answer, trap>>

SallocNext ==
  \/ \E size \in Sizes : SallocIrq(size) \/ SallocTask(size)
  \/ \E o \in objects : Sfree(o)
  \/ RunTasks

SallocSpec == SallocInit /\ [][SallocNext]_sallocVars

-----------------------------------------------------------------------------
BlocksHeld(name, slab) == {o.at.block : o \in {p \in objects : p.name = name /\ p.at.slab = slab}}

(* The bitmaps and counters of a cache and its slabs are those of the       *)
(* objects its callers have, none given to two of them or lost, and every   *)
(* slab is once in the list that says how many of its objects are used, as  *)
(* the choice of a slab to allocate from relies on: the sanity checks of    *)
(* allocation and release never fire, and the usage the kernel reports of a *)
(* cache is that of its callers.                                            *)
SlabsExact ==
  /\ trap = "none"
  /\ \A name \in DOMAIN caches :
       LET c == caches[name] IN
       /\ c.bitmap = BlocksHeld(name, 0) /\ c.used = Cardinality(c.bitmap)
       /\ \A i \in DOMAIN c.slabs :
            LET n == IF c.big THEN 1 ELSE SlabObjects
                u == Cardinality(BlocksHeld(name, i))
            IN /\ IF c.big
                  THEN c.slabs[i].state = "FULL" <=> BlocksHeld(name, i) = {0}
                  ELSE /\ c.slabs[i].bitmap = BlocksHeld(name, i)
                       /\ c.slabs[i].used = Cardinality(c.slabs[i].bitmap)
               /\ i \in ToSet(c.free) <=> u = 0
               /\ i \in ToSet(c.partial) <=> 0 < u /\ u < n
               /\ i \in ToSet(c.full) <=> u = n
       /\ IsInjective(c.free \o c.partial \o c.full)
       /\ Usage(c).used = Cardinality({o \in objects : o.name = name})
       /\ Usage(c).used <= Usage(c).usable

(* A caller is refused only when there are no pages for another slab and no *)
(* object of its cache is free, though growing may get less than it asks.   *)
RefusedOnlyWhenFull ==
  [][answer'.refused =>
       /\ pages' < PagesPerSlab(answer'.name[2])
       /\ answer'.name \in DOMAIN caches' =>
            LET c == caches'[answer'.name] IN
            c.free = <<>> /\ c.partial = <<>> /\ (c.big \/ c.used = OwnObjects)]_sallocVars
=============================================================================
