------------------------------- MODULE Vremap -------------------------------
(***************************************************************************)
(* A vremap region (vremap.c): the virtual address space the kernel maps   *)
(* its own objects into, and each task its messages.  Every operation is a *)
(* critical section, hence one step.                                       *)
(***************************************************************************)
EXTENDS VremapOps

CONSTANTS
  Base,         (* the first page of the region                             *)
  VremapPages,  (* its pages                                                *)
  MayFail       (* whether the cache of chunks may be out of memory         *)

ASSUME VremapAssumption == Base \in Nat /\ VremapPages \in Nat \ {0} /\ MayFail \in BOOLEAN

VARIABLES
  chunks,   (* data->chunk_list_head                                        *)
  busy,     (* data->pages_busy                                             *)
  held,     (* the runs the callers have been given and not released        *)
  lost,     (* the pages of runs whose release failed                       *)
  ret,      (* the pages of the last call and how it ended                  *)
  failure   (* "none" or "double_free"                                      *)

vremapVars == <<chunks, busy, held, lost, ret, failure>>

VremapRegion == Base .. (Base + VremapPages - 1)
Run          == [address : VremapRegion, pages : 1..VremapPages]

(* vremap_data_new                                                          *)
VremapInit ==
  /\ chunks = <<[address |-> Base, pages |-> VremapPages]>>
  /\ busy = 0
  /\ held = {}
  /\ lost = {}
  /\ ret = [how |-> "none", pages |-> 0]
  /\ failure = "none"

(* vm_region_vremap_ensure                                                  *)
Ensure(n) ==
  /\ failure = "none"
  /\ IF HasRoom(chunks, n)
     THEN /\ chunks' = Take(chunks, n)
          /\ held' = held \cup {[address |-> Head(chunks).address, pages |-> n]}
          /\ busy' = busy + n
          /\ ret' = [how |-> "given", pages |-> n]
     ELSE /\ ret' = [how |-> "refused", pages |-> n]
          /\ UNCHANGED <<chunks, held, busy>>
  /\ UNCHANGED <<lost, failure>>

(* Mutant: pages_busy also goes down when the release has failed. *)
ReleaseMiscounted(r) ==
  /\ failure = "none"
  /\ r \in held
  /\ held' = held \ {r}
  /\ busy' = busy - r.pages
  /\ LET merge == TryMerge(chunks, r) IN
     \/ /\ chunks' = IF merge.how = "apart" THEN Insert(r, chunks) ELSE merge.list
        /\ ret' = [how |-> "freed", pages |-> r.pages]
        /\ UNCHANGED lost
     \/ /\ merge.how = "apart" /\ MayFail
        /\ lost' = lost \cup Span(r)
        /\ ret' = [how |-> "lost", pages |-> r.pages]
        /\ UNCHANGED chunks
  /\ UNCHANGED failure

(* vm_region_vremap_release: a run that cannot be merged needs a new chunk, *)
(* and without memory for it the run is lost.                               *)
Release(r) ==
  /\ failure = "none"
  /\ r \in held
  /\ held' = held \ {r}
  /\ LET merge == TryMerge(chunks, r) IN
     IF merge.how = "double_free"
     THEN failure' = "double_free" /\ UNCHANGED <<chunks, busy, lost, ret>>
     ELSE \/ /\ chunks' = IF merge.how = "apart" THEN Insert(r, chunks) ELSE merge.list
             /\ busy' = busy - r.pages
             /\ ret' = [how |-> "freed", pages |-> r.pages]
             /\ UNCHANGED <<lost, failure>>
          \/ /\ merge.how = "apart" /\ MayFail
             /\ lost' = lost \cup Span(r)
             /\ ret' = [how |-> "lost", pages |-> r.pages]
             /\ UNCHANGED <<chunks, busy, failure>>

VremapNext == (\E n \in 1..VremapPages : Ensure(n)) \/ (\E r \in held : Release(r))

VremapSpec == VremapInit /\ [][VremapNext]_vremapVars

-----------------------------------------------------------------------------
FreePages == UNION {Span(chunks[i]) : i \in DOMAIN chunks}

(* Every page is free, held or lost, and in one place only; pages_busy      *)
(* counts those that are not free.  A caller that releases what it was given *)
(* never meets the bug check for a double free.                             *)
PagesAccounted ==
  /\ failure = "none"
  /\ VremapRegion = FreePages \cup lost \cup UNION {Span(r) : r \in held}
  /\ \A i \in DOMAIN chunks : \A r \in held : Span(chunks[i]) \cap Span(r) = {}
  /\ \A i, j \in DOMAIN chunks : i # j => Span(chunks[i]) \cap Span(chunks[j]) = {}
  /\ lost \cap FreePages = {}
  /\ busy + Cardinality(FreePages) = VremapPages

(* The list implements the promise: refused only when no run would fit.     *)
Promise == INSTANCE PageMap WITH
  Region <- VremapRegion, Runs <- {r \in Run : EndOf(r) <= Base + VremapPages},
  MayLose <- MayFail, free <- FreePages

ImplementsPageMap == Promise!Spec
=============================================================================
