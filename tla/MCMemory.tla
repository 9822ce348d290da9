------------------------------ MODULE MCMemory ------------------------------
(***************************************************************************)
(* The memory of the kernel: its allocators and the address spaces of      *)
(* MCAddressSpace, each checked on its own: the first state chooses one of *)
(* them and the others never move.                                         *)
(***************************************************************************)
EXTENDS MCAddressSpace, Salloc, Vremap

CONSTANTS Orders, RegionPages, Metadata, Requests, LastFirst

\* Objects of a small size and big ones of two pages.
MCSlabPages == <<0, 2>>

ASSUME BuddyAssumption ==
  /\ Orders \in Nat /\ RegionPages \in 1..2^Orders
  /\ Metadata \in 1..RegionPages
  /\ Requests \subseteq 1..RegionPages
  /\ LastFirst \in BOOLEAN

VARIABLES chosen, links, pagesHeld

BD == INSTANCE Buddy WITH Pages <- RegionPages, held <- pagesHeld

buddyVars  == <<links, pagesHeld>>
memoryVars == <<chosen, buddyVars, sallocVars, vremapVars, k>>

MemoryInit ==
  /\ chosen \in {"buddy", "salloc", "vremap", "spaces"}
  /\ BD!Init /\ SallocInit /\ VremapInit /\ Init

MemoryNext ==
  /\ UNCHANGED chosen
  /\ \/ chosen = "buddy" /\ BD!Next /\ UNCHANGED <<sallocVars, vremapVars, k>>
     \/ chosen = "salloc" /\ SallocNext /\ UNCHANGED <<buddyVars, vremapVars, k>>
     \/ chosen = "vremap" /\ VremapNext /\ UNCHANGED <<buddyVars, sallocVars, k>>
     \/ chosen = "spaces" /\ Next /\ UNCHANGED <<buddyVars, sallocVars, vremapVars>>

MemorySpec == MemoryInit /\ [][MemoryNext]_memoryVars

\* buddy.c: every page is in one place, buckets are sorted and merged.
PagesExact == BD!PagesExact
=============================================================================
