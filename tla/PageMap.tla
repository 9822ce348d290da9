------------------------------ MODULE PageMap ------------------------------
(***************************************************************************)
(* What an allocator of contiguous pages promises, without lists or        *)
(* merging: a run is only given from pages that are free, it is refused    *)
(* only if there is no such run anywhere, and pages given back are free    *)
(* again, joined with whatever is free around them.                        *)
(***************************************************************************)
EXTENDS Naturals

CONSTANTS Region,  (* the pages of the region                               *)
          Runs,    (* the runs that may be asked for: [address, pages]      *)
          MayLose  (* whether giving pages back may lose them               *)

VARIABLES free,  (* the pages no one has                                    *)
          held,  (* the runs that have been given                           *)
          ret    (* what the last call was about, in pages, and its outcome *)

PagesOf(r) == r.address .. (r.address + r.pages - 1)

Init == free = Region /\ held = {} /\ ret = [how |-> "none", pages |-> 0]

Fits(n) == {r \in Runs : r.pages = n /\ PagesOf(r) \subseteq free}

Give(r) ==
  /\ PagesOf(r) \subseteq free
  /\ free' = free \ PagesOf(r)
  /\ held' = held \cup {r}
  /\ ret' = [how |-> "given", pages |-> r.pages]

Refuse(n) ==
  /\ Fits(n) = {}
  /\ ret' = [how |-> "refused", pages |-> n]
  /\ UNCHANGED <<free, held>>

TakeBack(r) ==
  /\ r \in held
  /\ held' = held \ {r}
  /\ \/ free' = free \cup PagesOf(r) /\ ret' = [how |-> "freed", pages |-> r.pages]
     \/ MayLose /\ UNCHANGED free /\ ret' = [how |-> "lost", pages |-> r.pages]

Next ==
  \/ \E r \in Runs : Give(r) \/ TakeBack(r)
  \/ \E n \in {r.pages : r \in Runs} : Refuse(n)

Spec == Init /\ [][Next]_<<free, held, ret>>
=============================================================================
