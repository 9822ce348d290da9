----------------------------- MODULE MCMsgQueue -----------------------------
(* Two tasks that may send to each other and to themselves, with headers    *)
(* that a filter may match or not.                                          *)
EXTENDS MsgQueue

CONSTANTS t1, t2, b1, b2

MCHeaders == {[type |-> 0, link |-> 0], [type |-> 1, link |-> 1]}
MCFilters == {[type |-> Wildcard, link |-> Wildcard], [type |-> 1, link |-> 1]}
OneHeader == {[type |-> 0, link |-> 0]}
NoFilter  == {[type |-> Wildcard, link |-> Wildcard]}
Symmetric == Permutations(Bodies)
=============================================================================
