-------------------------------- MODULE Lists --------------------------------
(***************************************************************************)
(* The lists of list.c as they are in memory, each element with the links  *)
(* next and prev: plain lists (kernel objects, services, slabs), lists     *)
(* sorted by an index (buckets of pages, free runs of addresses) and       *)
(* circular lists (the run queue, queues of messages).  An element that    *)
(* leaves a list keeps its links; inserting it writes both.  The chains of *)
(* hooks of hook.c, which is one code's here, are lists of a fourth kind.  *)
(***************************************************************************)
EXTENDS Integers, SequencesExt

CONSTANTS Elems,    \* elements
          Indices   \* indices of sorted lists

VARIABLES kind,   \* which of the four families of functions is used
          list,   \* the head pointer and the links
          order   \* history: the elements in the order the calls ask for

vars == <<kind, list, order>>

NULL == "NULL"
Links == Elems \cup {NULL}

Init ==
  /\ kind \in {"plain", "sorted", "circular", "hooks"}
  /\ list = [head |-> NULL, next |-> [e \in Elems |-> NULL],
             prev |-> [e \in Elems |-> NULL],
             index |-> [e \in Elems |-> CHOOSE i \in Indices : TRUE]]
  /\ order = << >>

Linked(l, a, b) ==  \* a->next = b and b->prev = a, where they are elements
  [l EXCEPT !.next = [e \in Elems |-> IF e = a THEN b ELSE @[e]],
            !.prev = [e \in Elems |-> IF e = b THEN a ELSE @[e]]]

-----------------------------------------------------------------------------
(* Plain and sorted lists                                                  *)

\* The elements reached from e by following next.
RECURSIVE From(_, _)
From(l, e) == IF e = NULL THEN << >> ELSE <<e>> \o From(l, l.next[e])

\* list_get_tail
GetTail(l) == IF l.head = NULL THEN NULL ELSE Last(From(l, l.head))

\* list_insert_head
InsertHead(l, e) == [Linked(Linked(l, e, l.head), NULL, e) EXCEPT !.head = e]

\* list_insert_after
InsertAfter(l, at, e) == Linked(Linked(l, e, l.next[at]), at, e)

\* list_insert_before
InsertBefore(l, at, e) ==
  LET l1 == Linked(Linked(l, l.prev[at], e), e, at) IN
  IF l.prev[at] = NULL THEN [l1 EXCEPT !.head = e] ELSE l1

\* list_insert_tail
InsertTail(l, e) ==
  IF GetTail(l) = NULL THEN InsertHead(l, e) ELSE InsertAfter(l, GetTail(l), e)

\* Mutant: the next element still names the one that left.
RemoveElementHalf(l, e) ==
  [l EXCEPT
     !.head = IF @ = e THEN l.next[e] ELSE @,
     !.next = [x \in Elems |-> IF x = l.prev[e] THEN l.next[e] ELSE @[x]]]

\* list_remove_element: the links of its neighbours, not its own.
RemoveElement(l, e) ==
  [l EXCEPT
     !.head = IF @ = e THEN l.next[e] ELSE @,
     !.next = [x \in Elems |-> IF x = l.prev[e] THEN l.next[e] ELSE @[x]],
     !.prev = [x \in Elems |-> IF x = l.next[e] THEN l.prev[e] ELSE @[x]]]

\* sorted_list_get_next, sorted_list_search, sorted_list_get_previous: the
\* walks end at the first element that decides.
FirstFrom(l, test(_)) ==
  LET s == SelectSeq(From(l, l.head), test) IN IF s = << >> THEN NULL ELSE s[1]
SortedNext(l, i) == FirstFrom(l, LAMBDA e : l.index[e] >= i)
SortedSearch(l, i) ==
  LET e == SortedNext(l, i) IN
  IF e # NULL /\ l.index[e] = i THEN e ELSE NULL
SortedPrevious(l, i) ==
  LET e == FirstFrom(l, LAMBDA x : l.index[x] > i) IN
  IF e # NULL THEN l.prev[e] ELSE GetTail(l)

\* sorted_list_insert: before the elements with the same index.
SortedInsert(l, e, i) ==
  LET l1    == [l EXCEPT !.index[e] = i]
      alike == SortedNext(l1, i)
  IN  IF l.head = NULL THEN InsertHead(l1, e)
      ELSE IF alike = NULL THEN InsertAfter(l1, GetTail(l1), e)
      ELSE InsertBefore(l1, alike, e)

-----------------------------------------------------------------------------
(* Circular lists                                                          *)

CircularTail(l) == IF l.head = NULL THEN NULL ELSE l.prev[l.head]

\* circular_list_insert_head and circular_list_insert_tail
CircularInsert(l, e, head) ==
  IF l.head = NULL THEN [Linked(l, e, e) EXCEPT !.head = e]
  ELSE [Linked(Linked(l, l.prev[l.head], e), e, l.head)
          EXCEPT !.head = IF head THEN e ELSE @]

\* circular_list_remove_element
CircularRemove(l, e) ==
  IF l.prev[e] = e /\ l.next[e] = e THEN [l EXCEPT !.head = NULL]
  ELSE [Linked(l, l.prev[e], l.next[e])
          EXCEPT !.head = IF @ = e THEN l.next[e] ELSE @]

\* circular_list_scroll_next, circular_list_scroll_prev
Scrolled(l, forward) ==
  IF l.head = NULL THEN l
  ELSE [l EXCEPT !.head = IF forward THEN l.next[@] ELSE l.prev[@]]

-----------------------------------------------------------------------------
(* Hooks                                                                   *)

\* hook_add: only the new hook and the first one's prev are written.
HookAdd(l, e) ==
  [l EXCEPT !.next[e] = l.head, !.prev = [x \in Elems |->
       IF x = e THEN NULL ELSE IF x = l.head THEN e ELSE @[x]],
     !.head = e]

\* trigger_hook: the hooks called, up to one that answers HOOK_LOCK_CHAIN.
Triggered(l, locking) ==
  LET hooks == From(l, l.head)
      last  == SelectInSeq(hooks, LAMBDA e : e \in locking)
  IN IF last = 0 THEN hooks ELSE SubSeq(hooks, 1, last)

-----------------------------------------------------------------------------
Out(e) == e \notin ToSet(order)

AddPlain(e) ==
  /\ kind = "plain" /\ Out(e)
  /\ \/ list' = InsertHead(list, e) /\ order' = <<e>> \o order
     \/ list' = InsertTail(list, e) /\ order' = Append(order, e)
     \/ \E p \in 1 .. Len(order) :
          \/ /\ list' = InsertAfter(list, order[p], e)
             /\ order' = InsertAt(order, p + 1, e)
          \/ /\ list' = InsertBefore(list, order[p], e)
             /\ order' = InsertAt(order, p, e)

AddSorted(e, i) ==
  /\ kind = "sorted" /\ Out(e)
  /\ list' = SortedInsert(list, e, i)
  /\ LET smaller == SelectSeq(order, LAMBDA x : list.index[x] < i)
     IN  order' = InsertAt(order, Len(smaller) + 1, e)

AddCircular(e, head) ==
  /\ kind = "circular" /\ Out(e)
  /\ list' = CircularInsert(list, e, head)
  /\ order' = IF head THEN <<e>> \o order ELSE Append(order, e)

\* hook_register, with memory for the hook and a code there is
HookRegister(e) ==
  /\ kind = "hooks" /\ Out(e)
  /\ list' = HookAdd(list, e)
  /\ order' = <<e>> \o order

Take(e) ==
  /\ ~Out(e) /\ kind # "hooks"
  /\ list' = IF kind = "circular" THEN CircularRemove(list, e)
             ELSE RemoveElement(list, e)
  /\ order' = Remove(order, e)

ScrollTo(e) ==   \* circular_list_scroll_to
  /\ kind = "circular" /\ ~Out(e)
  /\ list' = [list EXCEPT !.head = e]
  /\ LET p == CHOOSE p \in 1 .. Len(order) : order[p] = e
     IN  order' = SubSeq(order, p, Len(order)) \o SubSeq(order, 1, p - 1)

Scroll(forward) ==
  /\ kind = "circular"
  /\ list' = Scrolled(list, forward)
  /\ order' = IF order = << >> THEN order
              ELSE IF forward THEN Append(Tail(order), Head(order))
              ELSE <<Last(order)>> \o Front(order)

Next ==
  /\ UNCHANGED kind
  /\ \/ \E e \in Elems : AddPlain(e) \/ HookRegister(e) \/ Take(e) \/ ScrollTo(e)
     \/ \E e \in Elems, i \in Indices : AddSorted(e, i)
     \/ \E e \in Elems, head \in BOOLEAN : AddCircular(e, head)
     \/ \E forward \in BOOLEAN : Scroll(forward)

Spec == Init /\ [][Next]_vars

-----------------------------------------------------------------------------
(* Properties                                                              *)

\* The links of a list are the order its callers asked for, read forwards and
\* backwards, whatever was inserted, removed, inserted again or scrolled: no
\* element is lost or reached after it left, a sorted list answers its three
\* searches as its indices say, and hooks are called newest first, those behind
\* one that locks the chain not at all.
LinksAreOrder ==
  LET n == Len(order)
      at(p) == order[((p - 1) % n) + 1]
      circular == kind = "circular"
  IN /\ list.head = IF n = 0 THEN NULL ELSE order[1]
     /\ \A p \in 1 .. n :
          /\ list.next[order[p]] = IF p = n /\ ~circular THEN NULL ELSE at(p + 1)
          /\ list.prev[order[p]] = IF p = 1 /\ ~circular THEN NULL ELSE at(p + n - 1)
     /\ kind = "hooks" => \A locking \in SUBSET Elems :
          LET called == ToSet(Triggered(list, locking)) IN
          \A p \in 1 .. n : order[p] \in called <=>
                              \A q \in 1 .. p - 1 : order[q] \notin locking
     /\ kind = "sorted" =>
          LET ind(p) == list.index[order[p]] IN
          /\ \A p \in 1 .. n - 1 : ind(p) <= ind(p + 1)
          /\ \A i \in Indices :
               LET above == {p \in 1 .. n : ind(p) >= i}
                   past  == {p \in 1 .. n : ind(p) > i}
                   first(S) == CHOOSE p \in S : \A q \in S : p <= q
               IN /\ SortedNext(list, i) =
                       IF above = {} THEN NULL ELSE order[first(above)]
                  /\ SortedSearch(list, i) =
                       IF above = past THEN NULL ELSE order[first(above)]
                  /\ SortedPrevious(list, i) =
                       IF past = {} THEN (IF n = 0 THEN NULL ELSE order[n])
                       ELSE IF first(past) = 1 THEN NULL
                       ELSE order[first(past) - 1]
=============================================================================
