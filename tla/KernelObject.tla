---------------------------- MODULE KernelObject ----------------------------
(***************************************************************************)
(* Kernel objects, object.c: objects of a class, the references tasks hold *)
(* to them, and the lists of references.  The functions of object.c are    *)
(* operators from one state k of these structures to the next, so that a   *)
(* function may call others as the code does; each exported function, one  *)
(* task-atomic section, is an action that applies one to the variable k.   *)
(***************************************************************************)
EXTENDS Integers, FiniteSets, SequencesExt

CONSTANTS Classes,   \* kernel classes
          Dupable,   \* the classes with a dup callback
          Tasks,     \* owners of references
          RefLists,  \* heads of lists of references, owned by callers
          MaxObjs,   \* bound: objects
          MaxRefs,   \* bound: references
          MaxElems   \* bound: list elements

ASSUME ObjectAssumption ==
  Dupable \subseteq Classes /\ {MaxObjs, MaxRefs, MaxElems} \subseteq Nat \ {0}

VARIABLE k

objectVars == <<k>>

NULL == 0
Free == [free |-> TRUE]
Objs == 1 .. MaxObjs
Refs == 1 .. MaxRefs
Elems == 1 .. MaxElems

-----------------------------------------------------------------------------
ObjectsInit ==
  k = [objs  |-> [o \in Objs |-> Free],
       refs  |-> [r \in Refs |-> Free],
       elems |-> [e \in Elems |-> Free],
       insts |-> [c \in Classes |-> <<>>],  \* class->instances
       count |-> [c \in Classes |-> 0],     \* class->count
       lists |-> [l \in RefLists |-> <<>>],
       mem   |-> 0,       \* allocations left before one fails
       ret   |-> NULL,    \* what the last function returned
       failure |-> "none"]

Live(pool) == {i \in DOMAIN pool : pool[i] # Free}
Slot(pool) == CHOOSE i \in DOMAIN pool \ Live(pool) :
                \A j \in DOMAIN pool \ Live(pool) : i <= j
NoMemory(s, pool) == s.mem = 0 \/ Live(pool) = DOMAIN pool
Returns(s, v) == [s EXCEPT !.ret = v]
Fails(s, what) == [s EXCEPT !.failure = what]

\* __kernel_object_create: the object has no reference yet.
ObjectCreate(s, c) ==
  IF NoMemory(s, s.objs) THEN Returns(s, NULL)
  ELSE LET o == Slot(s.objs) IN
    [s EXCEPT !.mem = @ - 1, !.ret = o,
       !.objs[o] = [class |-> c, count |-> 0, refs |-> <<>>,
                    told |-> [t \in Tasks |-> 0]],
       !.insts[c] = <<o>> \o @,
       !.count[c] = @ + 1]

\* What an object knows of its references, and the callbacks its class has seen:
\* told counts the calls of class->open for a task less those of class->close.
Opened(object, r, who) ==
  [object EXCEPT !.count = @ + 1, !.told[who] = @ + 1, !.refs = <<r>> \o @]
Closed(object, r, who) ==
  [object EXCEPT !.count = @ - 1, !.told[who] = @ - 1, !.refs = RemoveFirst(@, r)]

\* __kernel_object_open
ObjectOpen(s, o, who) ==
  IF NoMemory(s, s.refs) THEN Returns(s, NULL)
  ELSE LET r == Slot(s.refs) IN
    [s EXCEPT !.mem = @ - 1, !.ret = r,
       !.refs[r] = [owner |-> who, object |-> o, element |-> NULL],
       !.objs[o] = Opened(@, r, who)]

\* Mutant: the class does not count the object out.
ObjectDestroyCounted(s, o) ==
  IF s.objs[o] = Free THEN Fails(s, "freed_twice")
  ELSE [s EXCEPT !.insts[s.objs[o].class] = RemoveFirst(@, o), !.objs[o] = Free]

\* __kernel_object_destroy.  An object destroyed again has its destructor run
\* and its memory freed a second time.
ObjectDestroy(s, o) ==
  IF s.objs[o] = Free THEN Fails(s, "freed_twice")
  ELSE LET c == s.objs[o].class IN
    IF s.count[c] = 0 THEN Fails(s, "assert")
    ELSE [s EXCEPT !.insts[c] = RemoveFirst(@, o), !.count[c] = @ - 1,
                   !.objs[o] = Free]

\* __kernel_object_dup
ObjectDup(s, o) ==
  IF s.objs[o].class \notin Dupable \/ s.mem = 0 THEN Returns(s, NULL)
  ELSE ObjectCreate([s EXCEPT !.mem = @ - 1], s.objs[o].class)

\* __kernel_object_instance
ObjectInstance(s, c, owner) ==
  LET s1 == ObjectCreate(s, c)
      s2 == ObjectOpen(s1, s1.ret, owner)
  IN  IF s1.ret = NULL THEN s1
      ELSE IF s2.ret # NULL THEN s2 ELSE ObjectDestroy(s2, s1.ret)

\* __kernel_object_ref_close: the last reference takes the object with it.
RefClose(s, r) ==
  LET o  == s.refs[r].object
      s1 == [s EXCEPT !.refs[r] = Free, !.objs[o] = Closed(@, r, s.refs[r].owner)]
      last == s1.objs[o].count = 0
  IN  IF last /\ s.objs[o].refs[1] # r THEN Fails(s, "assert")
      ELSE IF last # (s1.objs[o].refs = <<>>) THEN Fails(s1, "assert")
      ELSE IF last THEN ObjectDestroy(s1, o) ELSE s1

\* __kernel_object_list_add_ref and __kernel_object_list_element_new
ListAddRef(s, l, r) ==
  IF NoMemory(s, s.elems) THEN Returns(s, NULL)
  ELSE LET e == Slot(s.elems) IN
    [s EXCEPT !.mem = @ - 1, !.ret = r,
       !.elems[e] = [ref |-> r],
       !.refs[r].element = e,
       !.lists[l] = <<e>> \o @]

\* __kernel_object_list_remove_ref: the element is unlinked and never freed;
\* as nothing leads to it any more, its slot of the model is used again.
ListRemoveRef(s, l, r) ==
  LET e == s.refs[r].element IN
  IF e = NULL THEN Fails(s, "assert")
  ELSE [s EXCEPT !.lists[l] = RemoveFirst(@, e), !.elems[e] = Free]

\* __kernel_object_open_from_list
OpenFromList(s, l, o, who) ==
  LET s1 == ObjectOpen(s, o, who)
      s2 == ListAddRef(s1, l, s1.ret)
  IN  IF s1.ret = NULL THEN s1
      ELSE IF s2.ret # NULL THEN s2 ELSE RefClose(s2, s1.ret)

\* __kernel_object_ref_close_from_list
CloseFromList(s, l, r) == RefClose(ListRemoveRef(s, l, r), r)

\* __kernel_object_list_element_destroy
ElementDestroy(s, e) ==
  [RefClose(s, s.elems[e].ref) EXCEPT !.elems[e] = Free]

\* __kernel_object_list_destroy; the caller's head becomes NULL.
ListDestroy(s, l) ==
  LET list == s.lists[l]
      after[i \in 0 .. Len(list)] ==
        IF i = 0 THEN s ELSE ElementDestroy(after[i - 1], list[i])
  IN  [after[Len(list)] EXCEPT !.lists[l] = <<>>]

\* __kernel_object_list_dup, one turn of its loop, until one fails
DupInto(s, l, o, who) ==
  LET dup == ObjectDup(s, o)
      s1  == OpenFromList(dup, l, dup.ret, who)
  IN  IF dup.ret = NULL THEN dup
      ELSE IF s1.ret # NULL THEN s1 ELSE ObjectDestroy(s1, dup.ret)
DupTurn(s, e, l, who) ==
  IF s.ret = NULL THEN s ELSE DupInto(s, l, s.refs[s.elems[e].ref].object, who)
DupAll(s, list, l, who) ==
  LET after[i \in 0 .. Len(list)] ==
        IF i = 0 THEN s ELSE DupTurn(after[i - 1], list[i], l, who)
  IN  after[Len(list)]

\* Mutant: a copy that fails keeps the objects copied so far.
ListDupPartial(s, src, l, who) == DupAll(Returns(s, 1), s.lists[src], l, who)

\* __kernel_object_list_dup: a copy of every object, or none of them.
ListDup(s, src, l, who) ==
  LET s1 == DupAll(Returns(s, 1), s.lists[src], l, who)
  IN  IF s1.ret # NULL THEN Returns(s1, Len(s1.lists[l])) ELSE ListDestroy(s1, l)

-----------------------------------------------------------------------------
(* The exported functions.  mem is how many allocations succeed.           *)

Listed(s) == UNION {{s.elems[e].ref : e \in ToSet(s.lists[l])} : l \in RefLists}
Unlisted == Live(k.refs) \ Listed(k)
InList(l) == {k.elems[e].ref : e \in ToSet(k.lists[l])}
With(mem) == [k EXCEPT !.mem = mem, !.ret = 1]
Result(s) == IF s.ret = NULL THEN NULL ELSE 1
Does(s) == k.failure = "none" /\ k' = [s EXCEPT !.mem = 0, !.ret = Result(s)]

Create(c, mem) == Does(ObjectCreate(With(mem), c))
Instance(c, who, mem) == Does(ObjectInstance(With(mem), c, who))
Open(o, who, mem) == Does(ObjectOpen(With(mem), o, who))
Dup(o, mem) == Does(ObjectDup(With(mem), o))
Close(r) == Does(RefClose(With(0), r))
AddToList(l, r, mem) == Does(ListAddRef(With(mem), l, r))
RemoveFromList(l, r) == Does(ListRemoveRef(With(0), l, r))
OpenInList(l, o, who, mem) == Does(OpenFromList(With(mem), l, o, who))
CloseInList(l, r) == Does(CloseFromList(With(0), l, r))
DestroyList(l) == Does(ListDestroy(With(0), l))
DupList(src, l, who, mem) == Does(ListDup(With(mem), src, l, who))

\* A caller closes a reference it keeps in a list through the list, and the
\* copy of a list becomes a list of its own.
ObjectsNext ==
  \/ \E c \in Classes, mem \in 0 .. 1 : Create(c, mem)
  \/ \E c \in Classes, who \in Tasks, mem \in 0 .. 2 : Instance(c, who, mem)
  \/ \E o \in Live(k.objs), who \in Tasks, mem \in 0 .. 1 : Open(o, who, mem)
  \/ \E o \in Live(k.objs), mem \in 0 .. 2 : Dup(o, mem)
  \/ \E r \in Unlisted : Close(r)
  \/ \E l \in RefLists, r \in Unlisted, mem \in 0 .. 1 : AddToList(l, r, mem)
  \/ \E l \in RefLists : \E r \in InList(l) :
       RemoveFromList(l, r) \/ CloseInList(l, r)
  \/ \E l \in RefLists, o \in Live(k.objs), who \in Tasks, mem \in 0 .. 2 :
       OpenInList(l, o, who, mem)
  \/ \E l \in RefLists : DestroyList(l)
  \/ \E src, l \in RefLists, who \in Tasks :
       /\ k.lists[l] = <<>> /\ src # l
       /\ \E mem \in 0 .. 4 * Len(k.lists[src]) : DupList(src, l, who, mem)

ObjectsSpec == ObjectsInit /\ [][ObjectsNext]_objectVars

-----------------------------------------------------------------------------
(* Properties                                                              *)

RefsOf(o) == {r \in Live(k.refs) : k.refs[r].object = o}

\* No assertion of object.c fails, and until an object is destroyed twice the
\* books are right.  An object is alive exactly as long as it is counted: its counter, its list
\* of references, the references tasks hold and the calls its class saw agree,
\* and a class lists and counts each of its objects once.  What a list of a
\* caller holds can be followed both ways: each element is in one list, and has
\* an open reference that knows it (the back pointer by which
\* kernel_object_ref_close_from_list finds it).
CountsExact ==
  /\ k.failure # "assert"
  /\ k.failure = "none" =>
    /\ \A r \in Live(k.refs) : k.objs[k.refs[r].object] # Free
    /\ \A o \in Live(k.objs) :
         /\ ToSet(k.objs[o].refs) = RefsOf(o)
         /\ k.objs[o].count = Len(k.objs[o].refs)
         /\ Cardinality(RefsOf(o)) = k.objs[o].count
         /\ \A t \in Tasks : k.objs[o].told[t] =
              Cardinality({r \in RefsOf(o) : k.refs[r].owner = t})
    /\ \A c \in Classes :
         /\ ToSet(k.insts[c]) = {o \in Live(k.objs) : k.objs[o].class = c}
         /\ k.count[c] = Len(k.insts[c])
         /\ IsInjective(k.insts[c])
    /\ \A l \in RefLists :
         /\ \A e \in ToSet(k.lists[l]) :
              /\ k.elems[e] # Free
              /\ k.elems[e].ref \in Live(k.refs)
              /\ k.refs[k.elems[e].ref].element = e
         /\ IsInjective(k.lists[l])
         /\ \A m \in RefLists : l # m => ToSet(k.lists[l]) \cap ToSet(k.lists[m]) = {}

\* A function that returns NULL has undone what it did before the allocation
\* that failed: every object with a reference is as it was, no object, list
\* element or reference is left behind.
FailureUndone ==
  [][k'.ret = NULL /\ k'.failure = "none" =>
       /\ \A o \in Live(k.objs) : k.objs[o].count > 0 => k'.objs[o] = k.objs[o]
       /\ Live(k'.objs) \subseteq Live(k.objs)
       /\ k'.refs = k.refs /\ k'.elems = k.elems /\ k'.lists = k.lists]_objectVars
=============================================================================
