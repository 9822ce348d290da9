------------------------- MODULE KernelObject_proofs -------------------------
(***************************************************************************)
(* Kernel objects, for any number of classes, tasks, objects, references   *)
(* and lists, whichever allocation fails.  The functions of object.c call  *)
(* each other, so that there is a lemma for each: what it leaves of the    *)
(* books, and what it changes.  A list in the middle of its destruction    *)
(* has elements that are gone: the books are right for a set U of          *)
(* elements, which then is not that of the elements the heads lead to.     *)
(***************************************************************************)
EXTENDS KernelObject, SequenceTheorems, FiniteSetTheorems, WellFoundedInduction, TLAPS

-----------------------------------------------------------------------------
(* The inductive invariant.                                                 *)

Obj  == [class : Classes, count : Nat, refs : Seq(Nat), told : [Tasks -> Nat]]
Ref  == [owner : Tasks, object : Objs, element : Elems \cup {NULL}]
Elem == [ref : Refs]

State ==
  [objs  : [Objs -> Obj \cup {Free}], refs : [Refs -> Ref \cup {Free}],
   elems : [Elems -> Elem \cup {Free}],
   insts : [Classes -> Seq(Nat)], count : [Classes -> Nat],
   lists : [RefLists -> Seq(Nat)],
   mem : Nat, ret : Nat, failure : {"none", "freed_twice"}]

\* The list l has every member of S once.
Holds(l, S) == l \in Seq(Nat) /\ IsInjective(l) /\ ToSet(l) = S

OpenRefs(refs, o) == {r \in Live(refs) : refs[r].object = o}
Seen(refs, o, t) == {r \in OpenRefs(refs, o) : refs[r].owner = t}

ObjOK(object, refs, o) ==
  /\ Holds(object.refs, OpenRefs(refs, o)) /\ object.count = Len(object.refs)
  /\ \A t \in Tasks : object.told[t] = Cardinality(Seen(refs, o, t))

ObjectsOK(objs, refs) ==
  /\ \A r \in Live(refs) : objs[refs[r].object] # Free
  /\ \A o \in Live(objs) : ObjOK(objs[o], refs, o)

InstancesOf(objs, c) == {o \in Live(objs) : objs[o].class = c}
ClassesOK(objs, insts, count) ==
  \A c \in Classes : Holds(insts[c], InstancesOf(objs, c)) /\ count[c] = Len(insts[c])

ElemOK(e, elems, refs) ==
  /\ e \in Elems /\ elems[e] # Free
  /\ elems[e].ref \in Live(refs) /\ refs[elems[e].ref].element = e

ElemsOK(U, elems, refs) == \A e \in U : ElemOK(e, elems, refs)

BooksOK(s, U) ==
  /\ s \in State /\ ObjectsOK(s.objs, s.refs)
  /\ ClassesOK(s.objs, s.insts, s.count) /\ ElemsOK(U, s.elems, s.refs)

\* The elements in the lists, each in one and once there.
Linked(lists) == UNION {ToSet(lists[l]) : l \in RefLists}
ChainsOK(lists) ==
  /\ \A l \in RefLists : IsInjective(lists[l])
  /\ \A l, m \in RefLists : l # m => ToSet(lists[l]) \cap ToSet(lists[m]) = {}

ListedOK(s) == BooksOK(s, Linked(s.lists)) /\ ChainsOK(s.lists)

ObjectInv == ListedOK(k)

-----------------------------------------------------------------------------
(* Lists.                                                                   *)

LEMMA InSet ==
  ASSUME NEW l
  PROVE  \A x : x \in ToSet(l) <=> \E i \in DOMAIN l : x = l[i]
BY DEF ToSet

\* Two lists with nothing in common, one after the other.
LEMMA Joined ==
  ASSUME NEW a, NEW b, NEW S, NEW T, Holds(a, S), Holds(b, T), S \cap T = {}
  PROVE  Holds(a \o b, S \cup T) /\ Len(a \o b) = Len(a) + Len(b)
<1> DEFINE s == a \o b
<1>1. a \in Seq(Nat) /\ b \in Seq(Nat) /\ IsInjective(a) /\ IsInjective(b)
  BY DEF Holds
<1>2. \A x : /\ x \in S <=> \E i \in DOMAIN a : x = a[i]
             /\ x \in T <=> \E i \in DOMAIN b : x = b[i]
  BY InSet DEF Holds
<1>3. /\ s \in Seq(Nat) /\ Len(s) = Len(a) + Len(b)
      /\ \A j \in 1 .. Len(a) + Len(b) : s[j] = IF j <= Len(a) THEN a[j] ELSE b[j - Len(a)]
  BY <1>1, ConcatProperties
<1> HIDE DEF s
<1>4. /\ Len(a) \in Nat /\ Len(b) \in Nat /\ DOMAIN a = 1 .. Len(a) /\ DOMAIN b = 1 .. Len(b)
      /\ DOMAIN s = 1 .. Len(a) + Len(b)
  BY <1>1, <1>3
<1>5. IsInjective(s)
  <2> SUFFICES ASSUME NEW i \in 1 .. Len(a) + Len(b), NEW j \in 1 .. Len(a) + Len(b), s[i] = s[j]
               PROVE  i = j
    BY <1>4 DEF IsInjective
  <2>1. CASE i <= Len(a) /\ j <= Len(a)
    <3>1. i \in DOMAIN a /\ j \in DOMAIN a /\ a[i] = a[j]
      BY <1>3, <1>4, <2>1
    <3>2. QED
      BY <1>1, <3>1 DEF IsInjective
  <2>2. CASE i <= Len(a) /\ j > Len(a)
    <3>1. i \in DOMAIN a /\ j - Len(a) \in DOMAIN b /\ a[i] = b[j - Len(a)]
      BY <1>3, <1>4, <2>2
    <3>2. QED
      BY <1>2, <3>1
  <2>3. CASE i > Len(a) /\ j <= Len(a)
    <3>1. i - Len(a) \in DOMAIN b /\ j \in DOMAIN a /\ a[j] = b[i - Len(a)]
      BY <1>3, <1>4, <2>3
    <3>2. QED
      BY <1>2, <3>1
  <2>4. CASE i > Len(a) /\ j > Len(a)
    <3>1. i - Len(a) \in DOMAIN b /\ j - Len(a) \in DOMAIN b /\ b[i - Len(a)] = b[j - Len(a)]
      BY <1>3, <1>4, <2>4
    <3>2. i - Len(a) = j - Len(a)
      BY <1>1, <3>1 DEF IsInjective
    <3>3. QED
      BY <1>4, <3>2
  <2>5. QED
    BY <1>4, <2>1, <2>2, <2>3, <2>4
<1>6. \A x : x \in ToSet(s) <=> x \in S \cup T
  <2> TAKE x
  <2>1. ASSUME x \in ToSet(s)  PROVE  x \in S \cup T
    <3>1. PICK j \in DOMAIN s : x = s[j]
      BY <2>1, InSet
    <3>2. CASE j <= Len(a)
      <4>1. j \in DOMAIN a /\ x = a[j]
        BY <1>3, <1>4, <3>1, <3>2
      <4>2. QED
        BY <1>2, <4>1
    <3>3. CASE j > Len(a)
      <4>1. j - Len(a) \in DOMAIN b /\ x = b[j - Len(a)]
        BY <1>3, <1>4, <3>1, <3>3
      <4>2. QED
        BY <1>2, <4>1
    <3>4. QED
      BY <1>4, <3>2, <3>3
  <2>2. ASSUME x \in S  PROVE  x \in ToSet(s)
    <3>1. PICK i \in DOMAIN a : x = a[i]
      BY <1>2, <2>2
    <3>2. i \in DOMAIN s /\ s[i] = x
      BY <1>3, <1>4, <3>1
    <3>3. QED
      BY <3>2, InSet
  <2>3. ASSUME x \in T  PROVE  x \in ToSet(s)
    <3>1. PICK i \in DOMAIN b : x = b[i]
      BY <1>2, <2>3
    <3>2. Len(a) + i \in DOMAIN s /\ Len(a) + i > Len(a) /\ (Len(a) + i) - Len(a) = i
      BY <1>4
    <3>3. s[Len(a) + i] = x
      BY <1>3, <1>4, <3>1, <3>2
    <3>4. QED
      BY <3>2, <3>3, InSet
  <2>4. QED
    BY <2>1, <2>2, <2>3
<1>7. QED
  BY <1>3, <1>5, <1>6 DEF Holds, s

LEMMA Single ==
  ASSUME NEW i \in Nat
  PROVE  Holds(<<i>>, {i})
<1>1. <<i>> \in Seq(Nat) /\ DOMAIN <<i>> = {1} /\ <<i>>[1] = i
  OBVIOUS
<1>2. ToSet(<<i>>) = {i}
  BY <1>1, InSet
<1>3. IsInjective(<<i>>)
  BY <1>1 DEF IsInjective
<1>4. QED
  BY <1>1, <1>2, <1>3 DEF Holds

LEMMA Pushed ==
  ASSUME NEW l, NEW S, Holds(l, S), NEW i \in Nat, i \notin S
  PROVE  Holds(<<i>> \o l, S \cup {i})
<1>1. Holds(<<i>> \o l, {i} \cup S)
  BY Single, Joined
<1>2. {i} \cup S = S \cup {i}
  OBVIOUS
<1>3. QED
  BY <1>1, <1>2

\* A list without the slab that is removed, if it has it.
LEMMA Removed ==
  ASSUME NEW l, NEW S, Holds(l, S), NEW i \in Nat
  PROVE  Holds(RemoveFirst(l, i), S \ {i})
<1> DEFINE r == RemoveFirst(l, i)
<1>1. l \in Seq(Nat) /\ IsInjective(l) /\ DOMAIN l = 1 .. Len(l) /\ Len(l) \in Nat
  BY DEF Holds
<1>2. \A x : x \in S <=> \E j \in DOMAIN l : x = l[j]
  BY InSet DEF Holds
<1>3. CASE ~ \E j \in 1 .. Len(l) : l[j] = i
  <2>1. r = l
    BY <1>3 DEF RemoveFirst
  <2>2. S \ {i} = S
    BY <1>1, <1>2, <1>3
  <2>3. QED
    BY <2>1, <2>2
<1>4. CASE \E j \in 1 .. Len(l) : l[j] = i
  <2>1. PICK q \in 1 .. Len(l) : l[q] = i
    BY <1>4
  <2>a. \A j \in 1 .. Len(l) : j # q => l[j] # i
    BY <1>1, <2>1 DEF IsInjective
  <2> DEFINE I == {j \in 1 .. Len(l) : l[j] = i}
  <2>2. I = {q}
    BY <2>1, <2>a
  <2>3. Min(I) = q
    <3>1. Min({q}) = q
      <4>1. q <= q
        BY <1>1
      <4>2. QED
        BY <4>1 DEF Min
    <3> HIDE DEF I
    <3>2. QED
      BY <2>2, <3>1
  <2>4. SelectInSeq(l, LAMBDA v : v = i) = q
    BY <2>2, <2>3 DEF SelectInSeq
  <2> DEFINE a == SubSeq(l, 1, q - 1)
             b == SubSeq(l, q + 1, Len(l))
  <2>5. r = a \o b
    BY <1>4, <2>4 DEF RemoveFirst, RemoveAt
  <2>6. a \in Seq(Nat) /\ Len(a) = q - 1 /\ \A j \in 1 .. q - 1 : a[j] = l[j]
    BY <1>1
  <2>7. b \in Seq(Nat) /\ Len(b) = Len(l) - q /\ \A j \in 1 .. Len(l) - q : b[j] = l[q + j]
    <3>1. q \in Nat /\ 1 <= q /\ q <= Len(l)
      BY <1>1
    <3>2. q + 1 \in Int /\ Len(l) \in Int /\ \A j \in q + 1 .. Len(l) : l[j] \in Nat
      BY <1>1, <3>1
    <3>3. /\ b \in Seq(Nat) /\ Len(b) = IF q + 1 <= Len(l) THEN Len(l) - (q + 1) + 1 ELSE 0
          /\ \A j \in 1 .. Len(l) - (q + 1) + 1 : b[j] = l[q + 1 + j - 1]
      BY <3>2, SubSeqProperties
    <3> HIDE DEF b
    <3>4. Len(l) - (q + 1) + 1 = Len(l) - q
      BY <1>1, <3>1
    <3>5. \A j \in 1 .. Len(l) - q : q + 1 + j - 1 = q + j
      BY <1>1, <3>1
    <3>6. Len(b) = Len(l) - q
      <4>1. Len(b) = IF q + 1 <= Len(l) THEN Len(l) - (q + 1) + 1 ELSE 0
        BY <3>3
      <4>2. Len(l) \in Nat
        BY <1>1
      <4>3. CASE q + 1 <= Len(l)
        BY <3>4, <4>1, <4>3
      <4>4. CASE q = Len(l)
        BY <3>1, <4>1, <4>2, <4>4
      <4>5. QED
        BY <3>1, <4>2, <4>3, <4>4
    <3>7. \A j \in 1 .. Len(l) - q : b[j] = l[q + 1 + j - 1]
      BY <3>3, <3>4
    <3>8. QED
      BY <3>3, <3>5, <3>6, <3>7
  <2> HIDE DEF a, b
  <2>8. DOMAIN a = 1 .. q - 1 /\ DOMAIN b = 1 .. Len(l) - q
    BY <2>6, <2>7
  <2>b. \A j \in DOMAIN b : q + j \in q + 1 .. Len(l) /\ q + j \in DOMAIN l
    BY <1>1, <2>8
  <2>c. \A j \in DOMAIN b : b[j] = l[q + j]
    BY <2>7, <2>8
  <2> DEFINE A == {l[j] : j \in 1 .. q - 1}
             B == {l[j] : j \in q + 1 .. Len(l)}
  <2>9. Holds(a, A)
    <3>1. IsInjective(a)
      BY <1>1, <2>6, <2>8 DEF IsInjective
    <3>2. \A x : x \in ToSet(a) <=> \E j \in 1 .. q - 1 : x = l[j]
      <4>1. \A x : x \in ToSet(a) <=> \E j \in 1 .. q - 1 : x = a[j]
        BY <2>8, InSet
      <4>2. QED
        BY <2>6, <4>1
    <3>3. ToSet(a) = A
      BY <3>2
    <3>4. QED
      BY <2>6, <3>1, <3>3 DEF Holds
  <2>10. Holds(b, B)
    <3>1. IsInjective(b)
      <4> SUFFICES ASSUME NEW x \in DOMAIN b, NEW y \in DOMAIN b, b[x] = b[y]
                   PROVE  x = y
        BY DEF IsInjective
      <4>1. q + x \in DOMAIN l /\ q + y \in DOMAIN l /\ l[q + x] = l[q + y]
        BY <2>b, <2>c
      <4>2. q + x = q + y
        BY <1>1, <4>1 DEF IsInjective
      <4>3. QED
        BY <1>1, <2>8, <4>2
    <3>2. \A x : x \in ToSet(b) <=> x \in B
      <4>1. \A j \in q + 1 .. Len(l) : j - q \in DOMAIN b /\ b[j - q] = l[j]
        <5>1. \A j \in q + 1 .. Len(l) : j - q \in 1 .. Len(l) - q /\ q + (j - q) = j
          BY <1>1
        <5>2. QED
          BY <2>7, <2>8, <5>1
      <4>2. QED
        BY <4>1, <2>b, <2>c, InSet
    <3>3. ToSet(b) = B
      BY <3>2
    <3>4. QED
      BY <2>7, <3>1, <3>3 DEF Holds
  <2>11. A \cap B = {}
    <3> SUFFICES ASSUME NEW x \in A, x \in B  PROVE  FALSE
      OBVIOUS
    <3>1. PICK j \in 1 .. q - 1 : x = l[j]
      OBVIOUS
    <3>2. PICK m \in q + 1 .. Len(l) : x = l[m]
      OBVIOUS
    <3>3. j \in DOMAIN l /\ m \in DOMAIN l /\ j # m
      BY <1>1
    <3>4. QED
      BY <1>1, <3>1, <3>2, <3>3 DEF IsInjective
  <2>12. Holds(a \o b, A \cup B)
    BY <2>9, <2>10, <2>11, Joined
  <2>13. A \cup B = S \ {i}
    <3>1. \A j \in 1 .. Len(l) : (j \in 1 .. q - 1 \/ j \in q + 1 .. Len(l)) <=> j # q
      BY <1>1
    <3>2. \A j : j \in 1 .. q - 1 \/ j \in q + 1 .. Len(l) => j \in 1 .. Len(l)
      BY <1>1
    <3>3. \A x : x \in A \cup B <=> \E j \in 1 .. Len(l) : j # q /\ x = l[j]
      BY <3>1, <3>2
    <3>4. \A x : x \in S \ {i} <=> \E j \in 1 .. Len(l) : j # q /\ x = l[j]
      BY <1>1, <1>2, <2>1, <2>a
    <3>5. QED
      BY <3>3, <3>4
  <2>14. QED
    BY <2>5, <2>12, <2>13
<1>5. QED
  BY <1>3, <1>4

\* As many places in a list as slabs in it.
LEMMA HoldsCard ==
  ASSUME NEW l, NEW S, Holds(l, S)
  PROVE  IsFiniteSet(S) /\ Cardinality(S) = Len(l)
<1>1. l \in Seq(Nat) /\ IsInjective(l) /\ DOMAIN l = 1 .. Len(l) /\ Len(l) \in Nat
  BY DEF Holds
<1>2. \A x : x \in S <=> \E j \in DOMAIN l : x = l[j]
  BY InSet DEF Holds
<1>3. l \in [1 .. Len(l) -> S]
  <2>1. l = [j \in 1 .. Len(l) |-> l[j]]
    BY <1>1
  <2>2. \A j \in 1 .. Len(l) : l[j] \in S
    BY <1>1, <1>2
  <2>3. QED
    BY <2>1, <2>2
<1>4. l \in Bijection(1 .. Len(l), S)
  BY <1>1, <1>2, <1>3 DEF Bijection, Injection, Surjection, IsInjective
<1>5. ExistsBijection(1 .. Len(l), S)
  BY <1>4 DEF ExistsBijection
<1>6. IsFiniteSet(1 .. Len(l)) /\ Cardinality(1 .. Len(l)) = Len(l)
  <2>1. 1 \in Int /\ Len(l) \in Int /\ (1 > Len(l) => Len(l) = 0) /\ Len(l) - 1 + 1 = Len(l)
    BY <1>1
  <2>2. Cardinality(1 .. Len(l)) = IF 1 > Len(l) THEN 0 ELSE Len(l) - 1 + 1
    BY <2>1, FS_Interval
  <2>3. QED
    BY <2>1, <2>2, FS_Interval
<1>7. QED
  BY <1>5, <1>6, FS_Bijection

-----------------------------------------------------------------------------
(* Sets and pools.                                                          *)

\* A set of naturals that is not empty has a least element.
LEMMA Least ==
  ASSUME NEW S \in SUBSET Nat, S # {}
  PROVE  \E m \in S : \A n \in S : m <= n
<1> DEFINE R == OpToRel(<, Nat)
<1>1. \E m \in S : \A n \in S : <<n, m>> \notin R
  <2>1. IsWellFoundedOn(R, Nat)
    BY NatLessThanWellFounded
  <2> HIDE DEF R
  <2> QED
    BY <2>1, WFMin
<1>2. ASSUME NEW n \in S, NEW m \in S, n < m PROVE <<n, m>> \in R
  BY <1>2 DEF OpToRel
<1> HIDE DEF R
<1>3. PICK m \in S : \A n \in S : <<n, m>> \notin R
  BY <1>1
<1>4. \A n \in S : ~(n < m)
  BY <1>2, <1>3
<1>5. \A n \in S : m <= n
  BY <1>4
<1>6. QED
  BY <1>5

LEMMA SlotIs ==
  ASSUME NEW pool, DOMAIN pool \subseteq Nat, Live(pool) # DOMAIN pool
  PROVE  Slot(pool) \in DOMAIN pool /\ pool[Slot(pool)] = Free
<1> DEFINE S == DOMAIN pool \ Live(pool)
<1>1. S \in SUBSET Nat /\ S # {}
  BY DEF Live
<1>2. \E i \in S : \A j \in S : i <= j
  BY <1>1, Least
<1>3. Slot(pool) \in S
  BY <1>2 DEF Slot
<1>4. QED
  BY <1>3 DEF Live

\* What is allocated differs from what is free.
LEMMA NotFree ==
  /\ \A x \in Obj : x # Free
  /\ \A x \in Ref : x # Free
  /\ \A x \in Elem : x # Free
<1>1. DOMAIN Free = {"free"}
  BY DEF Free
<1>2. \A x \in Obj : DOMAIN x = {"class", "count", "refs", "told"}
  BY DEF Obj
<1>3. \A x \in Ref : DOMAIN x = {"owner", "object", "element"}
  BY DEF Ref
<1>4. \A x \in Elem : DOMAIN x = {"ref"}
  BY DEF Elem
<1>5. "class" # "free" /\ "owner" # "free" /\ "ref" # "free"
  OBVIOUS
<1>6. QED
  BY <1>1, <1>2, <1>3, <1>4, <1>5

LEMMA LiveMore ==
  ASSUME NEW pool, NEW i \in DOMAIN pool, NEW v, v # Free
  PROVE  Live([pool EXCEPT ![i] = v]) = Live(pool) \cup {i}
BY DEF Live

LEMMA LiveLess ==
  ASSUME NEW pool, NEW i \in DOMAIN pool
  PROVE  Live([pool EXCEPT ![i] = Free]) = Live(pool) \ {i}
BY DEF Live

LEMMA LiveIs ==
  ASSUME NEW pool
  PROVE  \A i : i \in Live(pool) <=> i \in DOMAIN pool /\ pool[i] # Free
BY DEF Live

LEMMA EmptyHolds == Holds(<<>>, {}) /\ Len(<<>>) = 0
<1>1. <<>> \in Seq(Nat) /\ DOMAIN <<>> = {} /\ Len(<<>>) = 0
  OBVIOUS
<1>2. ToSet(<<>>) = {}
  BY <1>1, InSet
<1>3. IsInjective(<<>>)
  BY <1>1 DEF IsInjective
<1>4. QED
  BY <1>1, <1>2, <1>3 DEF Holds

LEMMA EmptyList ==
  ASSUME NEW l, Holds(l, {})
  PROVE  l = <<>> /\ Len(l) = 0
<1>1. Len(l) = 0
  BY HoldsCard, FS_EmptySet
<1>2. QED
  BY <1>1 DEF Holds

\* NULL is none of these.
LEMMA NotNull ==
  ASSUME ObjectAssumption
  PROVE  NULL \notin Objs \cup Refs \cup Elems /\ Objs \cup Refs \cup Elems \subseteq Nat
<1>1. MaxObjs \in Nat /\ MaxRefs \in Nat /\ MaxElems \in Nat
  BY DEF ObjectAssumption
<1>2. QED
  BY <1>1 DEF NULL, Objs, Refs, Elems

\* References are finitely many.
LEMMA SeenFinite ==
  ASSUME ObjectAssumption, NEW refs, DOMAIN refs = Refs, NEW o, NEW t
  PROVE  IsFiniteSet(Seen(refs, o, t))
<1>1. MaxRefs \in Int
  BY DEF ObjectAssumption
<1>2. IsFiniteSet(Refs)
  BY <1>1, FS_Interval DEF Refs
<1>3. Seen(refs, o, t) \subseteq Refs
  BY DEF Seen, OpenRefs, Live
<1>4. QED
  BY <1>2, <1>3, FS_Subset

\* Where only what a function returns, or what is left of the memory, changes.
LEMMA BooksSame ==
  ASSUME NEW s, NEW U, BooksOK(s, U), NEW s2 \in State,
         s2.objs = s.objs, s2.refs = s.refs, s2.elems = s.elems,
         s2.insts = s.insts, s2.count = s.count
  PROVE  BooksOK(s2, U)
BY DEF BooksOK

LEMMA StateSame ==
  ASSUME NEW s \in State
  PROVE  /\ \A v \in Nat : Returns(s, v) \in State
         /\ Fails(s, "freed_twice") \in State
BY DEF State, Returns, Fails

-----------------------------------------------------------------------------
(* Objects come and go.                                                     *)

SameBooks(s, s2) ==
  /\ s2.objs = s.objs /\ s2.refs = s.refs /\ s2.elems = s.elems
  /\ s2.lists = s.lists /\ s2.failure = s.failure

Refused(s, s2) == s2.ret = NULL /\ SameBooks(s, s2)

NewObj(c) == [class |-> c, count |-> 0, refs |-> <<>>, told |-> [t \in Tasks |-> 0]]

LEMMA NewObjIs ==
  ASSUME NEW c \in Classes
  PROVE  NewObj(c) \in Obj /\ NewObj(c) # Free
<1>1. NewObj(c) \in Obj
  BY DEF NewObj, Obj
<1>2. QED
  BY <1>1, NotFree

LEMMA ObjectsMore ==
  ASSUME NEW objs \in [Objs -> Obj \cup {Free}], NEW refs, ObjectsOK(objs, refs),
         NEW o \in Objs, objs[o] = Free, NEW c \in Classes
  PROVE  ObjectsOK([objs EXCEPT ![o] = NewObj(c)], refs)
<1> DEFINE new == [objs EXCEPT ![o] = NewObj(c)]
<1>1. new[o] = NewObj(c) /\ \A p \in Objs : p # o => new[p] = objs[p]
  OBVIOUS
<1>2. Live(new) = Live(objs) \cup {o}
  BY NewObjIs, LiveMore
<1>3. \A r \in Live(refs) : refs[r].object # o /\ objs[refs[r].object] # Free
  BY DEF ObjectsOK
<1> HIDE DEF new
<1>4. \A r \in Live(refs) : new[refs[r].object] # Free
  <2> SUFFICES ASSUME NEW r \in Live(refs), new[refs[r].object] = Free PROVE FALSE
    OBVIOUS
  <2>1. QED
    BY <1>1, <1>3, NewObjIs DEF new
<1>5. ObjOK(new[o], refs, o)
  <2>1. OpenRefs(refs, o) = {} /\ \A t \in Tasks : Seen(refs, o, t) = {}
    BY <1>3 DEF OpenRefs, Seen
  <2>2. new[o].refs = <<>> /\ new[o].count = 0 /\ \A t \in Tasks : new[o].told[t] = 0
    BY <1>1 DEF NewObj
  <2>3. \A t \in Tasks : Cardinality(Seen(refs, o, t)) = 0
    BY <2>1, FS_EmptySet
  <2>4. QED
    BY <2>1, <2>2, <2>3, EmptyHolds DEF ObjOK
<1>6. \A p \in Live(objs) : ObjOK(new[p], refs, p)
  BY <1>1, LiveIs DEF ObjectsOK
<1>7. QED
  BY <1>2, <1>4, <1>5, <1>6 DEF ObjectsOK, new

LEMMA ClassesMore ==
  ASSUME NEW objs \in [Objs -> Obj \cup {Free}], NEW insts \in [Classes -> Seq(Nat)],
         NEW count \in [Classes -> Nat], ClassesOK(objs, insts, count),
         NEW o \in Objs, objs[o] = Free, NEW c \in Classes
  PROVE  ClassesOK([objs EXCEPT ![o] = NewObj(c)], [insts EXCEPT ![c] = <<o>> \o @],
                   [count EXCEPT ![c] = @ + 1])
<1> DEFINE new == [objs EXCEPT ![o] = NewObj(c)]
<1>1. Live(new) = Live(objs) \cup {o} /\ o \notin Live(objs)
  BY NewObjIs, LiveMore, LiveIs
<1>2. new[o].class = c /\ \A p \in Live(objs) : new[p] = objs[p]
  BY <1>1, LiveIs DEF NewObj
<1> HIDE DEF new
<1>3. \A d \in Classes : InstancesOf(new, d) =
        IF d = c THEN InstancesOf(objs, d) \cup {o} ELSE InstancesOf(objs, d)
  BY <1>1, <1>2 DEF InstancesOf
<1>4. Holds(insts[c], InstancesOf(objs, c)) /\ o \notin InstancesOf(objs, c) /\ o \in Nat
  BY <1>1 DEF ClassesOK, InstancesOf, Objs
<1>5. Holds(<<o>> \o insts[c], InstancesOf(objs, c) \cup {o})
  BY <1>4, Pushed
<1>6. Len(<<o>> \o insts[c]) = count[c] + 1
  BY <1>4 DEF ClassesOK, Holds
<1>7. QED
  BY <1>3, <1>5, <1>6 DEF ClassesOK, new

Created(s, s2, c) ==
  \E o \in Objs :
    /\ s.objs[o] = Free /\ s2.ret = o /\ s2.objs = [s.objs EXCEPT ![o] = NewObj(c)]
    /\ s2.refs = s.refs /\ s2.elems = s.elems
    /\ s2.lists = s.lists /\ s2.failure = s.failure

CreateRight(s, s2, c, U) == BooksOK(s2, U) /\ (Refused(s, s2) \/ Created(s, s2, c))

LEMMA CreateKeeps ==
  ASSUME ObjectAssumption, NEW s, NEW U, BooksOK(s, U), NEW c \in Classes
  PROVE  CreateRight(s, ObjectCreate(s, c), c, U)
<1> DEFINE s2 == ObjectCreate(s, c)
<1>0. s \in State
  BY DEF BooksOK
<1>1. CASE NoMemory(s, s.objs)
  <2>1. s2 = Returns(s, NULL) /\ s2 \in State
    BY <1>0, <1>1, StateSame DEF ObjectCreate, NULL
  <2>2. s2.ret = NULL /\ SameBooks(s, s2) /\ s2.insts = s.insts /\ s2.count = s.count
    BY <1>0, <2>1 DEF SameBooks, Returns, State
  <2> HIDE DEF s2
  <2>3. QED
    BY <2>1, <2>2, BooksSame DEF CreateRight, Refused, SameBooks, s2
<1>2. CASE ~NoMemory(s, s.objs)
  <2> DEFINE o == Slot(s.objs)
  <2>1. DOMAIN s.objs = Objs /\ Objs \subseteq Nat
    BY <1>0 DEF State, Objs
  <2>2. o \in Objs /\ s.objs[o] = Free /\ s.mem - 1 \in Nat
    <3>1. s.mem # 0 /\ Live(s.objs) # DOMAIN s.objs
      BY <1>2 DEF NoMemory
    <3>2. s.mem \in Nat
      BY <1>0 DEF State
    <3>3. Slot(s.objs) \in DOMAIN s.objs /\ s.objs[Slot(s.objs)] = Free
      BY <2>1, <3>1, SlotIs
    <3>4. QED
      BY <2>1, <3>1, <3>2, <3>3
  <2> HIDE DEF o
  <2>3. s2 = [s EXCEPT !.mem = @ - 1, !.ret = o, !.objs[o] = NewObj(c),
                !.insts[c] = <<o>> \o @, !.count[c] = @ + 1]
    BY <1>2 DEF ObjectCreate, NewObj, o
  <2>4. /\ s2.objs = [s.objs EXCEPT ![o] = NewObj(c)]
        /\ s2.insts = [s.insts EXCEPT ![c] = <<o>> \o @]
        /\ s2.count = [s.count EXCEPT ![c] = @ + 1]
        /\ s2.mem = s.mem - 1 /\ s2.ret = o
        /\ s2.refs = s.refs /\ s2.elems = s.elems /\ s2.lists = s.lists
        /\ s2.failure = s.failure
    BY <1>0, <2>3 DEF State
  <2>5. s2 \in State
    <3>1. /\ [s.objs EXCEPT ![o] = NewObj(c)] \in [Objs -> Obj \cup {Free}]
          /\ [s.insts EXCEPT ![c] = <<o>> \o @] \in [Classes -> Seq(Nat)]
          /\ [s.count EXCEPT ![c] = @ + 1] \in [Classes -> Nat]
      BY <1>0, <2>1, <2>2, NewObjIs DEF State
    <3>2. QED
      BY <1>0, <2>1, <2>2, <2>3, <3>1 DEF State
  <2> HIDE DEF s2
  <2>6. ObjectsOK(s2.objs, s2.refs) /\ ClassesOK(s2.objs, s2.insts, s2.count)
    <3>1. ObjectsOK(s.objs, s.refs) /\ ClassesOK(s.objs, s.insts, s.count)
      BY DEF BooksOK
    <3>2. /\ s.objs \in [Objs -> Obj \cup {Free}] /\ s.insts \in [Classes -> Seq(Nat)]
          /\ s.count \in [Classes -> Nat]
      BY <1>0 DEF State
    <3>3. ObjectsOK([s.objs EXCEPT ![o] = NewObj(c)], s.refs)
      BY <2>2, <3>1, <3>2, ObjectsMore
    <3>4. ClassesOK([s.objs EXCEPT ![o] = NewObj(c)], [s.insts EXCEPT ![c] = <<o>> \o @],
                    [s.count EXCEPT ![c] = @ + 1])
      BY <2>2, <3>1, <3>2, ClassesMore
    <3>5. QED
      BY <2>4, <3>3, <3>4
  <2>7. BooksOK(s2, U)
    BY <2>4, <2>5, <2>6 DEF BooksOK
  <2>8. Created(s, s2, c)
    BY <2>2, <2>4 DEF Created
  <2>9. QED
    BY <2>7, <2>8 DEF CreateRight, s2
<1>3. QED
  BY <1>1, <1>2

-----------------------------------------------------------------------------
(* References are opened.                                                   *)

NewRef(o, who) == [owner |-> who, object |-> o, element |-> NULL]

LEMMA NewRefIs ==
  ASSUME NEW o \in Objs, NEW who \in Tasks
  PROVE  /\ NewRef(o, who) \in Ref /\ NewRef(o, who) # Free
         /\ NewRef(o, who).object = o /\ NewRef(o, who).owner = who
<1>1. NewRef(o, who) \in Ref /\ NewRef(o, who).object = o /\ NewRef(o, who).owner = who
  BY DEF NewRef, Ref
<1>2. QED
  BY <1>1, NotFree

OpenedAs(new, object, r, who) ==
  /\ new \in Obj /\ new # Free /\ new.class = object.class
  /\ new.count = object.count + 1 /\ new.refs = <<r>> \o object.refs
  /\ new.told = [object.told EXCEPT ![who] = @ + 1]

LEMMA OpenedIs ==
  ASSUME NEW object \in Obj, NEW r \in Nat, NEW who \in Tasks
  PROVE  OpenedAs(Opened(object, r, who), object, r, who)
<1> DEFINE new == Opened(object, r, who)
           told == [object.told EXCEPT ![who] = @ + 1]
           a == [object EXCEPT !.count = @ + 1]
           b == [a EXCEPT !.told = told]
<1>1. /\ object.class \in Classes /\ object.count + 1 \in Nat /\ object.refs \in Seq(Nat)
      /\ object.told \in [Tasks -> Nat] /\ object.count \in Nat
  BY DEF Obj
<1>2. /\ a \in Obj /\ a.class = object.class /\ a.count = object.count + 1
      /\ a.refs = object.refs /\ a.told = object.told
  BY <1>1 DEF Obj
<1>3. told \in [Tasks -> Nat] /\ <<r>> \o object.refs \in Seq(Nat)
  BY <1>1
<1>4. new = [b EXCEPT !.refs = <<r>> \o object.refs]
  <2>1. new = [object EXCEPT !.count = object.count + 1, !.told[who] = object.told[who] + 1,
                 !.refs = <<r>> \o object.refs]
    BY DEF Opened
  <2>2. a.told = object.told
    BY <1>2
  <2>3. b = [a EXCEPT !.told[who] = object.told[who] + 1]
    BY <2>2
  <2> HIDE DEF b
  <2>4. QED
    BY <2>1, <2>3
<1> HIDE DEF a, new, told
<1>5. /\ b \in Obj /\ b.class = object.class /\ b.count = object.count + 1
      /\ b.refs = object.refs /\ b.told = told
  BY <1>2, <1>3 DEF Obj
<1> HIDE DEF b
<1>6. /\ new \in Obj /\ new.class = object.class /\ new.count = object.count + 1
      /\ new.refs = <<r>> \o object.refs /\ new.told = told
  BY <1>3, <1>4, <1>5 DEF Obj
<1>7. QED
  BY <1>6, NotFree DEF OpenedAs, new, told

\* A change to objects that leaves their classes and which are alive.
LEMMA ClassesSame ==
  ASSUME NEW objs, NEW new, NEW insts, NEW count, ClassesOK(objs, insts, count),
         Live(new) = Live(objs), \A o \in Live(objs) : new[o].class = objs[o].class
  PROVE  ClassesOK(new, insts, count)
<1>1. \A c \in Classes : InstancesOf(new, c) = InstancesOf(objs, c)
  BY DEF InstancesOf
<1>2. QED
  BY <1>1 DEF ClassesOK

\* References that lists have stay as they are.
LEMMA ElemsSame ==
  ASSUME NEW U, NEW elems, NEW refs, NEW new, ElemsOK(U, elems, refs),
         \A e \in U :
           /\ elems[e].ref \in Live(new)
           /\ new[elems[e].ref].element = refs[elems[e].ref].element
  PROVE  ElemsOK(U, elems, new)
BY DEF ElemsOK, ElemOK

RefMore(refs, new, r, o, who) ==
  /\ Live(new) = Live(refs) \cup {r} /\ r \notin Live(refs)
  /\ \A q \in Live(refs) : new[q] = refs[q]
  /\ \A p : OpenRefs(new, p) = IF p = o THEN OpenRefs(refs, p) \cup {r} ELSE OpenRefs(refs, p)
  /\ \A p : \A t \in Tasks : Cardinality(Seen(new, p, t)) =
       IF p = o /\ t = who THEN Cardinality(Seen(refs, p, t)) + 1
       ELSE Cardinality(Seen(refs, p, t))

LEMMA SeenMore ==
  ASSUME ObjectAssumption, NEW refs \in [Refs -> Ref \cup {Free}], NEW r \in Refs, refs[r] = Free,
         NEW o \in Objs, NEW who \in Tasks, NEW new, new = [refs EXCEPT ![r] = NewRef(o, who)]
  PROVE  RefMore(refs, new, r, o, who)
<1>1. Live(new) = Live(refs) \cup {r} /\ r \notin Live(refs)
  BY NewRefIs, LiveMore, LiveIs
<1>2. new[r].object = o /\ new[r].owner = who /\ \A q \in Live(refs) : new[q] = refs[q]
  BY <1>1, NewRefIs, LiveIs
<1>3. \A p : OpenRefs(new, p) = IF p = o THEN OpenRefs(refs, p) \cup {r} ELSE OpenRefs(refs, p)
  BY <1>1, <1>2 DEF OpenRefs
<1>4. ASSUME NEW p, NEW t \in Tasks
      PROVE  Cardinality(Seen(new, p, t)) =
               IF p = o /\ t = who THEN Cardinality(Seen(refs, p, t)) + 1
               ELSE Cardinality(Seen(refs, p, t))
  <2>1. Seen(new, p, t) = IF p = o /\ t = who THEN Seen(refs, p, t) \cup {r} ELSE Seen(refs, p, t)
    BY <1>1, <1>2 DEF OpenRefs, Seen
  <2>2. IsFiniteSet(Seen(refs, p, t)) /\ r \notin Seen(refs, p, t)
    <3>1. IsFiniteSet(Seen(refs, p, t))
      BY SeenFinite
    <3>2. r \notin Seen(refs, p, t)
      BY <1>1 DEF Seen, OpenRefs
    <3>3. QED
      BY <3>1, <3>2
  <2>3. Cardinality(Seen(refs, p, t) \cup {r}) = Cardinality(Seen(refs, p, t)) + 1
    BY <2>2, FS_AddElement
  <2>4. QED
    BY <2>1, <2>3
<1>5. QED
  BY <1>1, <1>2, <1>3, <1>4 DEF RefMore

LEMMA ObjectsOpened ==
  ASSUME ObjectAssumption, NEW objs \in [Objs -> Obj \cup {Free}],
         NEW refs \in [Refs -> Ref \cup {Free}], ObjectsOK(objs, refs),
         NEW r \in Refs, refs[r] = Free, NEW o \in Objs, objs[o] # Free, NEW who \in Tasks
  PROVE  /\ ObjectsOK([objs EXCEPT ![o] = Opened(@, r, who)], [refs EXCEPT ![r] = NewRef(o, who)])
         /\ [objs EXCEPT ![o] = Opened(@, r, who)] \in [Objs -> Obj \cup {Free}]
         /\ Live([objs EXCEPT ![o] = Opened(@, r, who)]) = Live(objs)
         /\ [refs EXCEPT ![r] = NewRef(o, who)] \in [Refs -> Ref \cup {Free}]
<1> DEFINE new == [objs EXCEPT ![o] = Opened(@, r, who)]
           refs2 == [refs EXCEPT ![r] = NewRef(o, who)]
<1>1. objs[o] \in Obj /\ r \in Nat
  BY DEF Refs
<1>2. /\ new[o] \in Obj /\ new[o] # Free /\ new[o].count = objs[o].count + 1
      /\ new[o].refs = <<r>> \o objs[o].refs
      /\ new[o].told = [objs[o].told EXCEPT ![who] = @ + 1]
  <2>1. new[o] = Opened(objs[o], r, who)
    OBVIOUS
  <2> HIDE DEF new
  <2>2. OpenedAs(new[o], objs[o], r, who)
    BY <1>1, <2>1, OpenedIs
  <2>3. QED
    BY <2>2 DEF OpenedAs
<1>3. \A p \in Objs : p # o => new[p] = objs[p]
  OBVIOUS
<1>4. new \in [Objs -> Obj \cup {Free}] /\ refs2 \in [Refs -> Ref \cup {Free}]
  <2>1. refs2 \in [Refs -> Ref \cup {Free}]
    BY NewRefIs
  <2>2. QED
    BY <1>2, <2>1
<1>5. Live(new) = Live(objs)
  BY <1>2, <1>3, <1>4 DEF Live
<1>6. refs2 = [refs EXCEPT ![r] = NewRef(o, who)] /\ refs2[r].object = o
  BY NewRefIs
<1> HIDE DEF new, refs2
<1>7. /\ Live(refs2) = Live(refs) \cup {r} /\ r \notin Live(refs)
      /\ \A q \in Live(refs) : refs2[q] = refs[q]
      /\ \A p : OpenRefs(refs2, p) = IF p = o THEN OpenRefs(refs, p) \cup {r} ELSE OpenRefs(refs, p)
      /\ \A p : \A t \in Tasks : Cardinality(Seen(refs2, p, t)) =
           IF p = o /\ t = who THEN Cardinality(Seen(refs, p, t)) + 1
           ELSE Cardinality(Seen(refs, p, t))
  <2>1. RefMore(refs, refs2, r, o, who)
    BY <1>6, SeenMore
  <2>2. QED
    BY <2>1 DEF RefMore
<1>8. \A q \in Live(refs2) : new[refs2[q].object] # Free
  <2>1. \A q \in Live(refs) : objs[refs[q].object] # Free
    BY DEF ObjectsOK
  <2>2. \A q \in Live(refs) : refs[q].object \in Objs
    BY LiveIs DEF Ref
  <2>3. QED
    BY <1>2, <1>3, <1>6, <1>7, <2>1, <2>2
<1>9. ASSUME NEW p \in Live(objs)  PROVE  ObjOK(new[p], refs2, p)
  <2>1. ObjOK(objs[p], refs, p) /\ p \in Objs /\ objs[p] \in Obj
    BY LiveIs DEF ObjectsOK
  <2>2. CASE p # o
    BY <1>3, <1>7, <2>1, <2>2 DEF ObjOK
  <2>3. CASE p = o
    <3>1. Holds(objs[o].refs, OpenRefs(refs, o)) /\ r \notin OpenRefs(refs, o)
      BY <1>7, <2>1, <2>3 DEF ObjOK, OpenRefs
    <3>2. Holds(new[o].refs, OpenRefs(refs2, o))
      BY <1>1, <1>2, <1>7, <3>1, Pushed
    <3>3. new[o].count = Len(new[o].refs)
      <4>1. Len(<<r>> \o objs[o].refs) = Len(objs[o].refs) + 1
        BY <3>1 DEF Holds
      <4>2. QED
        BY <1>2, <2>1, <2>3, <4>1 DEF ObjOK
    <3>4. \A t \in Tasks : new[o].told[t] = Cardinality(Seen(refs2, o, t))
      <4>1. \A t \in Tasks : objs[o].told[t] = Cardinality(Seen(refs, o, t))
        BY <2>1, <2>3 DEF ObjOK
      <4>2. objs[o].told \in [Tasks -> Nat]
        BY <1>1 DEF Obj
      <4>3. \A t \in Tasks : new[o].told[t] = IF t = who THEN objs[o].told[t] + 1 ELSE objs[o].told[t]
        BY <1>2, <4>2
      <4>4. QED
        BY <1>7, <4>1, <4>3
    <3>5. QED
      BY <2>3, <3>2, <3>3, <3>4 DEF ObjOK
  <2>4. QED
    BY <2>2, <2>3
<1>10. ObjectsOK(new, refs2)
  BY <1>5, <1>8, <1>9 DEF ObjectsOK
<1>11. QED
  BY <1>4, <1>5, <1>10 DEF new, refs2

OpenedTo(s, s2, o, who) ==
  \E r \in Refs :
    /\ s.refs[r] = Free /\ s2.ret = r
    /\ s2.refs = [s.refs EXCEPT ![r] = NewRef(o, who)]
    /\ s2.objs = [s.objs EXCEPT ![o] = Opened(@, r, who)]
    /\ s2.elems = s.elems /\ s2.lists = s.lists /\ s2.failure = s.failure

OpenRight(s, s2, o, who, U) == BooksOK(s2, U) /\ (Refused(s, s2) \/ OpenedTo(s, s2, o, who))

LEMMA OpenKeeps ==
  ASSUME ObjectAssumption, NEW s, NEW U, BooksOK(s, U),
         NEW o \in Objs, s.objs[o] # Free, NEW who \in Tasks
  PROVE  OpenRight(s, ObjectOpen(s, o, who), o, who, U)
<1> DEFINE s2 == ObjectOpen(s, o, who)
<1>0. s \in State
  BY DEF BooksOK
<1>1. CASE NoMemory(s, s.refs)
  <2>1. s2 = Returns(s, NULL) /\ s2 \in State
    BY <1>0, <1>1, StateSame DEF ObjectOpen, NULL
  <2>2. s2.ret = NULL /\ SameBooks(s, s2) /\ s2.insts = s.insts /\ s2.count = s.count
    BY <1>0, <2>1 DEF SameBooks, Returns, State
  <2> HIDE DEF s2
  <2>3. QED
    BY <2>1, <2>2, BooksSame DEF OpenRight, Refused, SameBooks, s2
<1>2. CASE ~NoMemory(s, s.refs)
  <2> DEFINE r == Slot(s.refs)
  <2>1. DOMAIN s.refs = Refs /\ Refs \subseteq Nat
    BY <1>0 DEF State, Refs
  <2>2. r \in Refs /\ s.refs[r] = Free /\ s.mem - 1 \in Nat
    <3>1. s.mem # 0 /\ Live(s.refs) # DOMAIN s.refs
      BY <1>2 DEF NoMemory
    <3>2. s.mem \in Nat
      BY <1>0 DEF State
    <3>3. Slot(s.refs) \in DOMAIN s.refs /\ s.refs[Slot(s.refs)] = Free
      BY <2>1, <3>1, SlotIs
    <3>4. QED
      BY <2>1, <3>1, <3>2, <3>3
  <2> HIDE DEF r
  <2>3. s2 = [s EXCEPT !.mem = @ - 1, !.ret = r, !.refs[r] = NewRef(o, who),
                !.objs[o] = Opened(@, r, who)]
    BY <1>2 DEF ObjectOpen, NewRef, r
  <2>4. /\ s2.objs = [s.objs EXCEPT ![o] = Opened(@, r, who)]
        /\ s2.refs = [s.refs EXCEPT ![r] = NewRef(o, who)]
        /\ s2.mem = s.mem - 1 /\ s2.ret = r
        /\ s2.insts = s.insts /\ s2.count = s.count
        /\ s2.elems = s.elems /\ s2.lists = s.lists /\ s2.failure = s.failure
    BY <1>0, <2>3 DEF State
  <2>5. /\ s.objs \in [Objs -> Obj \cup {Free}] /\ s.refs \in [Refs -> Ref \cup {Free}]
        /\ ObjectsOK(s.objs, s.refs) /\ ClassesOK(s.objs, s.insts, s.count)
        /\ ElemsOK(U, s.elems, s.refs)
    BY <1>0 DEF BooksOK, State
  <2>6. /\ ObjectsOK([s.objs EXCEPT ![o] = Opened(@, r, who)], [s.refs EXCEPT ![r] = NewRef(o, who)])
        /\ [s.objs EXCEPT ![o] = Opened(@, r, who)] \in [Objs -> Obj \cup {Free}]
        /\ Live([s.objs EXCEPT ![o] = Opened(@, r, who)]) = Live(s.objs)
        /\ [s.refs EXCEPT ![r] = NewRef(o, who)] \in [Refs -> Ref \cup {Free}]
    BY <2>2, <2>5, ObjectsOpened
  <2>7. s2 \in State
    BY <1>0, <2>1, <2>2, <2>3, <2>6 DEF State
  <2> HIDE DEF s2
  <2>8. ClassesOK(s2.objs, s2.insts, s2.count)
    <3>1. \A p \in Live(s.objs) : s2.objs[p].class = s.objs[p].class
      <4>1. s.objs[o] \in Obj /\ r \in Nat
        BY <2>1, <2>2, <2>5
      <4>2. s2.objs[o].class = s.objs[o].class
        <5>1. s2.objs[o] = Opened(s.objs[o], r, who)
          BY <2>4, <2>5
        <5>2. QED
          <6>1. OpenedAs(s2.objs[o], s.objs[o], r, who)
            BY <4>1, <5>1, OpenedIs
          <6>2. QED
            BY <6>1 DEF OpenedAs
      <4>3. \A p \in Objs : p # o => s2.objs[p] = s.objs[p]
        BY <2>4, <2>5
      <4>4. QED
        BY <2>5, <4>2, <4>3, LiveIs
    <3>2. Live(s2.objs) = Live(s.objs)
      BY <2>4, <2>6
    <3>3. ClassesOK(s2.objs, s.insts, s.count)
      BY <2>5, <3>1, <3>2, ClassesSame
    <3>4. QED
      BY <2>4, <3>3
  <2>9. ElemsOK(U, s2.elems, s2.refs)
    <3>1. RefMore(s.refs, s2.refs, r, o, who)
      BY <2>2, <2>4, <2>5, SeenMore
    <3>2. \A e \in U : s.elems[e].ref \in Live(s.refs)
      BY <2>5 DEF ElemsOK, ElemOK
    <3>3. \A e \in U :
            /\ s.elems[e].ref \in Live(s2.refs)
            /\ s2.refs[s.elems[e].ref].element = s.refs[s.elems[e].ref].element
      BY <3>1, <3>2 DEF RefMore
    <3>4. ElemsOK(U, s.elems, s2.refs)
      BY <2>5, <3>3, ElemsSame
    <3>5. QED
      BY <2>4, <3>4
  <2>10. BooksOK(s2, U)
    BY <2>4, <2>6, <2>7, <2>8, <2>9 DEF BooksOK
  <2>11. OpenedTo(s, s2, o, who)
    BY <2>2, <2>4 DEF OpenedTo
  <2>12. QED
    BY <2>10, <2>11 DEF OpenRight, s2
<1>3. QED
  BY <1>1, <1>2

-----------------------------------------------------------------------------
(* Objects are destroyed and references closed.                             *)

LEMMA ObjectsLess ==
  ASSUME NEW objs \in [Objs -> Obj \cup {Free}], NEW refs, ObjectsOK(objs, refs),
         NEW o \in Objs, OpenRefs(refs, o) = {}
  PROVE  ObjectsOK([objs EXCEPT ![o] = Free], refs)
<1> DEFINE new == [objs EXCEPT ![o] = Free]
<1>1. \A p \in Objs : p # o => new[p] = objs[p]
  OBVIOUS
<1>2. Live(new) = Live(objs) \ {o}
  BY LiveLess
<1> HIDE DEF new
<1>3. \A r \in Live(refs) : new[refs[r].object] # Free
  <2> SUFFICES ASSUME NEW r \in Live(refs) PROVE new[refs[r].object] # Free
    OBVIOUS
  <2>1. refs[r].object # o /\ objs[refs[r].object] # Free
    BY DEF ObjectsOK, OpenRefs
  <2>2. QED
    BY <2>1 DEF new
<1>4. \A p \in Live(new) : ObjOK(new[p], refs, p)
  BY <1>1, <1>2, LiveIs DEF ObjectsOK
<1>5. QED
  BY <1>3, <1>4 DEF ObjectsOK, new

LEMMA ClassesLess ==
  ASSUME NEW objs \in [Objs -> Obj \cup {Free}], NEW insts \in [Classes -> Seq(Nat)],
         NEW count \in [Classes -> Nat], ClassesOK(objs, insts, count),
         NEW o \in Objs, objs[o] # Free, NEW c, c = objs[o].class
  PROVE  /\ c \in Classes /\ count[c] # 0 /\ RemoveFirst(insts[c], o) \in Seq(Nat)
         /\ ClassesOK([objs EXCEPT ![o] = Free], [insts EXCEPT ![c] = RemoveFirst(@, o)],
                      [count EXCEPT ![c] = @ - 1])
<1> DEFINE new == [objs EXCEPT ![o] = Free]
           I == InstancesOf(objs, c)
<1>1. objs[o] \in Obj
  OBVIOUS
<1>2. c \in Classes /\ o \in Nat
  BY <1>1 DEF Obj, Objs
<1>3. Live(new) = Live(objs) \ {o} /\ o \in Live(objs)
  BY LiveLess, LiveIs
<1>4. \A p \in Objs : p # o => new[p] = objs[p]
  OBVIOUS
<1> HIDE DEF new
<1>5. \A d \in Classes : InstancesOf(new, d) = IF d = c THEN InstancesOf(objs, d) \ {o} ELSE InstancesOf(objs, d)
  BY <1>3, <1>4, LiveIs DEF InstancesOf
<1>6. Holds(insts[c], I) /\ count[c] = Len(insts[c]) /\ o \in I
  BY <1>2, <1>3 DEF ClassesOK, InstancesOf
<1> HIDE DEF I
<1>7. Holds(RemoveFirst(insts[c], o), I \ {o})
  BY <1>2, <1>6, Removed
<1>8. Len(RemoveFirst(insts[c], o)) = count[c] - 1 /\ count[c] # 0
  <2>1. IsFiniteSet(I) /\ Cardinality(I) = count[c] /\ Cardinality(I) \in Nat
    BY <1>6, HoldsCard, FS_CardinalityType
  <2>2. Cardinality(I \ {o}) = Cardinality(I) - 1 /\ IsFiniteSet(I \ {o})
    BY <1>6, <2>1, FS_RemoveElement
  <2>3. Cardinality(I \ {o}) \in Nat
    BY <2>2, FS_CardinalityType
  <2>4. Cardinality(I \ {o}) = Len(RemoveFirst(insts[c], o))
    BY <1>7, HoldsCard
  <2>5. QED
    BY <2>1, <2>2, <2>3, <2>4
<1>9. RemoveFirst(insts[c], o) \in Seq(Nat)
  BY <1>7 DEF Holds
<1> DEFINE insts2 == [insts EXCEPT ![c] = RemoveFirst(@, o)]
           count2 == [count EXCEPT ![c] = @ - 1]
<1>10. /\ insts2[c] = RemoveFirst(insts[c], o) /\ count2[c] = count[c] - 1
       /\ \A d \in Classes : d # c => insts2[d] = insts[d] /\ count2[d] = count[d]
  BY <1>2
<1> HIDE DEF insts2, count2
<1>11. ASSUME NEW d \in Classes PROVE Holds(insts2[d], InstancesOf(new, d)) /\ count2[d] = Len(insts2[d])
  <2>1. CASE d = c
    BY <1>5, <1>7, <1>8, <1>10, <2>1 DEF I
  <2>2. CASE d # c
    BY <1>5, <1>10, <2>2 DEF ClassesOK
  <2>3. QED
    BY <2>1, <2>2
<1>12. ClassesOK(new, insts2, count2)
  BY <1>11 DEF ClassesOK
<1>13. QED
  BY <1>2, <1>8, <1>9, <1>12 DEF new, insts2, count2

DestroyRight(s, s2, o, U) ==
  /\ BooksOK(s2, U)
  /\ s2.refs = s.refs /\ s2.elems = s.elems /\ s2.lists = s.lists /\ s2.ret = s.ret
  /\ s2.objs = [s.objs EXCEPT ![o] = Free]
  /\ s2.failure = IF s.objs[o] = Free THEN "freed_twice" ELSE s.failure

LEMMA DestroyKeeps ==
  ASSUME NEW s, NEW U, BooksOK(s, U), NEW o \in Objs, OpenRefs(s.refs, o) = {}
  PROVE  DestroyRight(s, ObjectDestroy(s, o), o, U)
<1> DEFINE s2 == ObjectDestroy(s, o)
<1>0. s \in State
  BY DEF BooksOK
<1>1. CASE s.objs[o] = Free
  <2>1. s2 = Fails(s, "freed_twice") /\ s2 \in State
    BY <1>0, <1>1, StateSame DEF ObjectDestroy
  <2>2. /\ s2.objs = s.objs /\ s2.refs = s.refs /\ s2.elems = s.elems /\ s2.lists = s.lists
        /\ s2.ret = s.ret /\ s2.insts = s.insts /\ s2.count = s.count
        /\ s2.failure = "freed_twice"
    BY <1>0, <2>1 DEF Fails, State
  <2>3. s.objs = [s.objs EXCEPT ![o] = Free]
    BY <1>0, <1>1 DEF State
  <2> HIDE DEF s2
  <2>4. QED
    BY <1>1, <2>1, <2>2, <2>3, BooksSame DEF DestroyRight, s2
<1>2. CASE s.objs[o] # Free
  <2> DEFINE c == s.objs[o].class
  <2>1. /\ s.objs \in [Objs -> Obj \cup {Free}] /\ s.insts \in [Classes -> Seq(Nat)]
        /\ s.count \in [Classes -> Nat]
        /\ ObjectsOK(s.objs, s.refs) /\ ClassesOK(s.objs, s.insts, s.count)
        /\ ElemsOK(U, s.elems, s.refs)
    BY <1>0 DEF BooksOK, State
  <2>2. /\ c \in Classes /\ s.count[c] # 0 /\ RemoveFirst(s.insts[c], o) \in Seq(Nat)
        /\ ClassesOK([s.objs EXCEPT ![o] = Free], [s.insts EXCEPT ![c] = RemoveFirst(@, o)],
                     [s.count EXCEPT ![c] = @ - 1])
    BY <1>2, <2>1, ClassesLess
  <2>3. ObjectsOK([s.objs EXCEPT ![o] = Free], s.refs)
    BY <2>1, ObjectsLess
  <2> HIDE DEF c
  <2>4. s2 = [s EXCEPT !.insts[c] = RemoveFirst(@, o), !.count[c] = @ - 1, !.objs[o] = Free]
    BY <1>2, <2>2 DEF ObjectDestroy, c
  <2>5. /\ s2.objs = [s.objs EXCEPT ![o] = Free]
        /\ s2.insts = [s.insts EXCEPT ![c] = RemoveFirst(@, o)]
        /\ s2.count = [s.count EXCEPT ![c] = @ - 1]
        /\ s2.mem = s.mem /\ s2.ret = s.ret /\ s2.refs = s.refs
        /\ s2.elems = s.elems /\ s2.lists = s.lists /\ s2.failure = s.failure
    BY <1>0, <2>4 DEF State
  <2>6. s2 \in State
    <3>1. /\ [s.objs EXCEPT ![o] = Free] \in [Objs -> Obj \cup {Free}]
          /\ [s.insts EXCEPT ![c] = RemoveFirst(@, o)] \in [Classes -> Seq(Nat)]
          /\ [s.count EXCEPT ![c] = @ - 1] \in [Classes -> Nat]
      BY <2>1, <2>2
    <3>2. QED
      BY <1>0, <2>4, <3>1 DEF State
  <2> HIDE DEF s2
  <2>7. BooksOK(s2, U)
    BY <2>1, <2>2, <2>3, <2>5, <2>6 DEF BooksOK
  <2>8. QED
    BY <1>2, <2>5, <2>7 DEF DestroyRight, s2
<1>3. QED
  BY <1>1, <1>2

ClosedAs(new, object, r, who) ==
  /\ new.class = object.class /\ new.count = object.count - 1
  /\ new.refs = RemoveFirst(object.refs, r)
  /\ new.told = [object.told EXCEPT ![who] = @ - 1]
  /\ (object.count # 0 /\ object.told[who] # 0 /\ new.refs \in Seq(Nat) => new \in Obj /\ new # Free)

LEMMA ClosedIs ==
  ASSUME NEW object \in Obj, NEW r \in Nat, NEW who \in Tasks
  PROVE  ClosedAs(Closed(object, r, who), object, r, who)
<1> DEFINE new == Closed(object, r, who)
           told == [object.told EXCEPT ![who] = @ - 1]
           left == RemoveFirst(object.refs, r)
           a == [object EXCEPT !.count = @ - 1]
           b == [a EXCEPT !.told = told]
<1>1. /\ object.class \in Classes /\ object.refs \in Seq(Nat)
      /\ object.told \in [Tasks -> Nat] /\ object.count \in Nat
  BY DEF Obj
<1>2. /\ a \in [class : Classes, count : Int, refs : Seq(Nat), told : [Tasks -> Nat]]
      /\ a.class = object.class /\ a.count = object.count - 1
      /\ a.refs = object.refs /\ a.told = object.told
  BY <1>1 DEF Obj
<1>3. told \in [Tasks -> Int] /\ (object.told[who] # 0 => told \in [Tasks -> Nat])
  BY <1>1
<1>4. new = [b EXCEPT !.refs = left]
  <2>1. new = [object EXCEPT !.count = object.count - 1, !.told[who] = object.told[who] - 1,
                 !.refs = left]
    BY DEF Closed
  <2>2. a.told = object.told
    BY <1>2
  <2>3. b = [a EXCEPT !.told[who] = object.told[who] - 1]
    BY <2>2
  <2> HIDE DEF b
  <2>4. QED
    BY <2>1, <2>3
<1> HIDE DEF a, new, told, left
<1>5. /\ b \in [class : Classes, count : Int, refs : Seq(Nat), told : [Tasks -> Int]]
      /\ b.class = object.class /\ b.count = object.count - 1
      /\ b.refs = object.refs /\ b.told = told
  BY <1>2, <1>3
<1> HIDE DEF b
<1>6. /\ new.class = object.class /\ new.count = object.count - 1
      /\ new.refs = left /\ new.told = told
      /\ new = [class |-> new.class, count |-> new.count, refs |-> new.refs, told |-> new.told]
  BY <1>4, <1>5
<1>7. ASSUME object.count # 0, object.told[who] # 0, new.refs \in Seq(Nat)
      PROVE  new \in Obj /\ new # Free
  <2>1. /\ new.class \in Classes /\ new.count \in Nat /\ new.refs \in Seq(Nat)
        /\ new.told \in [Tasks -> Nat]
    BY <1>1, <1>3, <1>6, <1>7
  <2>2. new \in Obj
    BY <1>6, <2>1 DEF Obj
  <2>3. QED
    BY <2>2, NotFree
<1>8. QED
  BY <1>6, <1>7 DEF ClosedAs, new, told, left

RefLess(refs, new, r, o, who) ==
  /\ Live(new) = Live(refs) \ {r}
  /\ \A q \in Live(new) : new[q] = refs[q]
  /\ \A p : OpenRefs(new, p) = OpenRefs(refs, p) \ {r}
  /\ r \in OpenRefs(refs, o) /\ \A p : p # o => r \notin OpenRefs(refs, p)
  /\ \A p : \A t \in Tasks : Cardinality(Seen(new, p, t)) =
       IF p = o /\ t = who THEN Cardinality(Seen(refs, p, t)) - 1
       ELSE Cardinality(Seen(refs, p, t))
  /\ Cardinality(Seen(refs, o, who)) # 0

LEMMA SeenLess ==
  ASSUME ObjectAssumption, NEW refs \in [Refs -> Ref \cup {Free}], NEW r \in Live(refs),
         NEW new, new = [refs EXCEPT ![r] = Free]
  PROVE  RefLess(refs, new, r, refs[r].object, refs[r].owner)
<1> DEFINE o == refs[r].object
           who == refs[r].owner
<1>1. Live(new) = Live(refs) \ {r} /\ r \in Refs
  BY LiveLess, LiveIs
<1>2. \A q \in Live(new) : new[q] = refs[q]
  BY <1>1, LiveIs
<1>3. \A p : OpenRefs(new, p) = OpenRefs(refs, p) \ {r}
  BY <1>1, <1>2 DEF OpenRefs
<1>4. r \in OpenRefs(refs, o) /\ \A p : p # o => r \notin OpenRefs(refs, p)
  BY DEF OpenRefs
<1>5. ASSUME NEW p, NEW t
      PROVE  /\ IsFiniteSet(Seen(refs, p, t)) /\ Cardinality(Seen(refs, p, t)) \in Nat
             /\ Seen(new, p, t) = Seen(refs, p, t) \ {r}
             /\ r \in Seen(refs, p, t) <=> p = o /\ t = who
             /\ Cardinality(Seen(new, p, t)) = IF p = o /\ t = who THEN Cardinality(Seen(refs, p, t)) - 1
                                               ELSE Cardinality(Seen(refs, p, t))
  <2>1. IsFiniteSet(Seen(refs, p, t))
    BY SeenFinite
  <2>2. Cardinality(Seen(refs, p, t)) \in Nat
    BY <2>1, FS_CardinalityType
  <2>3. Seen(new, p, t) = Seen(refs, p, t) \ {r}
    BY <1>1, <1>2, <1>3 DEF Seen, OpenRefs
  <2>4. r \in Seen(refs, p, t) <=> p = o /\ t = who
    BY DEF Seen, OpenRefs
  <2>5. CASE r \in Seen(refs, p, t)
    <3>1. Cardinality(Seen(refs, p, t) \ {r}) = Cardinality(Seen(refs, p, t)) - 1
      BY <2>1, <2>5, FS_RemoveElement
    <3>2. QED
      BY <2>1, <2>2, <2>3, <2>4, <2>5, <3>1
  <2>6. CASE r \notin Seen(refs, p, t)
    <3>1. Seen(new, p, t) = Seen(refs, p, t)
      BY <2>3, <2>6
    <3>2. QED
      BY <2>1, <2>2, <2>4, <2>6, <3>1
  <2>7. QED
    BY <2>1, <2>2, <2>3, <2>4, <2>5, <2>6
<1>6. Cardinality(Seen(refs, o, who)) # 0
  <2>1. r \in Seen(refs, o, who) /\ IsFiniteSet(Seen(refs, o, who))
    BY <1>5
  <2>2. QED
    BY <2>1, FS_EmptySet
<1>7. \A p : \A t \in Tasks : Cardinality(Seen(new, p, t)) =
        IF p = o /\ t = who THEN Cardinality(Seen(refs, p, t)) - 1
        ELSE Cardinality(Seen(refs, p, t))
  BY <1>5
<1>8. QED
  BY <1>1, <1>2, <1>3, <1>4, <1>6, <1>7 DEF RefLess

ObjectClosed(objs, refs, r, objs2, refs2, o, who) ==
  /\ ObjectsOK(objs2, refs2) /\ objs2 \in [Objs -> Obj \cup {Free}]
  /\ refs2 \in [Refs -> Ref \cup {Free}]
  /\ Live(objs2) = Live(objs) /\ \A p \in Objs : p # o => objs2[p] = objs[p]
  /\ o \in Objs /\ objs[o] # Free /\ objs2[o].class = objs[o].class
  /\ objs2[o].count = 0 => objs[o].refs[1] = r /\ OpenRefs(refs2, o) = {}
  /\ objs2[o].count = 0 <=> objs2[o].refs = <<>>

LEMMA ObjectsClosed ==
  ASSUME ObjectAssumption, NEW objs \in [Objs -> Obj \cup {Free}],
         NEW refs \in [Refs -> Ref \cup {Free}], ObjectsOK(objs, refs), NEW r \in Live(refs),
         NEW o, o = refs[r].object, NEW who, who = refs[r].owner,
         NEW objs2, objs2 = [objs EXCEPT ![o] = Closed(@, r, who)],
         NEW refs2, refs2 = [refs EXCEPT ![r] = Free]
  PROVE  ObjectClosed(objs, refs, r, objs2, refs2, o, who)
<1>1. r \in Refs /\ refs[r] \in Ref /\ objs[o] # Free
  BY LiveIs DEF ObjectsOK
<1>2. o \in Objs /\ who \in Tasks /\ r \in Nat
  BY <1>1 DEF Ref, Refs
<1>3. objs[o] \in Obj /\ o \in Live(objs)
  BY <1>1, <1>2, LiveIs
<1>4. RefLess(refs, refs2, r, o, who)
  BY SeenLess
<1>a. Live(refs2) = Live(refs) \ {r} /\ \A q \in Live(refs2) : refs2[q] = refs[q]
  BY <1>4 DEF RefLess
<1>b. /\ OpenRefs(refs2, o) = OpenRefs(refs, o) \ {r} /\ r \in OpenRefs(refs, o)
      /\ Cardinality(Seen(refs, o, who)) # 0
  BY <1>4 DEF RefLess
<1>c. \A t \in Tasks : Cardinality(Seen(refs2, o, t)) =
        IF t = who THEN Cardinality(Seen(refs, o, t)) - 1 ELSE Cardinality(Seen(refs, o, t))
  BY <1>4 DEF RefLess
<1>d. \A p : p # o => OpenRefs(refs2, p) = OpenRefs(refs, p)
  <2> SUFFICES ASSUME NEW p, p # o PROVE OpenRefs(refs2, p) = OpenRefs(refs, p)
    OBVIOUS
  <2>1. OpenRefs(refs2, p) = OpenRefs(refs, p) \ {r} /\ r \notin OpenRefs(refs, p)
    BY <1>4 DEF RefLess
  <2>2. QED
    BY <2>1
<1>e. \A p : \A t \in Tasks : p # o => Cardinality(Seen(refs2, p, t)) = Cardinality(Seen(refs, p, t))
  BY <1>4 DEF RefLess
<1>5. /\ Holds(objs[o].refs, OpenRefs(refs, o)) /\ objs[o].count = Len(objs[o].refs)
      /\ \A t \in Tasks : objs[o].told[t] = Cardinality(Seen(refs, o, t))
  BY <1>3 DEF ObjectsOK, ObjOK
<1>6. objs2[o] = Closed(objs[o], r, who) /\ \A p \in Objs : p # o => objs2[p] = objs[p]
  BY <1>2
<1>7. /\ objs2[o].class = objs[o].class /\ objs2[o].count = objs[o].count - 1
      /\ objs2[o].refs = RemoveFirst(objs[o].refs, r)
      /\ objs2[o].told = [objs[o].told EXCEPT ![who] = @ - 1]
      /\ (objs[o].count # 0 /\ objs[o].told[who] # 0 /\ objs2[o].refs \in Seq(Nat)
            => objs2[o] \in Obj /\ objs2[o] # Free)
  <2>1. ClosedAs(objs2[o], objs[o], r, who)
    BY <1>2, <1>3, <1>6, ClosedIs
  <2>2. QED
    BY <2>1 DEF ClosedAs
<1>8. Holds(objs2[o].refs, OpenRefs(refs2, o))
  <2>1. Holds(RemoveFirst(objs[o].refs, r), OpenRefs(refs, o) \ {r})
    BY <1>2, <1>5, Removed
  <2>2. QED
    BY <1>7, <1>b, <2>1
<1>9. /\ objs2[o].count = Len(objs2[o].refs) /\ objs[o].count # 0
      /\ objs2[o].count = Cardinality(OpenRefs(refs2, o))
  <2> DEFINE R == OpenRefs(refs, o)
  <2>1. IsFiniteSet(R) /\ Cardinality(R) = objs[o].count /\ Cardinality(R) \in Nat
    BY <1>5, HoldsCard, FS_CardinalityType
  <2>2. Cardinality(R \ {r}) = Cardinality(R) - 1 /\ IsFiniteSet(R \ {r})
    BY <1>b, <2>1, FS_RemoveElement
  <2>3. Cardinality(R \ {r}) \in Nat
    BY <2>2, FS_CardinalityType
  <2>4. OpenRefs(refs2, o) = R \ {r}
    BY <1>b
  <2>5. Cardinality(R \ {r}) = Len(objs2[o].refs)
    BY <1>8, <2>4, HoldsCard
  <2>6. objs2[o].count = objs[o].count - 1
    BY <1>7
  <2> HIDE DEF R
  <2>7. objs2[o].count = Cardinality(R \ {r})
    BY <2>1, <2>2, <2>6
  <2>8. objs[o].count # 0
    BY <2>1, <2>2, <2>3
  <2>9. QED
    BY <2>4, <2>5, <2>7, <2>8
<1>10. objs2[o] \in Obj /\ objs2[o] # Free
  <2>1. objs2[o].refs \in Seq(Nat) /\ objs[o].told[who] # 0
    BY <1>2, <1>b, <1>5, <1>8 DEF Holds
  <2>2. QED
    BY <1>7, <1>9, <2>1
<1>11. \A t \in Tasks : objs2[o].told[t] = Cardinality(Seen(refs2, o, t))
  <2>1. objs[o].told \in [Tasks -> Nat]
    BY <1>3 DEF Obj
  <2>2. \A t \in Tasks : objs2[o].told[t] = IF t = who THEN objs[o].told[t] - 1 ELSE objs[o].told[t]
    BY <1>7, <2>1
  <2>3. \A t \in Tasks : objs[o].told[t] = Cardinality(Seen(refs, o, t))
    BY <1>5
  <2>4. QED
    BY <1>c, <2>2, <2>3
<1>12. objs2 \in [Objs -> Obj \cup {Free}] /\ refs2 \in [Refs -> Ref \cup {Free}]
  BY <1>1, <1>10
<1>13. Live(objs2) = Live(objs)
  BY <1>3, <1>6, <1>10, <1>12 DEF Live
<1>14. \A q \in Live(refs2) : objs2[refs2[q].object] # Free
  <2>1. \A q \in Live(refs) : objs[refs[q].object] # Free /\ refs[q].object \in Objs
    BY LiveIs DEF ObjectsOK, Ref
  <2>2. QED
    BY <1>a, <1>6, <1>10, <2>1
<1>15. ASSUME NEW p \in Live(objs2) PROVE ObjOK(objs2[p], refs2, p)
  <2>1. CASE p = o
    BY <1>8, <1>9, <1>11, <2>1 DEF ObjOK
  <2>2. CASE p # o
    <3>1. ObjOK(objs[p], refs, p) /\ p \in Objs
      BY <1>13, LiveIs DEF ObjectsOK
    <3>2. OpenRefs(refs2, p) = OpenRefs(refs, p) /\ objs2[p] = objs[p]
      BY <1>d, <1>6, <2>2, <3>1
    <3>3. \A t \in Tasks : Cardinality(Seen(refs2, p, t)) = Cardinality(Seen(refs, p, t))
      BY <1>e, <2>2
    <3>4. QED
      BY <3>1, <3>2, <3>3 DEF ObjOK
  <2>3. QED
    BY <2>1, <2>2
<1>16. ObjectsOK(objs2, refs2)
  BY <1>14, <1>15 DEF ObjectsOK
<1>17. ASSUME objs2[o].count = 0 PROVE objs[o].refs[1] = r /\ OpenRefs(refs2, o) = {}
  <2>1. OpenRefs(refs2, o) = {}
    <3>1. IsFiniteSet(OpenRefs(refs2, o)) /\ Cardinality(OpenRefs(refs2, o)) = 0
      BY <1>8, <1>9, <1>17, HoldsCard
    <3>2. QED
      BY <3>1, FS_EmptySet
  <2>2. OpenRefs(refs, o) = {r}
    BY <1>b, <2>1
  <2>3. Len(objs[o].refs) = 1 /\ objs[o].refs \in Seq(Nat)
    <3>1. objs[o].count \in Nat
      BY <1>3 DEF Obj
    <3>2. objs[o].count = 1
      BY <1>7, <1>17, <3>1
    <3>3. QED
      BY <1>5, <3>2 DEF Holds
  <2>4. objs[o].refs[1] \in ToSet(objs[o].refs)
    BY <2>3, InSet
  <2>5. QED
    BY <1>5, <2>1, <2>2, <2>4 DEF Holds
<1>18. objs2[o].count = 0 <=> objs2[o].refs = <<>>
  <2>1. objs2[o].refs = <<>> => objs2[o].count = 0
    BY <1>9, EmptyHolds
  <2>2. objs2[o].count = 0 => objs2[o].refs = <<>>
    BY <1>9, <1>8 DEF Holds
  <2>3. QED
    BY <2>1, <2>2
<1>19. QED
  BY <1>1, <1>2, <1>6, <1>7, <1>12, <1>13, <1>16, <1>17, <1>18 DEF ObjectClosed

CloseRight(s, s2, r, U) ==
  /\ BooksOK(s2, U)
  /\ s2.refs = [s.refs EXCEPT ![r] = Free] /\ s2.elems = s.elems /\ s2.lists = s.lists
  /\ s2.ret = s.ret /\ s2.failure = s.failure
  /\ \A p \in Objs : p # s.refs[r].object => s2.objs[p] = s.objs[p]
  /\ LET o   == s.refs[r].object
         new == Closed(s.objs[o], r, s.refs[r].owner)
     IN  s2.objs[o] = IF new.count = 0 THEN Free ELSE new

LEMMA CloseKeeps ==
  ASSUME ObjectAssumption, NEW s, NEW U, BooksOK(s, U), NEW r \in Live(s.refs),
         \A e \in U : s.elems[e].ref # r
  PROVE  CloseRight(s, RefClose(s, r), r, U)
<1> DEFINE o == s.refs[r].object
           who == s.refs[r].owner
           s1 == [s EXCEPT !.refs[r] = Free, !.objs[o] = Closed(@, r, who)]
<1>0. s \in State
  BY DEF BooksOK
<1>1. /\ s.objs \in [Objs -> Obj \cup {Free}] /\ s.refs \in [Refs -> Ref \cup {Free}]
      /\ ObjectsOK(s.objs, s.refs) /\ ClassesOK(s.objs, s.insts, s.count)
      /\ ElemsOK(U, s.elems, s.refs)
  BY <1>0 DEF BooksOK, State
<1>2. /\ s1.refs = [s.refs EXCEPT ![r] = Free]
      /\ s1.objs = [s.objs EXCEPT ![o] = Closed(@, r, who)]
      /\ s1.insts = s.insts /\ s1.count = s.count /\ s1.mem = s.mem /\ s1.ret = s.ret
      /\ s1.elems = s.elems /\ s1.lists = s.lists /\ s1.failure = s.failure
  BY <1>0 DEF State
<1>3. ObjectClosed(s.objs, s.refs, r, s1.objs, s1.refs, o, who)
  BY <1>1, <1>2, ObjectsClosed
<1>4. s1 \in State
  <2>1. /\ s1.objs \in [Objs -> Obj \cup {Free}] /\ s1.refs \in [Refs -> Ref \cup {Free}]
    BY <1>3 DEF ObjectClosed
  <2>2. s1 = [[s EXCEPT !.refs = s1.refs] EXCEPT !.objs = s1.objs]
    BY <1>0 DEF State
  <2> HIDE DEF s1
  <2>3. QED
    BY <1>0, <2>1, <2>2 DEF State
<1>5. RefClose(s, r) = IF s1.objs[o].count = 0 /\ s.objs[o].refs[1] # r THEN Fails(s, "assert")
                       ELSE IF (s1.objs[o].count = 0) # (s1.objs[o].refs = <<>>)
                       THEN Fails(s1, "assert")
                       ELSE IF s1.objs[o].count = 0 THEN ObjectDestroy(s1, o) ELSE s1
  BY DEF RefClose
<1> HIDE DEF s1, who
<1>6. /\ ObjectsOK(s1.objs, s1.refs) /\ o \in Objs
      /\ s1.objs[o].count = 0 => s.objs[o].refs[1] = r /\ OpenRefs(s1.refs, o) = {}
      /\ s1.objs[o].count = 0 <=> s1.objs[o].refs = <<>>
      /\ \A p \in Objs : p # o => s1.objs[p] = s.objs[p]
  BY <1>3 DEF ObjectClosed
<1>7. ClassesOK(s1.objs, s1.insts, s1.count)
  <2>1. Live(s1.objs) = Live(s.objs)
    BY <1>3 DEF ObjectClosed
  <2>2. \A p \in Live(s.objs) : s1.objs[p].class = s.objs[p].class
    BY <1>1, <1>3, LiveIs DEF ObjectClosed
  <2>3. ClassesOK(s1.objs, s.insts, s.count)
    BY <1>1, <2>1, <2>2, ClassesSame
  <2>4. QED
    BY <1>2, <2>3
<1>8. ElemsOK(U, s1.elems, s1.refs)
  <2>1. \A q \in Live(s.refs) : q # r => q \in Live(s1.refs) /\ s1.refs[q] = s.refs[q]
    BY <1>1, <1>2, LiveIs
  <2>2. \A e \in U : s.elems[e].ref \in Live(s.refs)
    BY <1>1 DEF ElemsOK, ElemOK
  <2>3. \A e \in U :
          /\ s.elems[e].ref \in Live(s1.refs)
          /\ s1.refs[s.elems[e].ref].element = s.refs[s.elems[e].ref].element
    BY <2>1, <2>2
  <2>4. ElemsOK(U, s.elems, s1.refs)
    BY <1>1, <2>3, ElemsSame
  <2>5. QED
    BY <1>2, <2>4
<1>9. BooksOK(s1, U)
  BY <1>4, <1>6, <1>7, <1>8 DEF BooksOK
<1>13. s1.objs[o] = Closed(s.objs[o], r, s.refs[r].owner)
  BY <1>1, <1>2, <1>6 DEF who
<1>10. CASE s1.objs[o].count = 0
  <2>1. RefClose(s, r) = ObjectDestroy(s1, o)
    BY <1>5, <1>6, <1>10
  <2>2. DestroyRight(s1, ObjectDestroy(s1, o), o, U)
    BY <1>6, <1>9, <1>10, DestroyKeeps
  <2> DEFINE s2 == ObjectDestroy(s1, o)
  <2> HIDE DEF s2
  <2>3. /\ BooksOK(s2, U) /\ s2.refs = s1.refs /\ s2.elems = s1.elems /\ s2.lists = s1.lists
        /\ s2.ret = s1.ret /\ s2.objs = [s1.objs EXCEPT ![o] = Free]
        /\ s2.failure = IF s1.objs[o] = Free THEN "freed_twice" ELSE s1.failure
    BY <2>2 DEF DestroyRight, s2
  <2>4. s1.objs[o] # Free
    BY <1>3, <1>1, <1>6, LiveIs DEF ObjectClosed
  <2>5. s1.objs \in [Objs -> Obj \cup {Free}]
    BY <1>3 DEF ObjectClosed
  <2>6. s2.objs[o] = Free /\ \A p \in Objs : p # o => s2.objs[p] = s.objs[p]
    BY <1>6, <2>3, <2>5
  <2>7. CloseRight(s, s2, r, U)
    BY <1>2, <1>10, <1>13, <2>3, <2>4, <2>6 DEF CloseRight
  <2>8. QED
    BY <2>1, <2>7 DEF s2
<1>11. CASE s1.objs[o].count # 0
  <2>1. RefClose(s, r) = s1
    BY <1>5, <1>6, <1>11
  <2>2. CloseRight(s, s1, r, U)
    BY <1>2, <1>6, <1>9, <1>11, <1>13 DEF CloseRight
  <2>3. QED
    BY <2>1, <2>2
<1>12. QED
  BY <1>10, <1>11

-----------------------------------------------------------------------------
(* Objects with a first reference, and copies of objects.                   *)

InstanceRight(s, s2, U) ==
  /\ BooksOK(s2, U) /\ s2.failure = s.failure /\ s2.lists = s.lists
  /\ s2.ret = NULL => SameBooks(s, s2)

LEMMA InstanceKeeps ==
  ASSUME ObjectAssumption, NEW s, NEW U, BooksOK(s, U), NEW c \in Classes, NEW who \in Tasks
  PROVE  InstanceRight(s, ObjectInstance(s, c, who), U)
<1> DEFINE s1 == ObjectCreate(s, c)
           s2 == ObjectOpen(s1, s1.ret, who)
           s3 == ObjectDestroy(s2, s1.ret)
<1>1. ObjectInstance(s, c, who) = IF s1.ret = NULL THEN s1 ELSE IF s2.ret # NULL THEN s2 ELSE s3
  BY DEF ObjectInstance
<1>2. BooksOK(s1, U) /\ (Refused(s, s1) \/ Created(s, s1, c))
  BY CreateKeeps DEF CreateRight
<1> HIDE DEF s1
<1>3. CASE s1.ret = NULL
  <2>1. Refused(s, s1)
    BY <1>2, <1>3, NotNull DEF Created
  <2>2. QED
    BY <1>1, <1>2, <1>3, <2>1 DEF InstanceRight, Refused, SameBooks
<1>4. CASE s1.ret # NULL
  <2>1. PICK o \in Objs : /\ s.objs[o] = Free /\ s1.ret = o /\ s1.objs = [s.objs EXCEPT ![o] = NewObj(c)]
                          /\ s1.refs = s.refs /\ s1.elems = s.elems
                          /\ s1.lists = s.lists /\ s1.failure = s.failure
    BY <1>2, <1>4 DEF Refused, Created
  <2>2. s.objs \in [Objs -> Obj \cup {Free}] /\ ObjectsOK(s.objs, s.refs)
    BY DEF BooksOK, State
  <2>3. s1.objs[o] # Free
    BY <2>1, <2>2, NewObjIs
  <2>4. OpenRight(s1, s2, o, who, U)
    BY <1>2, <2>1, <2>3, OpenKeeps
  <2> HIDE DEF s2
  <2>5. CASE s2.ret # NULL
    <3>1. OpenedTo(s1, s2, o, who) /\ BooksOK(s2, U)
      BY <2>4, <2>5 DEF OpenRight, Refused
    <3>2. s2.failure = s.failure /\ s2.lists = s.lists
      BY <2>1, <3>1 DEF OpenedTo
    <3>3. QED
      BY <1>1, <1>4, <2>5, <3>1, <3>2 DEF InstanceRight
  <2>6. CASE s2.ret = NULL
    <3>1. Refused(s1, s2) /\ BooksOK(s2, U)
      BY <2>4, <2>6, NotNull DEF OpenRight, OpenedTo
    <3>2. OpenRefs(s2.refs, o) = {}
      <4>1. s2.refs = s.refs
        BY <2>1, <3>1 DEF Refused, SameBooks
      <4>2. \A r \in Live(s.refs) : s.refs[r].object # o
        BY <2>1, <2>2 DEF ObjectsOK
      <4>3. QED
        BY <4>1, <4>2 DEF OpenRefs
    <3>3. DestroyRight(s2, s3, o, U)
      BY <2>1, <3>1, <3>2, DestroyKeeps
    <3> HIDE DEF s3
    <3>4. [[s.objs EXCEPT ![o] = NewObj(c)] EXCEPT ![o] = Free] = s.objs
      BY <2>1, <2>2
    <3>5. /\ s3.objs = s.objs /\ s3.refs = s.refs /\ s3.elems = s.elems
          /\ s3.lists = s.lists /\ s3.failure = s.failure /\ BooksOK(s3, U)
      BY <2>1, <2>3, <3>1, <3>3, <3>4 DEF DestroyRight, Refused, SameBooks
    <3>6. QED
      BY <1>1, <1>4, <2>6, <3>5 DEF InstanceRight, SameBooks
  <2>7. QED
    BY <2>5, <2>6
<1>5. QED
  BY <1>3, <1>4

DupRight(s, s2, o, U) ==
  /\ BooksOK(s2, U)
  /\ Refused(s, s2) \/ Created(s, s2, s.objs[o].class)

LEMMA DupKeeps ==
  ASSUME ObjectAssumption, NEW s, NEW U, BooksOK(s, U), NEW o \in Objs, s.objs[o] # Free
  PROVE  DupRight(s, ObjectDup(s, o), o, U)
<1> DEFINE s2 == ObjectDup(s, o)
           c == s.objs[o].class
           s1 == [s EXCEPT !.mem = @ - 1]
<1>0. s \in State /\ s.mem \in Nat /\ s.objs \in [Objs -> Obj \cup {Free}]
  BY DEF BooksOK, State
<1>1. s.objs[o] \in Obj /\ c \in Classes
  BY <1>0 DEF Obj
<1>2. CASE c \notin Dupable \/ s.mem = 0
  <2>1. s2 = Returns(s, NULL) /\ s2 \in State
    BY <1>0, <1>2, StateSame DEF ObjectDup, NULL
  <2>2. s2.ret = NULL /\ SameBooks(s, s2) /\ s2.insts = s.insts /\ s2.count = s.count
    BY <1>0, <2>1 DEF SameBooks, Returns, State
  <2> HIDE DEF s2
  <2>3. QED
    BY <2>1, <2>2, BooksSame DEF DupRight, Refused, SameBooks, s2
<1>3. CASE c \in Dupable /\ s.mem # 0
  <2>1. s.mem - 1 \in Nat
    BY <1>0, <1>3
  <2>2. s1 \in State /\ SameBooks(s, s1) /\ s1.insts = s.insts /\ s1.count = s.count
    BY <1>0, <2>1 DEF State, SameBooks
  <2>3. s2 = ObjectCreate(s1, c)
    BY <1>3 DEF ObjectDup
  <2> HIDE DEF s1, c
  <2>4. BooksOK(s1, U)
    BY <2>2, BooksSame DEF SameBooks
  <2>5. CreateRight(s1, s2, c, U)
    BY <1>1, <2>3, <2>4, CreateKeeps
  <2> HIDE DEF s2
  <2>6. Refused(s1, s2) => Refused(s, s2)
    BY <2>2 DEF Refused, SameBooks
  <2>7. Created(s1, s2, c) => Created(s, s2, c)
    BY <2>2 DEF Created, SameBooks
  <2>8. QED
    BY <2>5, <2>6, <2>7 DEF CreateRight, DupRight, s2, c
<1>4. QED
  BY <1>2, <1>3 DEF c

-----------------------------------------------------------------------------
(* The lists of references.                                                 *)

LEMMA LinkedIs ==
  ASSUME NEW lists
  PROVE  \A e : e \in Linked(lists) <=> \E l \in RefLists : e \in ToSet(lists[l])
BY DEF Linked

WithFirst(lists, l, e) == [lists EXCEPT ![l] = <<e>> \o @]
ChainedTo(lists, new, l, e) ==
  /\ ChainsOK(new) /\ Linked(new) = Linked(lists) \cup {e}
  /\ new \in [RefLists -> Seq(Nat)] /\ ToSet(new[l]) = ToSet(lists[l]) \cup {e}

LEMMA ChainsMore ==
  ASSUME NEW lists \in [RefLists -> Seq(Nat)], ChainsOK(lists), NEW l \in RefLists,
         NEW e \in Nat, e \notin Linked(lists),
         NEW new, new = WithFirst(lists, l, e)
  PROVE  ChainedTo(lists, new, l, e)
<1>1. Holds(lists[l], ToSet(lists[l])) /\ e \notin ToSet(lists[l])
  BY LinkedIs DEF ChainsOK, WithFirst, Holds
<1>2. Holds(<<e>> \o lists[l], ToSet(lists[l]) \cup {e})
  BY <1>1, Pushed
<1>3. new[l] = <<e>> \o lists[l] /\ \A m \in RefLists : m # l => new[m] = lists[m]
  BY DEF WithFirst
<1>4. ToSet(new[l]) = ToSet(lists[l]) \cup {e} /\ IsInjective(new[l]) /\ new[l] \in Seq(Nat)
  BY <1>2, <1>3 DEF Holds
<1>5. ChainsOK(new)
  BY <1>3, <1>4, LinkedIs DEF ChainsOK, WithFirst
<1>6. Linked(new) = Linked(lists) \cup {e}
  BY <1>3, <1>4, LinkedIs DEF WithFirst
<1>7. new \in [RefLists -> Seq(Nat)]
  BY <1>3, <1>4 DEF WithFirst
<1>8. QED
  BY <1>4, <1>5, <1>6, <1>7 DEF ChainedTo

LEMMA ChainsLess ==
  ASSUME NEW lists \in [RefLists -> Seq(Nat)], ChainsOK(lists), NEW l \in RefLists,
         NEW e \in Nat, e \in ToSet(lists[l]),
         NEW new, new = [lists EXCEPT ![l] = RemoveFirst(@, e)]
  PROVE  ChainsOK(new) /\ Linked(new) = Linked(lists) \ {e} /\ new \in [RefLists -> Seq(Nat)]
<1>1. Holds(lists[l], ToSet(lists[l]))
  BY DEF ChainsOK, Holds
<1>2. Holds(RemoveFirst(lists[l], e), ToSet(lists[l]) \ {e})
  BY <1>1, Removed
<1>3. new[l] = RemoveFirst(lists[l], e) /\ \A m \in RefLists : m # l => new[m] = lists[m]
  OBVIOUS
<1>4. ToSet(new[l]) = ToSet(lists[l]) \ {e} /\ IsInjective(new[l]) /\ new[l] \in Seq(Nat)
  BY <1>2, <1>3 DEF Holds
<1>5. ChainsOK(new)
  BY <1>3, <1>4 DEF ChainsOK
<1>6. \A m \in RefLists : m # l => e \notin ToSet(lists[m])
  BY DEF ChainsOK
<1>7. Linked(new) = Linked(lists) \ {e}
  BY <1>3, <1>4, <1>6, LinkedIs
<1>8. QED
  BY <1>3, <1>4, <1>5, <1>7

LEMMA ChainsEmptied ==
  ASSUME NEW lists \in [RefLists -> Seq(Nat)], ChainsOK(lists), NEW l \in RefLists,
         NEW new, new = [lists EXCEPT ![l] = <<>>]
  PROVE  /\ ChainsOK(new) /\ Linked(new) = Linked(lists) \ ToSet(lists[l])
         /\ new \in [RefLists -> Seq(Nat)]
<1>1. new[l] = <<>> /\ \A m \in RefLists : m # l => new[m] = lists[m]
  OBVIOUS
<1>2. ToSet(new[l]) = {} /\ IsInjective(new[l]) /\ new[l] \in Seq(Nat)
  BY <1>1, EmptyHolds DEF Holds
<1>3. ChainsOK(new)
  BY <1>1, <1>2 DEF ChainsOK
<1>4. \A m \in RefLists : m # l => ToSet(lists[l]) \cap ToSet(lists[m]) = {}
  BY DEF ChainsOK
<1>5. Linked(new) = Linked(lists) \ ToSet(lists[l])
  BY <1>1, <1>2, <1>4, LinkedIs
<1>6. QED
  BY <1>1, <1>2, <1>3, <1>5

\* References that differ in the elements they know only.
LEMMA RefsSame ==
  ASSUME NEW objs, NEW refs, NEW new, ObjectsOK(objs, refs), Live(new) = Live(refs),
         \A r \in Live(refs) : new[r].object = refs[r].object /\ new[r].owner = refs[r].owner
  PROVE  ObjectsOK(objs, new)
<1>1. \A o : OpenRefs(new, o) = OpenRefs(refs, o)
  BY DEF OpenRefs
<1>2. \A o : \A t : Seen(new, o, t) = Seen(refs, o, t)
  BY <1>1 DEF Seen, OpenRefs
<1>3. QED
  BY <1>1, <1>2 DEF ObjectsOK, ObjOK

Added(s, s2, l, r, e) ==
  /\ s.elems[e] = Free /\ s2.ret = r
  /\ s2.elems = [s.elems EXCEPT ![e] = [ref |-> r]]
  /\ s2.refs = [s.refs EXCEPT ![r].element = e]
  /\ s2.lists = [s.lists EXCEPT ![l] = <<e>> \o @]
  /\ s2.objs = s.objs /\ s2.failure = s.failure

AddRight(s, s2, l, r, U) ==
  \/ Refused(s, s2) /\ BooksOK(s2, U)
  \/ \E e \in Elems : Added(s, s2, l, r, e) /\ BooksOK(s2, U \cup {e})

LEMMA AddKeeps ==
  ASSUME ObjectAssumption, NEW s, NEW U, BooksOK(s, U), NEW l \in RefLists,
         NEW r \in Live(s.refs), \A e \in U : s.elems[e].ref # r
  PROVE  AddRight(s, ListAddRef(s, l, r), l, r, U)
<1> DEFINE s2 == ListAddRef(s, l, r)
<1>0. s \in State
  BY DEF BooksOK
<1>1. CASE NoMemory(s, s.elems)
  <2>1. s2 = Returns(s, NULL) /\ s2 \in State
    BY <1>0, <1>1, StateSame DEF ListAddRef, NULL
  <2>2. s2.ret = NULL /\ SameBooks(s, s2) /\ s2.insts = s.insts /\ s2.count = s.count
    BY <1>0, <2>1 DEF SameBooks, Returns, State
  <2> HIDE DEF s2
  <2>3. QED
    BY <2>1, <2>2, BooksSame DEF AddRight, Refused, SameBooks, s2
<1>2. CASE ~NoMemory(s, s.elems)
  <2> DEFINE e == Slot(s.elems)
  <2>0. /\ s.refs \in [Refs -> Ref \cup {Free}] /\ s.elems \in [Elems -> Elem \cup {Free}]
        /\ s.lists \in [RefLists -> Seq(Nat)] /\ s.mem \in Nat
    BY <1>0 DEF State
  <2>1. DOMAIN s.elems = Elems /\ Elems \subseteq Nat
    BY <2>0, NotNull
  <2>2. e \in Elems /\ s.elems[e] = Free /\ s.mem - 1 \in Nat /\ e \in Nat
    <3>1. s.mem # 0 /\ Live(s.elems) # DOMAIN s.elems
      BY <1>2 DEF NoMemory
    <3>2. Slot(s.elems) \in DOMAIN s.elems /\ s.elems[Slot(s.elems)] = Free
      BY <2>1, <3>1, SlotIs
    <3>3. s.mem - 1 \in Nat
      BY <2>0, <3>1
    <3>4. QED
      BY <2>1, <3>2, <3>3
  <2> HIDE DEF e
  <2>3. s2 = [s EXCEPT !.mem = @ - 1, !.ret = r, !.elems[e] = [ref |-> r],
                !.refs[r].element = e, !.lists[l] = <<e>> \o @]
    BY <1>2 DEF ListAddRef, e
  <2>4. /\ s2.elems = [s.elems EXCEPT ![e] = [ref |-> r]]
        /\ s2.refs = [s.refs EXCEPT ![r].element = e]
        /\ s2.lists = [s.lists EXCEPT ![l] = <<e>> \o @]
        /\ s2.mem = s.mem - 1 /\ s2.ret = r /\ s2.objs = s.objs
        /\ s2.insts = s.insts /\ s2.count = s.count /\ s2.failure = s.failure
    BY <1>0, <2>3 DEF State
  <2>5. r \in Refs /\ s.refs[r] \in Ref /\ s.refs[r] # Free /\ r \in Nat
    BY <2>0, LiveIs, NotNull
  <2>6. /\ s2.refs[r] = [s.refs[r] EXCEPT !.element = e]
        /\ \A q \in Refs : q # r => s2.refs[q] = s.refs[q]
        /\ DOMAIN s2.refs = Refs
    BY <2>0, <2>4, <2>5
  <2>7. /\ s2.refs[r] \in Ref /\ s2.refs[r].object = s.refs[r].object
        /\ s2.refs[r].owner = s.refs[r].owner /\ s2.refs[r].element = e
    BY <2>2, <2>5, <2>6 DEF Ref
  <2>8. s2.refs[r] # Free /\ [ref |-> r] \in Elem /\ [ref |-> r] # Free
    <3>1. [ref |-> r] \in Elem
      BY <2>5 DEF Elem
    <3>2. QED
      BY <2>7, <3>1, NotFree
  <2>9. s2 \in State
    <3>1. s2.refs \in [Refs -> Ref \cup {Free}]
      <4>1. s2.refs = [q \in Refs |-> s2.refs[q]]
        BY <2>0, <2>4
      <4>2. QED
        BY <2>0, <2>6, <2>7, <4>1
    <3>2. s2.elems \in [Elems -> Elem \cup {Free}] /\ s2.lists \in [RefLists -> Seq(Nat)]
      <4>1. [s.elems EXCEPT ![e] = [ref |-> r]] \in [Elems -> Elem \cup {Free}]
        BY <2>0, <2>2, <2>8
      <4>2. [s.lists EXCEPT ![l] = <<e>> \o @] \in [RefLists -> Seq(Nat)]
        BY <2>0, <2>2
      <4>3. QED
        BY <2>4, <4>1, <4>2
    <3>3. s2 = [[[[[s EXCEPT !.mem = s.mem - 1] EXCEPT !.ret = r] EXCEPT !.elems = s2.elems]
                  EXCEPT !.refs = s2.refs] EXCEPT !.lists = s2.lists]
      BY <1>0, <2>3 DEF State
    <3> HIDE DEF s2
    <3>4. QED
      BY <1>0, <2>2, <2>5, <3>1, <3>2, <3>3 DEF State
  <2> HIDE DEF s2
  <2>10. Live(s2.refs) = Live(s.refs)
    BY <2>0, <2>5, <2>6, <2>8 DEF Live
  <2>11. ObjectsOK(s2.objs, s2.refs)
    <3>1. ObjectsOK(s.objs, s.refs)
      BY DEF BooksOK
    <3>2. \A q \in Live(s.refs) : s2.refs[q].object = s.refs[q].object /\ s2.refs[q].owner = s.refs[q].owner
      BY <2>0, <2>6, <2>7, LiveIs
    <3>3. ObjectsOK(s.objs, s2.refs)
      BY <2>10, <3>1, <3>2, RefsSame
    <3>4. QED
      BY <2>4, <3>3
  <2>12. ElemsOK(U \cup {e}, s2.elems, s2.refs)
    <3>1. ASSUME NEW d \in U PROVE ElemOK(d, s2.elems, s2.refs)
      <4>1. ElemOK(d, s.elems, s.refs) /\ s.elems[d].ref # r
        BY DEF BooksOK, ElemsOK
      <4>2. d # e /\ s2.elems[d] = s.elems[d]
        BY <2>0, <2>2, <2>4, <4>1 DEF ElemOK
      <4>3. s2.refs[s.elems[d].ref] = s.refs[s.elems[d].ref]
        BY <2>0, <2>6, <4>1, LiveIs DEF ElemOK
      <4>4. QED
        BY <2>10, <4>1, <4>2, <4>3 DEF ElemOK
    <3>2. ElemOK(e, s2.elems, s2.refs)
      <4>1. s2.elems[e] = [ref |-> r] /\ [ref |-> r].ref = r
        BY <2>0, <2>2, <2>4
      <4>2. QED
        BY <2>2, <2>7, <2>8, <2>10, <4>1 DEF ElemOK
    <3>3. QED
      BY <3>1, <3>2 DEF ElemsOK
  <2>13. BooksOK(s2, U \cup {e})
    BY <2>4, <2>9, <2>11, <2>12 DEF BooksOK
  <2>14. Added(s, s2, l, r, e)
    BY <2>2, <2>4 DEF Added
  <2>15. QED
    BY <2>2, <2>13, <2>14 DEF AddRight, s2
<1>3. QED
  BY <1>1, <1>2

LEMMA BooksLess ==
  ASSUME NEW s, NEW U, BooksOK(s, U), NEW V \in SUBSET U
  PROVE  BooksOK(s, V)
BY DEF BooksOK, ElemsOK

\* An element's reference knows it, and no other element has it.
LEMMA ElementIs ==
  ASSUME ObjectAssumption, NEW s, NEW U, BooksOK(s, U), NEW e \in U
  PROVE  /\ e \in Elems /\ e # NULL /\ e \in Nat /\ s.elems[e] # Free
         /\ s.elems[e].ref \in Live(s.refs) /\ s.refs[s.elems[e].ref].element = e
         /\ \A d \in U \ {e} : s.elems[d].ref # s.elems[e].ref
<1>1. \A d \in U : ElemOK(d, s.elems, s.refs)
  BY DEF BooksOK, ElemsOK
<1>2. e \in Elems /\ e # NULL /\ e \in Nat
  BY <1>1, NotNull DEF ElemOK
<1>3. QED
  BY <1>1, <1>2 DEF ElemOK

\* An element that no list of interest has is freed.
ElemGone(s, e) == [s EXCEPT !.elems[e] = Free]

LEMMA ElemFreed ==
  ASSUME NEW s, NEW U, BooksOK(s, U), NEW e \in Elems, e \notin U, NEW s2, s2 = ElemGone(s, e)
  PROVE  /\ BooksOK(s2, U) /\ s2.elems = [s.elems EXCEPT ![e] = Free]
         /\ s2.refs = s.refs /\ s2.objs = s.objs /\ s2.lists = s.lists
         /\ s2.ret = s.ret /\ s2.failure = s.failure
<1>1. s \in State /\ s.elems \in [Elems -> Elem \cup {Free}]
  BY DEF BooksOK, State
<1>2. /\ s2.elems = [s.elems EXCEPT ![e] = Free]
      /\ s2.refs = s.refs /\ s2.objs = s.objs /\ s2.lists = s.lists
      /\ s2.ret = s.ret /\ s2.failure = s.failure /\ s2.insts = s.insts /\ s2.count = s.count
  BY <1>1 DEF State, ElemGone
<1>3. s2 \in State
  <2>1. [s.elems EXCEPT ![e] = Free] \in [Elems -> Elem \cup {Free}]
    BY <1>1
  <2>2. QED
    BY <1>1, <2>1 DEF State, ElemGone
<1>4. \A d \in U : s2.elems[d] = s.elems[d]
  BY <1>1, <1>2
<1>5. ElemsOK(U, s2.elems, s2.refs)
  BY <1>2, <1>4 DEF BooksOK, ElemsOK, ElemOK
<1>6. BooksOK(s2, U)
  BY <1>2, <1>3, <1>5 DEF BooksOK
<1>7. QED
  BY <1>2, <1>6

RemoveRight(s, s2, l, e, U) ==
  /\ BooksOK(s2, U \ {e})
  /\ s2.elems = [s.elems EXCEPT ![e] = Free]
  /\ s2.lists = [s.lists EXCEPT ![l] = RemoveFirst(@, e)]
  /\ s2.refs = s.refs /\ s2.objs = s.objs /\ s2.ret = s.ret /\ s2.failure = s.failure

LEMMA RemoveKeeps ==
  ASSUME ObjectAssumption, NEW s, NEW U, BooksOK(s, U), ChainsOK(s.lists), NEW l \in RefLists,
         NEW e \in U, e \in ToSet(s.lists[l])
  PROVE  RemoveRight(s, ListRemoveRef(s, l, s.elems[e].ref), l, e, U)
<1> DEFINE s1 == [s EXCEPT !.lists[l] = RemoveFirst(@, e)]
           s2 == ListRemoveRef(s, l, s.elems[e].ref)
<1>1. s \in State /\ s.lists \in [RefLists -> Seq(Nat)]
  BY DEF BooksOK, State
<1>2. e \in Elems /\ e # NULL /\ e \in Nat /\ s.refs[s.elems[e].ref].element = e
  BY ElementIs
<1>3. /\ s1.lists = [s.lists EXCEPT ![l] = RemoveFirst(@, e)]
      /\ s1.refs = s.refs /\ s1.objs = s.objs /\ s1.elems = s.elems
      /\ s1.ret = s.ret /\ s1.failure = s.failure /\ s1.insts = s.insts /\ s1.count = s.count
  BY <1>1 DEF State
<1>4. s2 = ElemGone(s1, e)
  BY <1>1, <1>2 DEF ListRemoveRef, State, ElemGone
<1>5. s1 \in State
  <2>2. [s.lists EXCEPT ![l] = RemoveFirst(@, e)] \in [RefLists -> Seq(Nat)]
    BY <1>1, <1>2, ChainsLess
  <2>3. QED
    BY <1>1, <2>2 DEF State
<1> HIDE DEF s1, s2
<1>6. BooksOK(s1, U \ {e})
  <2>1. BooksOK(s, U \ {e})
    BY BooksLess
  <2>2. QED
    BY <1>3, <1>5, <2>1, BooksSame
<1>7. /\ BooksOK(s2, U \ {e}) /\ s2.elems = [s1.elems EXCEPT ![e] = Free]
      /\ s2.refs = s1.refs /\ s2.objs = s1.objs /\ s2.lists = s1.lists
      /\ s2.ret = s1.ret /\ s2.failure = s1.failure
  <2> DEFINE V == U \ {e}
  <2>1. e \notin V /\ BooksOK(s1, V)
    BY <1>6
  <2> HIDE DEF V
  <2>2. /\ BooksOK(s2, V) /\ s2.elems = [s1.elems EXCEPT ![e] = Free]
        /\ s2.refs = s1.refs /\ s2.objs = s1.objs /\ s2.lists = s1.lists
        /\ s2.ret = s1.ret /\ s2.failure = s1.failure
    BY <1>2, <1>4, <2>1, ElemFreed
  <2>3. QED
    BY <2>2 DEF V
<1>8. QED
  BY <1>3, <1>7 DEF RemoveRight, s2

LEMMA RemoveListed ==
  ASSUME ObjectAssumption, NEW s, ListedOK(s), NEW l \in RefLists, NEW e \in ToSet(s.lists[l]),
         NEW s2, s2 = ListRemoveRef(s, l, s.elems[e].ref)
  PROVE  /\ ListedOK(s2) /\ s2.refs = s.refs /\ s2.failure = s.failure /\ s2.ret = s.ret
         /\ s.elems[e].ref \in Live(s2.refs)
         /\ \A d \in Linked(s2.lists) : s2.elems[d].ref # s.elems[e].ref
<1>1. BooksOK(s, Linked(s.lists)) /\ ChainsOK(s.lists) /\ e \in Linked(s.lists)
  BY LinkedIs DEF ListedOK
<1>2. s.lists \in [RefLists -> Seq(Nat)] /\ s.elems \in [Elems -> Elem \cup {Free}]
  BY <1>1 DEF BooksOK, State
<1>3. /\ e \in Elems /\ e \in Nat /\ s.elems[e].ref \in Live(s.refs)
      /\ \A d \in Linked(s.lists) \ {e} : s.elems[d].ref # s.elems[e].ref
  BY <1>1, ElementIs
<1>4. RemoveRight(s, s2, l, e, Linked(s.lists))
  BY <1>1, RemoveKeeps
<1>5. ChainsOK(s2.lists) /\ Linked(s2.lists) = Linked(s.lists) \ {e}
  <2>1. s2.lists = [s.lists EXCEPT ![l] = RemoveFirst(@, e)]
    BY <1>4 DEF RemoveRight
  <2>2. s.lists \in [RefLists -> Seq(Nat)] /\ ChainsOK(s.lists) /\ e \in Nat /\ e \in ToSet(s.lists[l])
    BY <1>1, <1>2, <1>3
  <2> DEFINE lists == s.lists
             new == s2.lists
  <2>3. /\ lists \in [RefLists -> Seq(Nat)] /\ ChainsOK(lists) /\ e \in Nat /\ e \in ToSet(lists[l])
        /\ new = [lists EXCEPT ![l] = RemoveFirst(@, e)]
    BY <2>1, <2>2
  <2> HIDE DEF lists, new
  <2>4. ChainsOK(new) /\ Linked(new) = Linked(lists) \ {e}
    BY <2>3, ChainsLess
  <2>5. QED
    BY <2>4 DEF lists, new
<1>6. ListedOK(s2)
  BY <1>4, <1>5 DEF RemoveRight, ListedOK
<1>7. \A d \in Linked(s2.lists) : s2.elems[d].ref # s.elems[e].ref
  BY <1>2, <1>3, <1>4, <1>5 DEF RemoveRight
<1>8. QED
  BY <1>3, <1>4, <1>6, <1>7 DEF RemoveRight

\* kernel_object_ref_close of a reference that is in no list.
LEMMA CloseListed ==
  ASSUME ObjectAssumption, NEW s, ListedOK(s), NEW r \in Live(s.refs),
         \A e \in Linked(s.lists) : s.elems[e].ref # r, NEW s2, s2 = RefClose(s, r)
  PROVE  ListedOK(s2) /\ s2.ret = s.ret /\ s2.failure = s.failure
<1>1. BooksOK(s, Linked(s.lists)) /\ ChainsOK(s.lists)
  BY DEF ListedOK
<1>2. CloseRight(s, s2, r, Linked(s.lists))
  BY <1>1, CloseKeeps
<1>3. QED
  BY <1>1, <1>2 DEF CloseRight, ListedOK

LEMMA CloseListKeeps ==
  ASSUME ObjectAssumption, NEW s, ListedOK(s), NEW l \in RefLists, NEW e \in ToSet(s.lists[l]),
         NEW s2, s2 = CloseFromList(s, l, s.elems[e].ref)
  PROVE  ListedOK(s2) /\ s2.ret = s.ret /\ s2.failure = s.failure
<1> DEFINE s1 == ListRemoveRef(s, l, s.elems[e].ref)
<1>1. s2 = RefClose(s1, s.elems[e].ref)
  BY DEF CloseFromList
<1> HIDE DEF s1
<1>2. /\ ListedOK(s1) /\ s1.ret = s.ret /\ s1.failure = s.failure
      /\ s.elems[e].ref \in Live(s1.refs)
      /\ \A d \in Linked(s1.lists) : s1.elems[d].ref # s.elems[e].ref
  BY RemoveListed DEF s1
<1>3. QED
  BY <1>1, <1>2, CloseListed

-----------------------------------------------------------------------------
(* A reference that is opened and put into a list, or closed again.         *)

\* The first element of a list is the one RemoveFirst finds.
LEMMA PushedRemoved ==
  ASSUME NEW q \in Seq(Nat), NEW r \in Nat
  PROVE  RemoveFirst(<<r>> \o q, r) = q
<1> DEFINE l == <<r>> \o q
           I == {j \in 1 .. Len(l) : l[j] = r}
<1>1. /\ l \in Seq(Nat) /\ Len(l) = Len(q) + 1 /\ Len(q) \in Nat /\ l[1] = r
      /\ \A j \in 1 .. Len(q) : l[j + 1] = q[j]
  OBVIOUS
<1> HIDE DEF l
<1>2. 1 \in I /\ \A j \in I : 1 <= j
  BY <1>1
<1>3. Min(I) = 1
  <2>1. I \subseteq Nat
    BY <1>1
  <2> HIDE DEF I
  <2>2. \A j \in I : (\A n \in I : j <= n) => j = 1
    BY <1>2, <2>1
  <2>3. QED
    BY <1>2, <2>2 DEF Min
<1>4. SelectInSeq(l, LAMBDA v : v = r) = 1
  BY <1>2, <1>3 DEF SelectInSeq
<1>5. RemoveFirst(l, r) = SubSeq(l, 1, 0) \o SubSeq(l, 2, Len(l))
  <2>1. \E j \in 1 .. Len(l) : l[j] = r
    BY <1>1
  <2>2. RemoveFirst(l, r) = RemoveAt(l, 1)
    BY <1>4, <2>1 DEF RemoveFirst
  <2>3. QED
    BY <2>2 DEF RemoveAt
<1>6. SubSeq(l, 1, 0) = <<>>
  BY <1>1
<1>7. SubSeq(l, 2, Len(l)) = q
  <2> DEFINE t == SubSeq(l, 2, Len(l))
  <2>1. t \in Seq(Nat) /\ Len(t) = Len(q) /\ \A j \in 1 .. Len(q) : t[j] = q[j]
    BY <1>1
  <2> HIDE DEF t
  <2>2. t = q
    <3>1. q = [j \in 1 .. Len(q) |-> q[j]] /\ t = [j \in 1 .. Len(q) |-> t[j]]
      BY <1>1, <2>1
    <3>2. QED
      BY <2>1, <3>1
  <2>3. QED
    BY <2>2 DEF t
<1>8. <<>> \o q = q
  OBVIOUS
<1>9. QED
  BY <1>5, <1>6, <1>7, <1>8 DEF l

\* A reference that is closed at once leaves the object as it was.
LEMMA OpenedClosed ==
  ASSUME NEW object \in Obj, NEW r \in Nat, NEW who \in Tasks
  PROVE  Closed(Opened(object, r, who), r, who) = object
<1> DEFINE a == Opened(object, r, who)
           b == Closed(a, r, who)
<1>0. /\ object.class \in Classes /\ object.refs \in Seq(Nat)
      /\ object.told \in [Tasks -> Nat] /\ object.count \in Nat
  BY DEF Obj
<1>1. OpenedAs(a, object, r, who)
  BY OpenedIs
<1>2. a \in Obj
  BY <1>1 DEF OpenedAs
<1> HIDE DEF a
<1>3. ClosedAs(b, a, r, who)
  BY <1>2, ClosedIs
<1> HIDE DEF b
<1>4. b.class = object.class /\ b.count = object.count
  BY <1>0, <1>1, <1>3 DEF OpenedAs, ClosedAs
<1>5. b.refs = object.refs
  <2>1. b.refs = RemoveFirst(<<r>> \o object.refs, r)
    BY <1>1, <1>3 DEF OpenedAs, ClosedAs
  <2>2. QED
    BY <1>0, <2>1, PushedRemoved
<1>6. b.told = object.told
  <2>1. b.told = [[object.told EXCEPT ![who] = @ + 1] EXCEPT ![who] = @ - 1]
    BY <1>1, <1>3 DEF OpenedAs, ClosedAs
  <2>2. QED
    BY <1>0, <2>1
<1>7. b \in Obj
  <2>1. a.count # 0
    BY <1>0, <1>1 DEF OpenedAs
  <2>2. a.told[who] # 0
    BY <1>0, <1>1 DEF OpenedAs
  <2>3. QED
    BY <1>0, <1>3, <1>5, <2>1, <2>2 DEF ClosedAs
<1>8. b = object
  BY <1>4, <1>5, <1>6, <1>7 DEF Obj
<1>9. QED
  BY <1>8 DEF a, b

\* The reference is allocated, its element is not.
Undone(s, s2, o) ==
  /\ s2.ret = NULL /\ s2.refs = s.refs /\ s2.elems = s.elems
  /\ s2.lists = s.lists /\ s2.failure = s.failure
  /\ s2.objs = [s.objs EXCEPT ![o] = IF s.objs[o].count = 0 THEN Free ELSE s.objs[o]]

ListedRef(o, who, e) == [owner |-> who, object |-> o, element |-> e]
Stored(s, s2, l, o, who, r, e) ==
  /\ s.refs[r] = Free /\ s.elems[e] = Free /\ s2.ret = r /\ s2.failure = s.failure
  /\ s2.refs = [s.refs EXCEPT ![r] = ListedRef(o, who, e)]
  /\ s2.elems = [s.elems EXCEPT ![e] = [ref |-> r]]
  /\ s2.objs = [s.objs EXCEPT ![o] = Opened(@, r, who)]
  /\ s2.lists = [s.lists EXCEPT ![l] = <<e>> \o @]

OpenListRight(s, s2, l, o, who, U) ==
  \/ BooksOK(s2, U) /\ (Refused(s, s2) \/ Undone(s, s2, o))
  \/ \E r \in Refs, e \in Elems :
       BooksOK(s2, U \cup {e}) /\ Stored(s, s2, l, o, who, r, e)

LEMMA OpenListKeeps ==
  ASSUME ObjectAssumption, NEW s, NEW U, BooksOK(s, U), NEW l \in RefLists,
         NEW o \in Objs, s.objs[o] # Free, NEW who \in Tasks
  PROVE  OpenListRight(s, OpenFromList(s, l, o, who), l, o, who, U)
<1> DEFINE s1 == ObjectOpen(s, o, who)
           s2 == ListAddRef(s1, l, s1.ret)
           s3 == RefClose(s2, s1.ret)
<1>1. OpenFromList(s, l, o, who) = IF s1.ret = NULL THEN s1 ELSE IF s2.ret # NULL THEN s2 ELSE s3
  BY DEF OpenFromList
<1>2. BooksOK(s1, U) /\ (Refused(s, s1) \/ OpenedTo(s, s1, o, who))
  BY OpenKeeps DEF OpenRight
<1>0. /\ s.objs \in [Objs -> Obj \cup {Free}] /\ s.refs \in [Refs -> Ref \cup {Free}]
      /\ ElemsOK(U, s.elems, s.refs)
  BY DEF BooksOK, State
<1> HIDE DEF s1
<1>3. CASE s1.ret = NULL
  <2>1. Refused(s, s1)
    BY <1>2, <1>3, NotNull DEF OpenedTo
  <2>2. QED
    BY <1>1, <1>2, <1>3, <2>1 DEF OpenListRight
<1>4. CASE s1.ret # NULL
  <2>1. PICK r \in Refs : /\ s.refs[r] = Free /\ s1.ret = r
                          /\ s1.refs = [s.refs EXCEPT ![r] = NewRef(o, who)]
                          /\ s1.objs = [s.objs EXCEPT ![o] = Opened(@, r, who)]
                          /\ s1.elems = s.elems /\ s1.lists = s.lists /\ s1.failure = s.failure
    BY <1>2, <1>4 DEF Refused, OpenedTo
  <2>2. s1.refs[r] = NewRef(o, who) /\ r \in Live(s1.refs)
    <3>1. s1.refs[r] = NewRef(o, who)
      BY <1>0, <2>1
    <3>2. DOMAIN s1.refs = Refs
      BY <1>0, <2>1
    <3>3. QED
      BY <3>1, <3>2, NewRefIs, LiveIs
  <2>3. \A e \in U : s1.elems[e].ref # r
    <3>1. \A e \in U : s.elems[e].ref \in Live(s.refs)
      BY <1>0 DEF ElemsOK, ElemOK
    <3>2. r \notin Live(s.refs)
      BY <2>1, LiveIs
    <3>3. QED
      BY <2>1, <3>1, <3>2
  <2>4. AddRight(s1, s2, l, r, U)
    BY <1>2, <2>1, <2>2, <2>3, AddKeeps
  <2> HIDE DEF s2
  <2>5. CASE s2.ret # NULL
    <3>1. PICK e \in Elems : Added(s1, s2, l, r, e) /\ BooksOK(s2, U \cup {e})
      BY <2>4, <2>5 DEF AddRight, Refused
    <3>2. s2.refs = [s.refs EXCEPT ![r] = ListedRef(o, who, e)]
      <4>1. [NewRef(o, who) EXCEPT !.element = e] = ListedRef(o, who, e)
        BY DEF NewRef, ListedRef
      <4>2. s2.refs = [s1.refs EXCEPT ![r] = [s1.refs[r] EXCEPT !.element = e]]
        BY <3>1 DEF Added
      <4>3. s2.refs = [s1.refs EXCEPT ![r] = ListedRef(o, who, e)]
        BY <2>2, <4>1, <4>2
      <4>4. QED
        BY <1>0, <2>1, <4>3
    <3>3. Stored(s, s2, l, o, who, r, e)
      BY <2>1, <3>1, <3>2 DEF Stored, Added
    <3>4. QED
      BY <1>1, <1>4, <2>5, <3>1, <3>3 DEF OpenListRight
  <2>6. CASE s2.ret = NULL
    <3>1. Refused(s1, s2) /\ BooksOK(s2, U)
      BY <2>4, <2>5, <2>6, NotNull DEF AddRight, Added
    <3>2. /\ s2.refs = s1.refs /\ s2.objs = s1.objs /\ s2.elems = s.elems
          /\ s2.lists = s.lists /\ s2.failure = s.failure
      BY <2>1, <3>1 DEF Refused, SameBooks
    <3>3. CloseRight(s2, s3, r, U)
      <4>1. r \in Live(s2.refs) /\ \A e \in U : s2.elems[e].ref # r
        BY <2>1, <2>2, <2>3, <3>2
      <4>2. QED
        BY <2>1, <3>1, <4>1, CloseKeeps
    <3> HIDE DEF s3
    <3>4. /\ BooksOK(s3, U) /\ s3.refs = [s2.refs EXCEPT ![r] = Free] /\ s3.elems = s2.elems
          /\ s3.lists = s2.lists /\ s3.ret = s2.ret /\ s3.failure = s2.failure
      BY <3>3 DEF CloseRight
    <3>5. s3.refs = s.refs
      BY <1>0, <2>1, <3>2, <3>4
    <3>6. s2.refs[r].object = o /\ s2.refs[r].owner = who
      BY <2>2, <3>2, NewRefIs
    <3>7. Closed(s2.objs[o], r, who) = s.objs[o]
      <4>1. s2.objs[o] = Opened(s.objs[o], r, who)
        BY <1>0, <2>1, <3>2
      <4>2. s.objs[o] \in Obj /\ r \in Nat
        BY <1>0, NotNull
      <4>3. QED
        BY <4>1, <4>2, OpenedClosed
    <3>8. /\ s3.objs[o] = IF s.objs[o].count = 0 THEN Free ELSE s.objs[o]
          /\ \A p \in Objs : p # o => s3.objs[p] = s2.objs[p]
      BY <3>3, <3>6, <3>7 DEF CloseRight
    <3>9. s3.objs = [s.objs EXCEPT ![o] = IF s.objs[o].count = 0 THEN Free ELSE s.objs[o]]
      <4>1. s3.objs \in [Objs -> Obj \cup {Free}]
        BY <3>4 DEF BooksOK, State
      <4>2. \A p \in Objs : p # o => s3.objs[p] = s.objs[p]
        BY <1>0, <2>1, <3>2, <3>8
      <4>3. QED
        BY <1>0, <3>8, <4>1, <4>2
    <3>10. Undone(s, s3, o)
      BY <3>1, <3>2, <3>4, <3>5, <3>9 DEF Undone, Refused
    <3>11. QED
      BY <1>1, <1>4, <2>6, <3>4, <3>10 DEF OpenListRight
  <2>7. QED
    BY <2>5, <2>6
<1>5. QED
  BY <1>3, <1>4

-----------------------------------------------------------------------------
(* The destruction of an element, and the copy of one.                      *)

ElementRight(s, s2, e, U) ==
  /\ BooksOK(s2, U \ {e})
  /\ s2.elems = [s.elems EXCEPT ![e] = Free]
  /\ s2.refs = [s.refs EXCEPT ![s.elems[e].ref] = Free]
  /\ s2.lists = s.lists /\ s2.ret = s.ret /\ s2.failure = s.failure
  /\ LET o == s.refs[s.elems[e].ref].object
     IN  /\ \A p \in Objs : p # o => s2.objs[p] = s.objs[p]
         /\ s2.objs[o] # Free => s2.objs[o].count # 0

LEMMA ElementKeeps ==
  ASSUME ObjectAssumption, NEW s, NEW U, BooksOK(s, U), NEW e \in U
  PROVE  ElementRight(s, ElementDestroy(s, e), e, U)
<1> DEFINE V == U \ {e}
           r == s.elems[e].ref
           s1 == RefClose(s, r)
           s2 == ElementDestroy(s, e)
<1>1. /\ e \in Elems /\ r \in Live(s.refs) /\ e \notin V
      /\ \A d \in V : s.elems[d].ref # r
  BY ElementIs
<1>2. BooksOK(s, V)
  BY BooksLess
<1> HIDE DEF V, r
<1>3. CloseRight(s, s1, r, V)
  BY <1>1, <1>2, CloseKeeps
<1>4. s2 = ElemGone(s1, e)
  BY DEF ElementDestroy, ElemGone, r
<1> HIDE DEF s1, s2
<1>5. /\ BooksOK(s1, V) /\ s1.refs = [s.refs EXCEPT ![r] = Free] /\ s1.elems = s.elems
      /\ s1.lists = s.lists /\ s1.ret = s.ret /\ s1.failure = s.failure
      /\ \A p \in Objs : p # s.refs[r].object => s1.objs[p] = s.objs[p]
      /\ s1.objs[s.refs[r].object] # Free => s1.objs[s.refs[r].object].count # 0
  BY <1>3 DEF CloseRight
<1>6. /\ BooksOK(s2, V) /\ s2.elems = [s1.elems EXCEPT ![e] = Free]
      /\ s2.refs = s1.refs /\ s2.objs = s1.objs /\ s2.lists = s1.lists
      /\ s2.ret = s1.ret /\ s2.failure = s1.failure
  BY <1>1, <1>4, <1>5, ElemFreed
<1>7. QED
  BY <1>5, <1>6 DEF ElementRight, V, r, s2

\* Nothing is copied; an object whose reference could be opened and not listed
\* is destroyed with that reference, and once more by its caller.
NotCopied(s, s2) ==
  /\ s2.ret = NULL /\ s2.objs = s.objs /\ s2.refs = s.refs /\ s2.elems = s.elems
  /\ s2.lists = s.lists /\ s2.failure \in {s.failure, "freed_twice"}

Copied(s, s2, l, who, p, r, e) ==
  /\ s.objs[p] = Free /\ s.refs[r] = Free /\ s.elems[e] = Free
  /\ s2.ret = r /\ s2.failure = s.failure
  /\ s2.refs = [s.refs EXCEPT ![r] = ListedRef(p, who, e)]
  /\ s2.elems = [s.elems EXCEPT ![e] = [ref |-> r]]
  /\ \A q \in Objs : q # p => s2.objs[q] = s.objs[q]
  /\ s2.lists = [s.lists EXCEPT ![l] = <<e>> \o @]

DupIntoRight(s, s2, l, who, U) ==
  \/ BooksOK(s2, U) /\ NotCopied(s, s2)
  \/ \E p \in Objs, r \in Refs, e \in Elems :
       BooksOK(s2, U \cup {e}) /\ Copied(s, s2, l, who, p, r, e)

LEMMA DupIntoKeeps ==
  ASSUME ObjectAssumption, NEW s, NEW U, BooksOK(s, U), NEW l \in RefLists,
         NEW o \in Objs, s.objs[o] # Free, NEW who \in Tasks
  PROVE  DupIntoRight(s, DupInto(s, l, o, who), l, who, U)
<1> DEFINE dup == ObjectDup(s, o)
           s1 == OpenFromList(dup, l, dup.ret, who)
           s2 == ObjectDestroy(s1, dup.ret)
<1>1. DupInto(s, l, o, who) = IF dup.ret = NULL THEN dup ELSE IF s1.ret # NULL THEN s1 ELSE s2
  BY DEF DupInto
<1>0. /\ s.objs \in [Objs -> Obj \cup {Free}] /\ ObjectsOK(s.objs, s.refs)
  BY DEF BooksOK, State
<1>a. s.objs[o].class \in Classes
  <2>1. s.objs[o] \in Obj
    BY <1>0
  <2>2. QED
    BY <2>1 DEF Obj
<1>2. BooksOK(dup, U) /\ (Refused(s, dup) \/ Created(s, dup, s.objs[o].class))
  BY DupKeeps DEF DupRight
<1> HIDE DEF dup
<1>3. CASE dup.ret = NULL
  <2>1. Refused(s, dup)
    BY <1>2, <1>3, NotNull DEF Created
  <2>2. NotCopied(s, dup)
    BY <2>1 DEF Refused, SameBooks, NotCopied
  <2>3. QED
    BY <1>1, <1>2, <1>3, <2>2 DEF DupIntoRight
<1>4. CASE dup.ret # NULL
  <2> DEFINE c == s.objs[o].class
  <2>1. PICK p \in Objs : /\ s.objs[p] = Free /\ dup.ret = p
                          /\ dup.objs = [s.objs EXCEPT ![p] = NewObj(c)]
                          /\ dup.refs = s.refs /\ dup.elems = s.elems
                          /\ dup.lists = s.lists /\ dup.failure = s.failure
    BY <1>2, <1>4 DEF Refused, Created
  <2>2. dup.objs[p] = NewObj(c) /\ dup.objs[p] # Free /\ dup.objs[p].count = 0
    <3>1. dup.objs[p] = NewObj(c)
      BY <1>0, <2>1
    <3>2. NewObj(c) # Free /\ NewObj(c).count = 0
      BY <1>a, NewObjIs DEF NewObj
    <3>3. QED
      BY <3>1, <3>2
  <2> HIDE DEF c
  <2>3. OpenListRight(dup, s1, l, p, who, U)
    BY <1>2, <2>1, <2>2, OpenListKeeps
  <2> HIDE DEF s1
  <2>4. [dup.objs EXCEPT ![p] = Free] = s.objs
    BY <1>0, <2>1
  <2>5. CASE s1.ret # NULL
    <3>1. PICK r \in Refs, e \in Elems :
            BooksOK(s1, U \cup {e}) /\ Stored(dup, s1, l, p, who, r, e)
      BY <2>3, <2>5 DEF OpenListRight, Refused, Undone
    <3>2. \A q \in Objs : q # p => s1.objs[q] = s.objs[q]
      BY <1>0, <2>1, <3>1 DEF Stored
    <3>3. Copied(s, s1, l, who, p, r, e)
      BY <2>1, <3>1, <3>2 DEF Stored, Copied
    <3>4. QED
      BY <1>1, <1>4, <2>5, <3>1, <3>3 DEF DupIntoRight
  <2>6. CASE s1.ret = NULL
    <3>1. BooksOK(s1, U) /\ (Refused(dup, s1) \/ Undone(dup, s1, p))
      BY <2>3, <2>6, NotNull DEF OpenListRight, Stored
    <3>2. /\ s1.refs = s.refs /\ s1.elems = s.elems /\ s1.lists = s.lists
          /\ s1.failure = s.failure
      BY <2>1, <3>1 DEF Refused, SameBooks, Undone
    <3>3. OpenRefs(s1.refs, p) = {}
      BY <1>0, <2>1, <3>2 DEF OpenRefs, ObjectsOK
    <3>4. DestroyRight(s1, s2, p, U)
      BY <2>1, <3>1, <3>3, DestroyKeeps
    <3> HIDE DEF s2
    <3>5. /\ BooksOK(s2, U) /\ s2.refs = s1.refs /\ s2.elems = s1.elems /\ s2.lists = s1.lists
          /\ s2.ret = s1.ret /\ s2.objs = [s1.objs EXCEPT ![p] = Free]
          /\ s2.failure \in {s1.failure, "freed_twice"}
      BY <3>4 DEF DestroyRight
    <3>6. s2.objs = s.objs
      <4>1. CASE Refused(dup, s1)
        <5>1. s1.objs = dup.objs
          BY <4>1 DEF Refused, SameBooks
        <5>2. QED
          BY <2>4, <3>5, <5>1
      <4>2. CASE Undone(dup, s1, p)
        <5>1. s1.objs = [dup.objs EXCEPT ![p] = Free]
          BY <2>2, <4>2 DEF Undone
        <5>2. s1.objs = s.objs
          BY <2>4, <5>1
        <5>3. QED
          BY <1>0, <2>1, <3>5, <5>2
      <4>3. QED
        BY <3>1, <4>1, <4>2
    <3>7. NotCopied(s, s2)
      BY <2>6, <3>2, <3>5, <3>6 DEF NotCopied
    <3>8. QED
      BY <1>1, <1>4, <2>6, <3>5, <3>7 DEF DupIntoRight
  <2>7. QED
    BY <2>5, <2>6
<1>5. QED
  BY <1>3, <1>4

-----------------------------------------------------------------------------
(* What a copy has added so far.                                            *)

Named(s, V) == {s.elems[e].ref : e \in V}

\* The books of t are those of s0 but for the elements V, the references they
\* have, and the objects of these.
Extra(s0, t, V) ==
  /\ BooksOK(s0, {})
  /\ \A e \in Elems \ V : t.elems[e] = s0.elems[e]
  /\ \A e \in V : s0.elems[e] = Free
  /\ \A r \in Refs \ Named(t, V) : t.refs[r] = s0.refs[r]
  /\ \A r \in Named(t, V) : s0.refs[r] = Free /\ s0.objs[t.refs[r].object] = Free
  /\ \A o \in Objs : t.objs[o] = s0.objs[o] \/ \E r \in Named(t, V) : t.refs[r].object = o

LEMMA ExtraMore ==
  ASSUME ObjectAssumption, NEW s0, NEW t, NEW U, BooksOK(t, U), NEW V \in SUBSET U, Extra(s0, t, V),
         NEW t2, NEW l, NEW who \in Tasks, NEW p \in Objs, NEW r \in Refs, NEW e \in Elems,
         Copied(t, t2, l, who, p, r, e)
  PROVE  Extra(s0, t2, V \cup {e})
<1> DEFINE N == Named(t, V)
           N2 == Named(t2, V \cup {e})
<1>0. /\ t.refs \in [Refs -> Ref \cup {Free}] /\ t.elems \in [Elems -> Elem \cup {Free}]
      /\ \A d \in V : d \in Elems /\ t.elems[d] # Free /\ t.elems[d].ref \in Live(t.refs)
  BY DEF BooksOK, State, ElemsOK, ElemOK
<1>1. /\ t.objs[p] = Free /\ t.refs[r] = Free /\ t.elems[e] = Free
      /\ t2.refs[r] = ListedRef(p, who, e) /\ \A q \in Refs : q # r => t2.refs[q] = t.refs[q]
      /\ t2.elems[e] = [ref |-> r] /\ \A d \in Elems : d # e => t2.elems[d] = t.elems[d]
      /\ \A q \in Objs : q # p => t2.objs[q] = t.objs[q]
  BY <1>0 DEF Copied
<1>2. e \notin V /\ \A d \in V : t2.elems[d] = t.elems[d]
  BY <1>0, <1>1
<1>3. N2 = N \cup {r} /\ r \notin N /\ N \subseteq Refs
  <2>1. t2.elems[e].ref = r
    BY <1>1
  <2>2. r \notin N /\ N \subseteq Refs
    BY <1>0, <1>1, LiveIs DEF Named
  <2>3. N2 = N \cup {r}
    BY <1>2, <2>1 DEF Named
  <2>4. QED
    BY <2>2, <2>3
<1>4. /\ BooksOK(s0, {})
      /\ \A d \in Elems \ V : t.elems[d] = s0.elems[d]
      /\ \A d \in V : s0.elems[d] = Free
      /\ \A q \in Refs \ N : t.refs[q] = s0.refs[q]
      /\ \A q \in N : s0.refs[q] = Free /\ s0.objs[t.refs[q].object] = Free
      /\ \A o \in Objs : t.objs[o] = s0.objs[o] \/ \E q \in N : t.refs[q].object = o
  BY DEF Extra
<1> HIDE DEF N, N2
<1>5. \A d \in Elems \ (V \cup {e}) : t2.elems[d] = s0.elems[d]
  BY <1>1, <1>4
<1>6. \A d \in V \cup {e} : s0.elems[d] = Free
  BY <1>1, <1>2, <1>4
<1>7. \A q \in Refs \ N2 : t2.refs[q] = s0.refs[q]
  BY <1>1, <1>3, <1>4
<1>8. s0.objs[p] = Free
  BY <1>1, <1>4
<1>9. t2.refs[r].object = p
  BY <1>1 DEF ListedRef
<1>10. \A q \in N2 : s0.refs[q] = Free /\ s0.objs[t2.refs[q].object] = Free
  <2>1. ASSUME NEW q \in N PROVE s0.refs[q] = Free /\ s0.objs[t2.refs[q].object] = Free
    <3>1. q \in Refs /\ q # r
      BY <1>3
    <3>2. t2.refs[q] = t.refs[q]
      BY <1>1, <3>1
    <3>3. QED
      BY <1>4, <3>2
  <2>2. s0.refs[r] = Free
    BY <1>1, <1>3, <1>4
  <2>3. QED
    BY <1>3, <1>8, <1>9, <2>1, <2>2
<1>11. \A o \in Objs : t2.objs[o] = s0.objs[o] \/ \E q \in N2 : t2.refs[q].object = o
  <2> SUFFICES ASSUME NEW o \in Objs, t2.objs[o] # s0.objs[o]
               PROVE  \E q \in N2 : t2.refs[q].object = o
    OBVIOUS
  <2>1. CASE o = p
    BY <1>3, <1>9, <2>1
  <2>2. CASE o # p
    <3>1. t.objs[o] # s0.objs[o]
      BY <1>1, <2>2
    <3>2. PICK q \in N : t.refs[q].object = o
      BY <1>4, <3>1
    <3>3. q \in Refs /\ q # r
      BY <1>3
    <3>4. t2.refs[q] = t.refs[q]
      BY <1>1, <3>3
    <3>5. QED
      BY <1>3, <3>2, <3>4
  <2>3. QED
    BY <2>1, <2>2
<1>12. QED
  BY <1>4, <1>5, <1>6, <1>7, <1>10, <1>11 DEF Extra, N2

LEMMA ExtraLess ==
  ASSUME ObjectAssumption, NEW s0, NEW t, NEW U, BooksOK(t, U), NEW V \in SUBSET U, Extra(s0, t, V),
         NEW e \in V, NEW t2, ElementRight(t, t2, e, U)
  PROVE  Extra(s0, t2, V \ {e})
<1> DEFINE N == Named(t, V)
           N2 == Named(t2, V \ {e})
           r == t.elems[e].ref
           o == t.refs[r].object
<1>0. /\ t.refs \in [Refs -> Ref \cup {Free}] /\ t.elems \in [Elems -> Elem \cup {Free}]
      /\ \A d \in V : d \in Elems /\ t.elems[d] # Free /\ t.elems[d].ref \in Live(t.refs)
  BY DEF BooksOK, State, ElemsOK, ElemOK
<1>1. e \in Elems /\ r \in Live(t.refs) /\ \A d \in V \ {e} : t.elems[d].ref # r
  BY ElementIs
<1>2. r \in Refs /\ o \in Objs
  <2>1. r \in Refs /\ t.refs[r] \in Ref
    BY <1>0, <1>1, LiveIs
  <2>2. QED
    BY <2>1 DEF Ref
<1>3. /\ t2.elems[e] = Free /\ \A d \in Elems : d # e => t2.elems[d] = t.elems[d]
      /\ t2.refs[r] = Free /\ \A q \in Refs : q # r => t2.refs[q] = t.refs[q]
      /\ \A p \in Objs : p # o => t2.objs[p] = t.objs[p]
      /\ t2.objs[o] # Free => t2.objs[o].count # 0
      /\ BooksOK(t2, U \ {e})
  BY <1>0, <1>1, <1>2 DEF ElementRight
<1>4. N2 = N \ {r} /\ r \in N /\ N \subseteq Refs
  <2>1. \A d \in V \ {e} : t2.elems[d].ref = t.elems[d].ref
    BY <1>0, <1>3
  <2>2. r \in N /\ N \subseteq Refs
    BY <1>0, LiveIs DEF Named
  <2>3. N2 = N \ {r}
    BY <1>1, <2>1 DEF Named
  <2>4. QED
    BY <2>2, <2>3
<1>5. /\ BooksOK(s0, {})
      /\ \A d \in Elems \ V : t.elems[d] = s0.elems[d]
      /\ \A d \in V : s0.elems[d] = Free
      /\ \A q \in Refs \ N : t.refs[q] = s0.refs[q]
      /\ \A q \in N : s0.refs[q] = Free /\ s0.objs[t.refs[q].object] = Free
      /\ \A p \in Objs : t.objs[p] = s0.objs[p] \/ \E q \in N : t.refs[q].object = p
  BY DEF Extra
<1> HIDE DEF N, N2, r, o
<1>6. \A d \in Elems \ (V \ {e}) : t2.elems[d] = s0.elems[d]
  BY <1>3, <1>5
<1>7. \A q \in Refs \ N2 : t2.refs[q] = s0.refs[q]
  BY <1>3, <1>4, <1>5
<1>8. \A q \in N2 : q \in N /\ q \in Refs /\ t2.refs[q] = t.refs[q]
  BY <1>3, <1>4
<1>9. s0.objs[o] = Free
  BY <1>4, <1>5 DEF o
<1>10. ASSUME t2.objs[o] # Free PROVE \E q \in N2 : t2.refs[q].object = o
  <2>1. /\ t2.objs \in [Objs -> Obj \cup {Free}] /\ t2.refs \in [Refs -> Ref \cup {Free}]
        /\ ObjectsOK(t2.objs, t2.refs)
    BY <1>3 DEF BooksOK, State
  <2>2. ObjOK(t2.objs[o], t2.refs, o)
    BY <1>2, <1>10, <2>1, LiveIs DEF ObjectsOK
  <2>3. OpenRefs(t2.refs, o) # {}
    BY <1>3, <1>10, <2>2, EmptyList DEF ObjOK
  <2>4. PICK q : q \in OpenRefs(t2.refs, o)
    BY <2>3
  <2>5. q \in Live(t2.refs) /\ q \in Refs /\ t2.refs[q].object = o
    BY <2>1, <2>4, LiveIs DEF OpenRefs
  <2>6. CASE q \in N2
    BY <2>5, <2>6
  <2>7. CASE q \notin N2
    <3>1. s0.refs[q] = t2.refs[q] /\ s0.refs \in [Refs -> Ref \cup {Free}]
      BY <1>5, <1>7, <2>5, <2>7 DEF BooksOK, State
    <3>2. q \in Live(s0.refs) /\ s0.refs[q].object = o
      BY <2>5, <3>1, LiveIs
    <3>3. s0.objs[o] # Free
      BY <1>5, <3>2 DEF BooksOK, ObjectsOK
    <3>4. QED
      BY <1>9, <3>3
  <2>8. QED
    BY <2>6, <2>7
<1>11. \A p \in Objs : t2.objs[p] = s0.objs[p] \/ \E q \in N2 : t2.refs[q].object = p
  <2> SUFFICES ASSUME NEW p \in Objs, t2.objs[p] # s0.objs[p]
               PROVE  \E q \in N2 : t2.refs[q].object = p
    OBVIOUS
  <2>1. CASE p = o
    BY <1>9, <1>10, <2>1
  <2>2. CASE p # o
    <3>1. t.objs[p] # s0.objs[p]
      BY <1>3, <2>2
    <3>2. PICK q \in N : t.refs[q].object = p
      BY <1>5, <3>1
    <3>3. q # r
      BY <2>2, <3>2 DEF o
    <3>4. q \in N2 /\ t2.refs[q] = t.refs[q]
      BY <1>4, <1>8, <3>3
    <3>5. QED
      BY <3>2, <3>4
  <2>3. QED
    BY <2>1, <2>2
<1>12. \A q \in N2 : s0.refs[q] = Free /\ s0.objs[t2.refs[q].object] = Free
  BY <1>5, <1>8
<1>13. QED
  BY <1>5, <1>6, <1>7, <1>11, <1>12 DEF Extra, N2

-----------------------------------------------------------------------------
(* The loops over a list.                                                   *)

\* One turn: of the copy, or of the destruction.
Turn(copies, l, who, s, e) == IF copies THEN DupTurn(s, e, l, who) ELSE ElementDestroy(s, e)

\* f has the states after each of the first n turns.
After(f, copies, l, who, s, list, n) ==
  f = [i \in 0 .. n |-> IF i = 0 THEN s ELSE Turn(copies, l, who, f[i - 1], list[i])]

LEMMA AfterExists ==
  ASSUME NEW copies, NEW l, NEW who, NEW s, NEW list, NEW n \in Nat
  PROVE  \E f : After(f, copies, l, who, s, list, n)
<1> DEFINE S == {i \in Nat : \A f : ~After(f, copies, l, who, s, list, i)}
<1> SUFFICES ASSUME S # {} PROVE FALSE
  OBVIOUS
<1>1. PICK m \in S : \A i \in S : m <= i
  BY Least
<1>2. m \in Nat /\ \A f : ~After(f, copies, l, who, s, list, m)
  OBVIOUS
<1>3. CASE m = 0
  <2> DEFINE g == [i \in 0 .. 0 |-> s]
  <2>1. After(g, copies, l, who, s, list, 0)
    BY DEF After
  <2>2. QED
    BY <1>2, <1>3, <2>1
<1>4. CASE m # 0
  <2>1. m - 1 \in Nat /\ ~(m <= m - 1)
    BY <1>2, <1>4
  <2>2. m - 1 \notin S
    BY <1>1, <2>1
  <2>3. PICK f : After(f, copies, l, who, s, list, m - 1)
    BY <2>1, <2>2
  <2> DEFINE g == [i \in 0 .. m |-> IF i = m THEN Turn(copies, l, who, f[m - 1], list[m]) ELSE f[i]]
  <2> HIDE DEF S
  <2>4. \A i \in 0 .. m - 1 : f[i] = IF i = 0 THEN s ELSE Turn(copies, l, who, f[i - 1], list[i])
    BY <2>3 DEF After
  <2>5. \A i \in 0 .. m : g[i] = IF i = 0 THEN s ELSE Turn(copies, l, who, g[i - 1], list[i])
    <3> SUFFICES ASSUME NEW i \in 0 .. m
                 PROVE  g[i] = IF i = 0 THEN s ELSE Turn(copies, l, who, g[i - 1], list[i])
      OBVIOUS
    <3>1. i # 0 => i - 1 \in 0 .. m - 1 /\ i - 1 # m
      BY <1>2
    <3>2. i # 0 => g[i - 1] = f[i - 1]
      BY <3>1, <1>2
    <3>3. CASE i = m
      BY <3>2, <3>3, <1>4
    <3>4. CASE i # m
      <4>1. i \in 0 .. m - 1
        BY <3>4, <1>2
      <4>2. g[i] = f[i]
        BY <3>4
      <4>3. QED
        BY <4>1, <4>2, <2>4, <3>2
    <3>5. QED
      BY <3>3, <3>4
  <2>6. g = [i \in 0 .. m |-> g[i]]
    OBVIOUS
  <2> HIDE DEF g
  <2>7. After(g, copies, l, who, s, list, m)
    BY <2>5, <2>6 DEF After
  <2>8. QED
    BY <1>2, <2>7
<1>5. QED
  BY <1>3, <1>4

LEMMA DestroyIs ==
  ASSUME NEW s, NEW l, Len(s.lists[l]) \in Nat
  PROVE  LET list == s.lists[l]
         IN  \E f : /\ ListDestroy(s, l) = [f[Len(list)] EXCEPT !.lists[l] = <<>>]
                    /\ f[0] = s
                    /\ \A i \in 1 .. Len(list) : f[i] = ElementDestroy(f[i - 1], list[i])
<1> DEFINE list == s.lists[l]
<1>0. PICK h : After(h, FALSE, l, s, s, list, Len(list))
  BY AfterExists
<1>1. h = [i \in 0 .. Len(list) |-> IF i = 0 THEN s ELSE ElementDestroy(h[i - 1], list[i])]
  BY <1>0 DEF After, Turn
<1> DEFINE f == CHOOSE f : f = [i \in 0 .. Len(list) |-> IF i = 0 THEN s ELSE ElementDestroy(f[i - 1], list[i])]
<1>2. f = [i \in 0 .. Len(list) |-> IF i = 0 THEN s ELSE ElementDestroy(f[i - 1], list[i])]
  BY <1>1
<1>3. ListDestroy(s, l) = [f[Len(list)] EXCEPT !.lists[l] = <<>>]
  BY DEF ListDestroy
<1> HIDE DEF f
<1>4. f[0] = s
  BY <1>2
<1>5. \A i \in 1 .. Len(list) : f[i] = ElementDestroy(f[i - 1], list[i])
  BY <1>2
<1>6. QED
  BY <1>3, <1>4, <1>5

CopyRun(f, s, list, l, who) ==
  /\ DupAll(s, list, l, who) = f[Len(list)] /\ f[0] = s
  /\ \A i \in 1 .. Len(list) : f[i] = DupTurn(f[i - 1], list[i], l, who)

LEMMA DupAllIs ==
  ASSUME NEW s, NEW list, Len(list) \in Nat, NEW l, NEW who
  PROVE  \E f : CopyRun(f, s, list, l, who)
<1>0. PICK h : After(h, TRUE, l, who, s, list, Len(list))
  BY AfterExists
<1>1. h = [i \in 0 .. Len(list) |-> IF i = 0 THEN s ELSE DupTurn(h[i - 1], list[i], l, who)]
  BY <1>0 DEF After, Turn
<1> DEFINE f == CHOOSE f : f = [i \in 0 .. Len(list) |-> IF i = 0 THEN s ELSE DupTurn(f[i - 1], list[i], l, who)]
<1>2. f = [i \in 0 .. Len(list) |-> IF i = 0 THEN s ELSE DupTurn(f[i - 1], list[i], l, who)]
  BY <1>1
<1>3. DupAll(s, list, l, who) = f[Len(list)]
  BY DEF DupAll
<1> HIDE DEF f
<1>4. f[0] = s
  BY <1>2
<1>5. \A i \in 1 .. Len(list) : f[i] = DupTurn(f[i - 1], list[i], l, who)
  BY <1>2
<1>6. QED
  BY <1>3, <1>4, <1>5 DEF CopyRun

\* The elements a destruction has freed after i turns.
Gone(list, i) == {list[j] : j \in 1 .. i}

LEMMA GoneMore ==
  ASSUME NEW list \in Seq(Nat), IsInjective(list), NEW m \in 1 .. Len(list)
  PROVE  Gone(list, m) = Gone(list, m - 1) \cup {list[m]} /\ list[m] \notin Gone(list, m - 1)
<1>1. DOMAIN list = 1 .. Len(list) /\ Len(list) \in Nat
  OBVIOUS
<1>2. \A j : j \in 1 .. m <=> j \in 1 .. m - 1 \/ j = m
  BY <1>1
<1>3. Gone(list, m) = Gone(list, m - 1) \cup {list[m]}
  BY <1>2 DEF Gone
<1>4. \A j \in 1 .. m - 1 : list[j] # list[m]
  BY <1>1 DEF IsInjective
<1>5. QED
  BY <1>3, <1>4 DEF Gone

Destroying(s0, s, t, list, U, i) ==
  /\ BooksOK(t, U \ Gone(list, i))
  /\ t.lists = s.lists /\ t.ret = s.ret /\ t.failure = s.failure
  /\ Extra(s0, s, ToSet(list)) => Extra(s0, t, ToSet(list) \ Gone(list, i))

LEMMA DestroyTurn ==
  ASSUME ObjectAssumption, NEW s0, NEW s, NEW U, NEW list \in Seq(Nat), IsInjective(list),
         ToSet(list) \subseteq U, NEW m \in 1 .. Len(list), NEW t, Destroying(s0, s, t, list, U, m - 1)
  PROVE  Destroying(s0, s, ElementDestroy(t, list[m]), list, U, m)
<1> DEFINE e == list[m]
           W == U \ Gone(list, m - 1)
           V == ToSet(list) \ Gone(list, m - 1)
           t2 == ElementDestroy(t, e)
<1>1. Gone(list, m) = Gone(list, m - 1) \cup {e} /\ e \notin Gone(list, m - 1)
  BY GoneMore
<1>2. e \in ToSet(list)
  BY InSet
<1>3. e \in W /\ e \in V /\ V \subseteq W
  BY <1>1, <1>2
<1>4. U \ Gone(list, m) = W \ {e} /\ ToSet(list) \ Gone(list, m) = V \ {e}
  BY <1>1
<1>5. /\ BooksOK(t, W) /\ t.lists = s.lists /\ t.ret = s.ret /\ t.failure = s.failure
      /\ Extra(s0, s, ToSet(list)) => Extra(s0, t, V)
  BY DEF Destroying
<1> HIDE DEF e, W, V
<1>6. ElementRight(t, t2, e, W)
  BY <1>3, <1>5, ElementKeeps
<1> HIDE DEF t2
<1>7. Extra(s0, t, V) => Extra(s0, t2, V \ {e})
  BY <1>3, <1>5, <1>6, ExtraLess
<1>8. Destroying(s0, s, t2, list, U, m)
  BY <1>4, <1>5, <1>6, <1>7 DEF Destroying, ElementRight
<1>9. QED
  BY <1>8 DEF t2, e

ListDestroyRight(s0, s, s2, l) ==
  /\ ListedOK(s2) /\ s2.ret = s.ret /\ s2.failure = s.failure
  /\ s2.lists = [s.lists EXCEPT ![l] = <<>>]
  /\ Extra(s0, s, ToSet(s.lists[l])) => Extra(s0, s2, {})

LEMMA ListDestroyKeeps ==
  ASSUME ObjectAssumption, NEW s0, NEW s, ListedOK(s), NEW l \in RefLists
  PROVE  ListDestroyRight(s0, s, ListDestroy(s, l), l)
<1> DEFINE list == s.lists[l]
           U == Linked(s.lists)
           n == Len(list)
<1>1. BooksOK(s, U) /\ ChainsOK(s.lists) /\ s.lists \in [RefLists -> Seq(Nat)]
  BY DEF ListedOK, BooksOK, State
<1>2. list \in Seq(Nat) /\ n \in Nat /\ IsInjective(list) /\ ToSet(list) \subseteq U
  <2>1. ToSet(list) \subseteq U
    BY LinkedIs
  <2>2. QED
    BY <1>1, <2>1 DEF ChainsOK
<1>3. PICK f : /\ ListDestroy(s, l) = [f[n] EXCEPT !.lists[l] = <<>>]
               /\ f[0] = s
               /\ \A i \in 1 .. n : f[i] = ElementDestroy(f[i - 1], list[i])
  BY <1>2, DestroyIs
<1> HIDE DEF U
<1> DEFINE Good(i) == Destroying(s0, s, f[i], list, U, i)
           S == {i \in 0 .. n : ~Good(i)}
<1>4. Good(0)
  <2>1. Gone(list, 0) = {}
    BY DEF Gone
  <2>2. U \ {} = U /\ ToSet(list) \ {} = ToSet(list)
    OBVIOUS
  <2>3. QED
    BY <1>1, <1>3, <2>1, <2>2 DEF Destroying
<1>5. ASSUME NEW m \in 1 .. n, Good(m - 1) PROVE Good(m)
  <2>1. f[m] = ElementDestroy(f[m - 1], list[m])
    BY <1>3
  <2> HIDE DEF list
  <2>2. Destroying(s0, s, ElementDestroy(f[m - 1], list[m]), list, U, m)
    BY <1>2, <1>5, DestroyTurn
  <2>3. QED
    BY <2>1, <2>2
<1> HIDE DEF Good, list, n
<1>6. S = {}
  <2> SUFFICES ASSUME S # {} PROVE FALSE
    OBVIOUS
  <2>1. PICK m \in S : \A i \in S : m <= i
    <3>1. S \in SUBSET Nat
      BY <1>2
    <3>2. QED
      BY <3>1, Least
  <2>2. m \in 0 .. n /\ ~Good(m)
    OBVIOUS
  <2>3. m # 0
    BY <1>4, <2>2
  <2>4. m \in 1 .. n /\ m - 1 \in 0 .. n /\ ~(m <= m - 1)
    BY <1>2, <2>2, <2>3
  <2>5. Good(m - 1)
    BY <2>1, <2>4
  <2>6. QED
    BY <1>5, <2>2, <2>4, <2>5
<1>7. Destroying(s0, s, f[n], list, U, n)
  <2>1. n \in 0 .. n
    BY <1>2
  <2>2. QED
    BY <1>6, <2>1 DEF Good
<1> DEFINE t == f[n]
           s2 == [t EXCEPT !.lists[l] = <<>>]
<1> HIDE DEF S, t
<1>8. Gone(list, n) = ToSet(list)
  <2>1. DOMAIN list = 1 .. n
    BY <1>2 DEF n
  <2>2. QED
    BY <2>1 DEF Gone, ToSet
<1>9. /\ BooksOK(t, U \ ToSet(list)) /\ t.lists = s.lists /\ t.ret = s.ret
      /\ t.failure = s.failure /\ (Extra(s0, s, ToSet(list)) => Extra(s0, t, ToSet(list) \ ToSet(list)))
  BY <1>7, <1>8 DEF Destroying, t
<1>10. t \in State
  BY <1>9 DEF BooksOK
<1>11. /\ s2.lists = [s.lists EXCEPT ![l] = <<>>] /\ s2.ret = t.ret /\ s2.failure = t.failure
       /\ s2.objs = t.objs /\ s2.refs = t.refs /\ s2.elems = t.elems
       /\ s2.insts = t.insts /\ s2.count = t.count
  BY <1>9, <1>10 DEF State
<1>12. s2 \in State
  <2>1. [t.lists EXCEPT ![l] = <<>>] \in [RefLists -> Seq(Nat)]
    BY <1>1, <1>9
  <2>2. QED
    BY <1>10, <2>1 DEF State
<1>15. ListDestroy(s, l) = s2
  BY <1>3 DEF t
<1> HIDE DEF s2
<1>13. ListedOK(s2)
  <2>1. ChainsOK(s2.lists) /\ Linked(s2.lists) = U \ ToSet(list)
    <3> DEFINE lists == s.lists
               new == s2.lists
    <3>1. lists \in [RefLists -> Seq(Nat)] /\ ChainsOK(lists) /\ new = [lists EXCEPT ![l] = <<>>]
      BY <1>1, <1>11
    <3>2. U = Linked(lists) /\ list = lists[l]
      BY DEF U, list
    <3> HIDE DEF lists, new
    <3>3. ChainsOK(new) /\ Linked(new) = Linked(lists) \ ToSet(lists[l])
      BY <3>1, ChainsEmptied
    <3>4. QED
      BY <3>2, <3>3 DEF new
  <2>2. BooksOK(s2, U \ ToSet(list))
    BY <1>9, <1>11, <1>12, BooksSame
  <2>3. QED
    BY <2>1, <2>2 DEF ListedOK
<1>14. Extra(s0, s, ToSet(list)) => Extra(s0, s2, {})
  <2>1. ToSet(list) \ ToSet(list) = {}
    OBVIOUS
  <2>2. Extra(s0, t, {}) => Extra(s0, s2, {})
    BY <1>11 DEF Extra, Named
  <2>3. QED
    BY <1>9, <2>1, <2>2
<1>16. QED
  BY <1>9, <1>11, <1>13, <1>14, <1>15 DEF ListDestroyRight, list

\* How far the copy of a list of s into l has come.
Copying(s, t, l) ==
  /\ ListedOK(t) /\ Extra(s, t, ToSet(t.lists[l]))
  /\ \A m \in RefLists : m # l => t.lists[m] = s.lists[m]

LEMMA CopyTurn ==
  ASSUME ObjectAssumption, NEW s, NEW t, NEW l \in RefLists, NEW src \in RefLists, src # l,
         NEW who \in Tasks, Copying(s, t, l), NEW e \in ToSet(s.lists[src])
  PROVE  Copying(s, DupTurn(t, e, l, who), l)
<1> DEFINE r == t.elems[e].ref
           o == t.refs[r].object
           U == Linked(t.lists)
           V == ToSet(t.lists[l])
           t2 == DupInto(t, l, o, who)
<1>1. CASE t.ret = NULL
  BY <1>1 DEF DupTurn
<1>2. CASE t.ret # NULL
  <2>1. DupTurn(t, e, l, who) = t2
    BY <1>2 DEF DupTurn
  <2>2. BooksOK(t, U) /\ ChainsOK(t.lists) /\ Extra(s, t, V)
    BY DEF Copying, ListedOK
  <2>3. /\ t.lists \in [RefLists -> Seq(Nat)] /\ t.refs \in [Refs -> Ref \cup {Free}]
        /\ ObjectsOK(t.objs, t.refs)
    BY <2>2 DEF BooksOK, State
  <2>4. e \in U /\ V \in SUBSET U
    <3>1. e \in ToSet(t.lists[src])
      BY DEF Copying
    <3>2. QED
      BY <3>1, LinkedIs
  <2> HIDE DEF U
  <2>5. r \in Live(t.refs)
    BY <2>2, <2>4, ElementIs
  <2>6. o \in Objs /\ t.objs[o] # Free
    <3>1. t.refs[r] \in Ref
      BY <2>3, <2>5, LiveIs
    <3>2. QED
      BY <2>3, <2>5, <3>1 DEF Ref, ObjectsOK
  <2> HIDE DEF r, o
  <2>7. DupIntoRight(t, t2, l, who, U)
    BY <2>2, <2>6, DupIntoKeeps
  <2> HIDE DEF t2, V
  <2>8. CASE BooksOK(t2, U) /\ NotCopied(t, t2)
    <3>1. ListedOK(t2)
      BY <2>2, <2>8 DEF ListedOK, NotCopied, U
    <3>2. Extra(s, t2, V)
      BY <2>2, <2>8 DEF Extra, Named, NotCopied
    <3>3. t2.lists = t.lists
      BY <2>8 DEF NotCopied
    <3>4. Copying(s, t2, l)
      BY <3>1, <3>2, <3>3 DEF Copying, V
    <3>5. QED
      BY <2>1, <3>4
  <2>9. ASSUME NEW p \in Objs, NEW q \in Refs, NEW d \in Elems,
               BooksOK(t2, U \cup {d}), Copied(t, t2, l, who, p, q, d)
        PROVE  Copying(s, t2, l)
    <3>1. Extra(s, t2, V \cup {d})
      BY <2>2, <2>4, <2>9, ExtraMore
    <3> DEFINE lists == t.lists
               new == t2.lists
    <3>2. /\ lists \in [RefLists -> Seq(Nat)] /\ ChainsOK(lists) /\ d \in Nat
          /\ d \notin Linked(lists) /\ new = WithFirst(lists, l, d)
      <4>1. \A c \in U : t.elems[c] # Free
        BY <2>2, ElementIs
      <4>2. t.elems[d] = Free /\ new = WithFirst(lists, l, d)
        BY <2>9 DEF Copied, WithFirst
      <4>3. d \in Nat
        BY NotNull
      <4>4. QED
        BY <2>2, <2>3, <4>1, <4>2, <4>3 DEF U
    <3>3. U = Linked(lists) /\ V = ToSet(lists[l])
      BY DEF U, V
    <3>4. \A m \in RefLists : m # l => lists[m] = s.lists[m]
      BY DEF Copying
    <3> HIDE DEF lists, new
    <3>5. ChainsOK(new) /\ Linked(new) = U \cup {d} /\ ToSet(new[l]) = V \cup {d}
      <4>1. ChainsOK(new) /\ Linked(new) = Linked(lists) \cup {d} /\ ToSet(new[l]) = ToSet(lists[l]) \cup {d}
        <5>1. ChainedTo(lists, new, l, d)
          BY <3>2, ChainsMore
        <5>2. QED
          BY <5>1 DEF ChainedTo
      <4>2. QED
        BY <3>3, <4>1
    <3>6. \A m \in RefLists : m # l => new[m] = s.lists[m]
      BY <3>2, <3>4 DEF WithFirst
    <3>7. ListedOK(t2)
      BY <2>9, <3>5 DEF ListedOK, new
    <3>8. QED
      BY <3>1, <3>5, <3>6, <3>7 DEF Copying, new
  <2>10. QED
    BY <2>1, <2>7, <2>8, <2>9 DEF DupIntoRight
<1>3. QED
  BY <1>1, <1>2

LEMMA DupAllKeeps ==
  ASSUME ObjectAssumption, NEW s, NEW l \in RefLists, Copying(s, s, l), NEW src \in RefLists, src # l,
         NEW who \in Tasks
  PROVE  Copying(s, DupAll(s, s.lists[src], l, who), l)
<1> DEFINE list == s.lists[src]
           n == Len(list)
<1>1. list \in Seq(Nat) /\ n \in Nat
  <2>1. s.lists \in [RefLists -> Seq(Nat)]
    BY DEF Copying, ListedOK, BooksOK, State
  <2>2. QED
    BY <2>1
<1>2. PICK f : /\ DupAll(s, list, l, who) = f[n]
               /\ f[0] = s
               /\ \A i \in 1 .. n : f[i] = DupTurn(f[i - 1], list[i], l, who)
  <2>1. PICK f : CopyRun(f, s, list, l, who)
    BY <1>1, DupAllIs
  <2>2. QED
    BY <2>1 DEF CopyRun
<1> DEFINE Good(i) == Copying(s, f[i], l)
           S == {i \in 0 .. n : ~Good(i)}
<1>3. Good(0)
  BY <1>2
<1>4. ASSUME NEW m \in 1 .. n, Good(m - 1) PROVE Good(m)
  <2>1. f[m] = DupTurn(f[m - 1], list[m], l, who)
    BY <1>2
  <2>2. list[m] \in ToSet(s.lists[src])
    BY <1>1, InSet
  <2>3. Copying(s, DupTurn(f[m - 1], list[m], l, who), l)
    BY <1>4, <2>2, CopyTurn
  <2>4. QED
    BY <2>1, <2>3
<1> HIDE DEF Good, list, n
<1>5. S = {}
  <2> SUFFICES ASSUME S # {} PROVE FALSE
    OBVIOUS
  <2>1. PICK m \in S : \A i \in S : m <= i
    <3>1. S \in SUBSET Nat
      BY <1>1
    <3>2. QED
      BY <3>1, Least
  <2>2. m \in 0 .. n /\ ~Good(m)
    OBVIOUS
  <2>3. m # 0
    BY <1>3, <2>2
  <2>4. m \in 1 .. n /\ m - 1 \in 0 .. n /\ ~(m <= m - 1)
    BY <1>1, <2>2, <2>3
  <2>5. Good(m - 1)
    BY <2>1, <2>4
  <2>6. QED
    BY <1>4, <2>2, <2>4, <2>5
<1>6. Good(n)
  <2>1. n \in 0 .. n
    BY <1>1
  <2>2. QED
    BY <1>5, <2>1
<1>7. QED
  BY <1>2, <1>6 DEF Good, list

-----------------------------------------------------------------------------
(* The exported functions: what each keeps, and what it has undone where it *)
(* returns NULL.                                                            *)

AsBefore(s, s2) ==
  /\ s2.refs = s.refs /\ s2.elems = s.elems /\ s2.lists = s.lists
  /\ \A o \in Objs : \/ s2.objs[o] = s.objs[o]
                     \/ s.objs[o] # Free /\ s.objs[o].count = 0 /\ s2.objs[o] = Free

CallRight(s, s2) == ListedOK(s2) /\ (s2.ret = NULL => AsBefore(s, s2))

\* No element has been added to a list: the books are those of the same elements.
LEMMA CallListed ==
  ASSUME NEW s, NEW s2, ChainsOK(s.lists), BooksOK(s2, Linked(s.lists)), s2.lists = s.lists
  PROVE  ListedOK(s2)
BY DEF ListedOK

\* An element has.
LEMMA CallAdded ==
  ASSUME ObjectAssumption, NEW s, ListedOK(s), NEW l \in RefLists, NEW e \in Elems, s.elems[e] = Free,
         NEW s2, BooksOK(s2, Linked(s.lists) \cup {e}), s2.lists = WithFirst(s.lists, l, e)
  PROVE  ListedOK(s2)
<1>1. BooksOK(s, Linked(s.lists)) /\ ChainsOK(s.lists) /\ s.lists \in [RefLists -> Seq(Nat)]
  BY DEF ListedOK, BooksOK, State
<1>2. e \notin Linked(s.lists) /\ e \in Nat
  <2>1. \A c \in Linked(s.lists) : s.elems[c] # Free
    BY <1>1, ElementIs
  <2>2. QED
    BY <2>1, NotNull
<1> DEFINE lists == s.lists
           new == s2.lists
<1>3. /\ lists \in [RefLists -> Seq(Nat)] /\ ChainsOK(lists) /\ e \in Nat
      /\ e \notin Linked(lists) /\ new = WithFirst(lists, l, e)
  BY <1>1, <1>2
<1>4. BooksOK(s2, Linked(lists) \cup {e})
  OBVIOUS
<1> HIDE DEF lists, new
<1>5. ChainedTo(lists, new, l, e)
  BY <1>3, ChainsMore
<1>6. ChainsOK(new) /\ Linked(new) = Linked(lists) \cup {e}
  BY <1>5 DEF ChainedTo
<1>7. BooksOK(s2, Linked(new)) /\ ChainsOK(new)
  BY <1>4, <1>6
<1>8. QED
  BY <1>7 DEF ListedOK, new

LEMMA SameIsBefore ==
  ASSUME NEW s, NEW s2, SameBooks(s, s2)
  PROVE  AsBefore(s, s2) /\ s2.lists = s.lists
BY DEF SameBooks, AsBefore

LEMMA CreateCall ==
  ASSUME ObjectAssumption, NEW s, ListedOK(s), NEW c \in Classes
  PROVE  CallRight(s, ObjectCreate(s, c))
<1> DEFINE s2 == ObjectCreate(s, c)
<1>1. BooksOK(s, Linked(s.lists)) /\ ChainsOK(s.lists)
  BY DEF ListedOK
<1>2. BooksOK(s2, Linked(s.lists)) /\ (Refused(s, s2) \/ Created(s, s2, c))
  BY <1>1, CreateKeeps DEF CreateRight
<1> HIDE DEF s2
<1>3. s2.lists = s.lists /\ (s2.ret = NULL => SameBooks(s, s2))
  BY <1>2, NotNull DEF Refused, Created, SameBooks
<1>4. CallRight(s, s2)
  BY <1>1, <1>2, <1>3, CallListed, SameIsBefore DEF CallRight
<1>5. QED
  BY <1>4 DEF s2

LEMMA OpenCall ==
  ASSUME ObjectAssumption, NEW s, ListedOK(s), NEW o \in Objs, s.objs[o] # Free, NEW who \in Tasks
  PROVE  CallRight(s, ObjectOpen(s, o, who))
<1> DEFINE s2 == ObjectOpen(s, o, who)
<1>1. BooksOK(s, Linked(s.lists)) /\ ChainsOK(s.lists)
  BY DEF ListedOK
<1>2. BooksOK(s2, Linked(s.lists)) /\ (Refused(s, s2) \/ OpenedTo(s, s2, o, who))
  BY <1>1, OpenKeeps DEF OpenRight
<1> HIDE DEF s2
<1>3. s2.lists = s.lists /\ (s2.ret = NULL => SameBooks(s, s2))
  BY <1>2, NotNull DEF Refused, OpenedTo, SameBooks
<1>4. CallRight(s, s2)
  BY <1>1, <1>2, <1>3, CallListed, SameIsBefore DEF CallRight
<1>5. QED
  BY <1>4 DEF s2

LEMMA DupCall ==
  ASSUME ObjectAssumption, NEW s, ListedOK(s), NEW o \in Objs, s.objs[o] # Free
  PROVE  CallRight(s, ObjectDup(s, o))
<1> DEFINE s2 == ObjectDup(s, o)
<1>1. BooksOK(s, Linked(s.lists)) /\ ChainsOK(s.lists)
  BY DEF ListedOK
<1>2. BooksOK(s2, Linked(s.lists)) /\ (Refused(s, s2) \/ Created(s, s2, s.objs[o].class))
  BY <1>1, DupKeeps DEF DupRight
<1> HIDE DEF s2
<1>3. s2.lists = s.lists /\ (s2.ret = NULL => SameBooks(s, s2))
  BY <1>2, NotNull DEF Refused, Created, SameBooks
<1>4. CallRight(s, s2)
  BY <1>1, <1>2, <1>3, CallListed, SameIsBefore DEF CallRight
<1>5. QED
  BY <1>4 DEF s2

LEMMA InstanceCall ==
  ASSUME ObjectAssumption, NEW s, ListedOK(s), NEW c \in Classes, NEW who \in Tasks
  PROVE  CallRight(s, ObjectInstance(s, c, who))
<1> DEFINE s2 == ObjectInstance(s, c, who)
<1>1. BooksOK(s, Linked(s.lists)) /\ ChainsOK(s.lists)
  BY DEF ListedOK
<1>2. BooksOK(s2, Linked(s.lists)) /\ s2.lists = s.lists /\ (s2.ret = NULL => SameBooks(s, s2))
  BY <1>1, InstanceKeeps DEF InstanceRight
<1> HIDE DEF s2
<1>3. CallRight(s, s2)
  BY <1>1, <1>2, CallListed, SameIsBefore DEF CallRight
<1>4. QED
  BY <1>3 DEF s2

LEMMA AddCall ==
  ASSUME ObjectAssumption, NEW s, ListedOK(s), NEW l \in RefLists, NEW r \in Live(s.refs),
         \A e \in Linked(s.lists) : s.elems[e].ref # r
  PROVE  CallRight(s, ListAddRef(s, l, r))
<1> DEFINE s2 == ListAddRef(s, l, r)
<1>1. BooksOK(s, Linked(s.lists)) /\ ChainsOK(s.lists)
  BY DEF ListedOK
<1>2. AddRight(s, s2, l, r, Linked(s.lists))
  BY <1>1, AddKeeps
<1> HIDE DEF s2
<1>3. r # NULL
  <2>1. r \in Refs
    BY <1>1, LiveIs DEF BooksOK, State
  <2>2. QED
    BY <2>1, NotNull
<1>4. CASE Refused(s, s2) /\ BooksOK(s2, Linked(s.lists))
  <2>1. CallRight(s, s2)
    BY <1>1, <1>4, CallListed, SameIsBefore DEF CallRight, Refused
  <2>2. QED
    BY <2>1 DEF s2
<1>5. ASSUME NEW e \in Elems, Added(s, s2, l, r, e), BooksOK(s2, Linked(s.lists) \cup {e})
      PROVE  CallRight(s, s2)
  <2>1. s.elems[e] = Free /\ s2.lists = WithFirst(s.lists, l, e) /\ s2.ret = r
    BY <1>5 DEF Added, WithFirst
  <2>2. ListedOK(s2)
    BY <1>5, <2>1, CallAdded
  <2>3. QED
    BY <1>3, <2>1, <2>2 DEF CallRight
<1>6. QED
  BY <1>2, <1>4, <1>5 DEF AddRight, s2

LEMMA OpenListCall ==
  ASSUME ObjectAssumption, NEW s, ListedOK(s), NEW l \in RefLists, NEW o \in Objs, s.objs[o] # Free,
         NEW who \in Tasks
  PROVE  CallRight(s, OpenFromList(s, l, o, who))
<1> DEFINE s2 == OpenFromList(s, l, o, who)
<1>1. BooksOK(s, Linked(s.lists)) /\ ChainsOK(s.lists) /\ s.objs \in [Objs -> Obj \cup {Free}]
  BY DEF ListedOK, BooksOK, State
<1>2. OpenListRight(s, s2, l, o, who, Linked(s.lists))
  BY <1>1, OpenListKeeps
<1> HIDE DEF s2
<1>3. CASE BooksOK(s2, Linked(s.lists)) /\ Refused(s, s2)
  <2>1. CallRight(s, s2)
    BY <1>1, <1>3, CallListed, SameIsBefore DEF CallRight, Refused
  <2>2. QED
    BY <2>1 DEF s2
<1>4. CASE BooksOK(s2, Linked(s.lists)) /\ Undone(s, s2, o)
  <2>1. AsBefore(s, s2)
    <3>1. \A p \in Objs : \/ s2.objs[p] = s.objs[p]
                          \/ s.objs[p] # Free /\ s.objs[p].count = 0 /\ s2.objs[p] = Free
      BY <1>1, <1>4 DEF Undone
    <3>2. QED
      BY <1>4, <3>1 DEF Undone, AsBefore
  <2>2. ListedOK(s2)
    BY <1>1, <1>4, CallListed DEF Undone
  <2>3. QED
    BY <2>1, <2>2 DEF CallRight, s2
<1>5. ASSUME NEW r \in Refs, NEW e \in Elems, Stored(s, s2, l, o, who, r, e),
             BooksOK(s2, Linked(s.lists) \cup {e})
      PROVE  CallRight(s, s2)
  <2>1. s.elems[e] = Free /\ s2.lists = WithFirst(s.lists, l, e) /\ s2.ret # NULL
    BY <1>5, NotNull DEF Stored, WithFirst
  <2>2. ListedOK(s2)
    BY <1>5, <2>1, CallAdded
  <2>3. QED
    BY <2>1, <2>2 DEF CallRight
<1>6. QED
  BY <1>2, <1>3, <1>4, <1>5 DEF OpenListRight, s2

\* Nothing more than before.
LEMMA NoExtra ==
  ASSUME NEW s, NEW s2, Extra(s, s2, {}), NEW U, BooksOK(s2, U)
  PROVE  s2.objs = s.objs /\ s2.refs = s.refs /\ s2.elems = s.elems
<1>1. /\ s.objs \in [Objs -> Obj \cup {Free}] /\ s2.objs \in [Objs -> Obj \cup {Free}]
      /\ s.refs \in [Refs -> Ref \cup {Free}] /\ s2.refs \in [Refs -> Ref \cup {Free}]
      /\ s.elems \in [Elems -> Elem \cup {Free}] /\ s2.elems \in [Elems -> Elem \cup {Free}]
  BY DEF Extra, BooksOK, State
<1>2. Named(s2, {}) = {}
  BY DEF Named
<1>3. /\ \A e \in Elems : s2.elems[e] = s.elems[e]
      /\ \A r \in Refs : s2.refs[r] = s.refs[r]
      /\ \A o \in Objs : s2.objs[o] = s.objs[o]
  BY <1>2 DEF Extra
<1>4. s2.objs = s.objs
  BY <1>1, <1>3
<1>5. s2.refs = s.refs
  BY <1>1, <1>3
<1>6. s2.elems = s.elems
  BY <1>1, <1>3
<1>7. QED
  BY <1>4, <1>5, <1>6

LEMMA DupListCall ==
  ASSUME ObjectAssumption, NEW s, ListedOK(s), NEW l \in RefLists, s.lists[l] = <<>>,
         NEW src \in RefLists, src # l, NEW who \in Tasks
  PROVE  CallRight(s, ListDup(s, src, l, who))
<1> DEFINE s0 == Returns(s, 1)
           s1 == DupAll(s0, s.lists[src], l, who)
           s2 == ListDestroy(s1, l)
<1>1. s \in State /\ s.lists \in [RefLists -> Seq(Nat)]
  BY DEF ListedOK, BooksOK, State
<1>2. /\ s0 \in State /\ s0.objs = s.objs /\ s0.refs = s.refs /\ s0.elems = s.elems
      /\ s0.lists = s.lists /\ s0.insts = s.insts /\ s0.count = s.count
  BY <1>1, StateSame DEF Returns, State
<1>3. BooksOK(s0, Linked(s.lists)) /\ ListedOK(s0)
  BY <1>2, BooksSame DEF ListedOK
<1>4. ToSet(s0.lists[l]) = {}
  <2>1. ToSet(<<>>) = {}
    BY EmptyHolds DEF Holds
  <2>2. QED
    BY <1>2, <2>1
<1>5. Extra(s0, s0, {})
  <2>1. BooksOK(s0, {})
    BY <1>3, BooksLess
  <2>2. Named(s0, {}) = {}
    BY DEF Named
  <2>3. QED
    BY <2>1, <2>2 DEF Extra
<1>6. Copying(s0, s0, l)
  BY <1>3, <1>4, <1>5 DEF Copying
<1> HIDE DEF s0
<1>7. Copying(s0, s1, l)
  <2>1. Copying(s0, DupAll(s0, s0.lists[src], l, who), l)
    BY <1>6, DupAllKeeps
  <2>2. QED
    BY <1>2, <2>1
<1>8. ListDup(s, src, l, who) = IF s1.ret # NULL THEN Returns(s1, Len(s1.lists[l])) ELSE s2
  BY DEF ListDup, s0
<1> HIDE DEF s1
<1>9. /\ BooksOK(s1, Linked(s1.lists)) /\ ChainsOK(s1.lists) /\ s1 \in State
      /\ s1.lists \in [RefLists -> Seq(Nat)] /\ Extra(s0, s1, ToSet(s1.lists[l]))
      /\ \A m \in RefLists : m # l => s1.lists[m] = s.lists[m]
  BY <1>2, <1>7 DEF Copying, ListedOK, BooksOK, State
<1>10. CASE s1.ret # NULL
  <2> DEFINE t == Returns(s1, Len(s1.lists[l]))
  <2>1. Len(s1.lists[l]) \in Nat
    BY <1>9
  <2>2. /\ t \in State /\ t.objs = s1.objs /\ t.refs = s1.refs /\ t.elems = s1.elems
        /\ t.lists = s1.lists /\ t.insts = s1.insts /\ t.count = s1.count
        /\ t.ret = Len(s1.lists[l])
    BY <1>9, <2>1, StateSame DEF Returns, State
  <2> HIDE DEF t
  <2>3. ListedOK(t)
    BY <1>9, <2>2, BooksSame DEF ListedOK
  <2>4. ASSUME t.ret = NULL PROVE AsBefore(s, t)
    <3>1. s1.lists[l] = <<>>
      <4>1. s1.lists[l] \in Seq(Nat)
        BY <1>9
      <4>2. Len(s1.lists[l]) = 0
        BY <2>2, <2>4 DEF NULL
      <4>3. QED
        BY <4>1, <4>2
    <3>2. ToSet(s1.lists[l]) = {}
      BY <3>1, EmptyHolds DEF Holds
    <3>3. s1.objs = s0.objs /\ s1.refs = s0.refs /\ s1.elems = s0.elems
      BY <1>9, <3>2, NoExtra
    <3>4. s1.lists = s.lists
      <4>1. \A m \in RefLists : s1.lists[m] = s.lists[m]
        BY <1>9, <3>1
      <4>2. QED
        BY <1>1, <1>9, <4>1
    <3>5. QED
      BY <1>2, <2>2, <3>3, <3>4 DEF AsBefore
  <2>5. CallRight(s, t)
    BY <2>3, <2>4 DEF CallRight
  <2>6. QED
    BY <1>8, <1>10, <2>5 DEF t
<1>11. CASE s1.ret = NULL
  <2>1. ListDestroyRight(s0, s1, s2, l)
    BY <1>7, ListDestroyKeeps DEF Copying
  <2> HIDE DEF s2
  <2>2. ListedOK(s2) /\ s2.lists = [s1.lists EXCEPT ![l] = <<>>] /\ Extra(s0, s2, {})
    BY <1>9, <2>1 DEF ListDestroyRight
  <2>3. s2.objs = s0.objs /\ s2.refs = s0.refs /\ s2.elems = s0.elems
    BY <2>2, NoExtra DEF ListedOK
  <2>4. s2.lists = s.lists
    BY <1>1, <1>9, <2>2
  <2>5. CallRight(s, s2)
    BY <1>2, <2>2, <2>3, <2>4 DEF CallRight, AsBefore
  <2>6. QED
    BY <1>8, <1>11, <2>5
<1>12. QED
  BY <1>10, <1>11

\* kernel_object_ref_close, and the functions that close what a list has,
\* return nothing.
LEMMA CloseCall ==
  ASSUME ObjectAssumption, NEW s, ListedOK(s), s.ret # NULL, NEW r \in Live(s.refs),
         \A e \in Linked(s.lists) : s.elems[e].ref # r
  PROVE  CallRight(s, RefClose(s, r))
BY CloseListed DEF CallRight

LEMMA RemoveCall ==
  ASSUME ObjectAssumption, NEW s, ListedOK(s), s.ret # NULL, NEW l \in RefLists,
         NEW e \in ToSet(s.lists[l])
  PROVE  /\ CallRight(s, ListRemoveRef(s, l, s.elems[e].ref))
         /\ CallRight(s, CloseFromList(s, l, s.elems[e].ref))
<1> DEFINE s1 == ListRemoveRef(s, l, s.elems[e].ref)
           s2 == CloseFromList(s, l, s.elems[e].ref)
<1>1. ListedOK(s1) /\ s1.ret = s.ret
  BY RemoveListed
<1>2. ListedOK(s2) /\ s2.ret = s.ret
  BY CloseListKeeps
<1> HIDE DEF s1, s2
<1>3. CallRight(s, s1) /\ CallRight(s, s2)
  BY <1>1, <1>2 DEF CallRight
<1>4. QED
  BY <1>3 DEF s1, s2

LEMMA DestroyListCall ==
  ASSUME ObjectAssumption, NEW s, ListedOK(s), s.ret # NULL, NEW l \in RefLists
  PROVE  CallRight(s, ListDestroy(s, l))
<1> DEFINE s2 == ListDestroy(s, l)
<1>1. ListDestroyRight(s, s, s2, l)
  BY ListDestroyKeeps
<1> HIDE DEF s2
<1>2. CallRight(s, s2)
  BY <1>1 DEF ListDestroyRight, CallRight
<1>3. QED
  BY <1>2 DEF s2

-----------------------------------------------------------------------------
(* The invariant.                                                           *)

WithRight(mem) ==
  /\ ListedOK(With(mem)) /\ With(mem).ret # NULL
  /\ With(mem).objs = k.objs /\ With(mem).refs = k.refs /\ With(mem).elems = k.elems
  /\ With(mem).lists = k.lists

LEMMA WithIs ==
  ASSUME ObjectInv, NEW mem \in Nat
  PROVE  WithRight(mem)
<1> DEFINE s == With(mem)
<1>1. k \in State /\ BooksOK(k, Linked(k.lists)) /\ ChainsOK(k.lists)
  BY DEF ObjectInv, ListedOK, BooksOK
<1>2. /\ s \in State /\ s.objs = k.objs /\ s.refs = k.refs /\ s.elems = k.elems
      /\ s.lists = k.lists /\ s.insts = k.insts /\ s.count = k.count /\ s.ret = 1
  BY <1>1 DEF With, State
<1> HIDE DEF s
<1>3. ListedOK(s) /\ s.ret # NULL
  BY <1>1, <1>2, BooksSame DEF ListedOK, NULL
<1>4. QED
  BY <1>2, <1>3 DEF WithRight, s

\* What a call that returns NULL has undone.
CallUndone ==
  k'.ret = NULL /\ k'.failure = "none" =>
    /\ \A o \in Live(k.objs) : k.objs[o].count > 0 => k'.objs[o] = k.objs[o]
    /\ Live(k'.objs) \subseteq Live(k.objs)
    /\ k'.refs = k.refs /\ k'.elems = k.elems /\ k'.lists = k.lists

LEMMA DoesRight ==
  ASSUME ObjectAssumption, ObjectInv, NEW mem \in Nat, NEW s2, CallRight(With(mem), s2), Does(s2)
  PROVE  ObjectInv' /\ CallUndone
<1> DEFINE s == With(mem)
<1>1. /\ ListedOK(s) /\ s.objs = k.objs /\ s.refs = k.refs /\ s.elems = k.elems
      /\ s.lists = k.lists
  BY WithIs DEF WithRight
<1> HIDE DEF s
<1>2. /\ BooksOK(s2, Linked(s2.lists)) /\ ChainsOK(s2.lists) /\ s2 \in State
      /\ (s2.ret = NULL => AsBefore(s, s2))
  BY DEF CallRight, ListedOK, BooksOK, s
<1>3. k' = [s2 EXCEPT !.mem = 0, !.ret = Result(s2)] /\ Result(s2) \in {0, 1}
  BY DEF Does, Result, NULL
<1>4. /\ k' \in State /\ k'.objs = s2.objs /\ k'.refs = s2.refs /\ k'.elems = s2.elems
      /\ k'.lists = s2.lists /\ k'.insts = s2.insts /\ k'.count = s2.count
      /\ k'.ret = Result(s2)
  <2> DEFINE v == Result(s2)
             t == [s2 EXCEPT !.mem = 0, !.ret = v]
  <2>1. v \in Nat
    BY <1>3
  <2> HIDE DEF v
  <2>2. /\ t.objs = s2.objs /\ t.refs = s2.refs /\ t.elems = s2.elems
        /\ t.lists = s2.lists /\ t.insts = s2.insts /\ t.count = s2.count /\ t.ret = v
    BY <1>2 DEF State
  <2>3. t \in State
    BY <1>2, <2>1 DEF State
  <2> HIDE DEF t
  <2>4. k' = t
    BY <1>3 DEF t, v
  <2>5. QED
    BY <2>2, <2>3, <2>4 DEF v
<1>5. ListedOK(k')
  BY <1>2, <1>4, BooksSame DEF ListedOK
<1>6. ASSUME k'.ret = NULL
      PROVE  /\ \A o \in Live(k.objs) : k.objs[o].count > 0 => k'.objs[o] = k.objs[o]
             /\ Live(k'.objs) \subseteq Live(k.objs)
             /\ k'.refs = k.refs /\ k'.elems = k.elems /\ k'.lists = k.lists
  <2>1. AsBefore(s, s2)
    BY <1>2, <1>4, <1>6 DEF Result, NULL
  <2>2. k'.refs = k.refs /\ k'.elems = k.elems /\ k'.lists = k.lists
    BY <1>1, <1>4, <2>1 DEF AsBefore
  <2>3. \A o \in Objs : \/ k'.objs[o] = k.objs[o]
                        \/ k.objs[o] # Free /\ k.objs[o].count = 0 /\ k'.objs[o] = Free
    BY <1>1, <1>4, <2>1 DEF AsBefore
  <2>4. k.objs \in [Objs -> Obj \cup {Free}] /\ k'.objs \in [Objs -> Obj \cup {Free}]
    BY <1>4 DEF ObjectInv, ListedOK, BooksOK, State
  <2>5. ASSUME NEW o \in Live(k.objs), k.objs[o].count > 0 PROVE k'.objs[o] = k.objs[o]
    <3>1. o \in Objs
      BY <2>4, LiveIs
    <3>2. ~(0 > 0)
      OBVIOUS
    <3>3. QED
      BY <2>3, <2>5, <3>1, <3>2
  <2>6. Live(k'.objs) \subseteq Live(k.objs)
    BY <2>3, <2>4, LiveIs
  <2>7. QED
    BY <2>2, <2>5, <2>6
<1>7. QED
  BY <1>5, <1>6 DEF ObjectInv, CallUndone

LEMMA NextRight ==
  ASSUME ObjectAssumption, ObjectInv, ObjectsNext
  PROVE  ObjectInv' /\ CallUndone
<1>0. /\ k.lists \in [RefLists -> Seq(Nat)] /\ k.objs \in [Objs -> Obj \cup {Free}]
      /\ k.refs \in [Refs -> Ref \cup {Free}] /\ 0 \in Nat /\ 0 .. 1 \subseteq Nat /\ 0 .. 2 \subseteq Nat
  BY DEF ObjectInv, ListedOK, BooksOK, State
<1>a. \A o \in Live(k.objs) : o \in Objs /\ k.objs[o] # Free
  BY <1>0, LiveIs
<1>b. \A r \in Unlisted : r \in Live(k.refs) /\ \A e \in Linked(k.lists) : k.elems[e].ref # r
  BY LinkedIs DEF Unlisted, Listed
<1>c. \A mem \in Nat :
        /\ ListedOK(With(mem)) /\ With(mem).ret # NULL
        /\ With(mem).objs = k.objs /\ With(mem).refs = k.refs /\ With(mem).elems = k.elems
        /\ With(mem).lists = k.lists
  BY WithIs DEF WithRight
<1>1. ASSUME NEW c \in Classes, NEW mem \in 0 .. 1, Create(c, mem)
      PROVE  ObjectInv' /\ CallUndone
  <2>1. CallRight(With(mem), ObjectCreate(With(mem), c))
    BY <1>0, <1>c, CreateCall
  <2>2. QED
    BY <1>0, <1>1, <2>1, DoesRight DEF Create
<1>2. ASSUME NEW c \in Classes, NEW who \in Tasks, NEW mem \in 0 .. 2, Instance(c, who, mem)
      PROVE  ObjectInv' /\ CallUndone
  <2>1. CallRight(With(mem), ObjectInstance(With(mem), c, who))
    BY <1>0, <1>c, InstanceCall
  <2>2. QED
    BY <1>0, <1>2, <2>1, DoesRight DEF Instance
<1>3. ASSUME NEW o \in Live(k.objs), NEW who \in Tasks, NEW mem \in 0 .. 1, Open(o, who, mem)
      PROVE  ObjectInv' /\ CallUndone
  <2>1. CallRight(With(mem), ObjectOpen(With(mem), o, who))
    BY <1>0, <1>a, <1>c, OpenCall
  <2>2. QED
    BY <1>0, <1>3, <2>1, DoesRight DEF Open
<1>4. ASSUME NEW o \in Live(k.objs), NEW mem \in 0 .. 2, Dup(o, mem)
      PROVE  ObjectInv' /\ CallUndone
  <2>1. CallRight(With(mem), ObjectDup(With(mem), o))
    BY <1>0, <1>a, <1>c, DupCall
  <2>2. QED
    BY <1>0, <1>4, <2>1, DoesRight DEF Dup
<1>5. ASSUME NEW r \in Unlisted, Close(r)
      PROVE  ObjectInv' /\ CallUndone
  <2>1. CallRight(With(0), RefClose(With(0), r))
    BY <1>0, <1>b, <1>c, CloseCall
  <2>2. QED
    BY <1>0, <1>5, <2>1, DoesRight DEF Close
<1>6. ASSUME NEW l \in RefLists, NEW r \in Unlisted, NEW mem \in 0 .. 1, AddToList(l, r, mem)
      PROVE  ObjectInv' /\ CallUndone
  <2>1. CallRight(With(mem), ListAddRef(With(mem), l, r))
    BY <1>0, <1>b, <1>c, AddCall
  <2>2. QED
    BY <1>0, <1>6, <2>1, DoesRight DEF AddToList
<1>7. ASSUME NEW l \in RefLists, NEW r \in InList(l), RemoveFromList(l, r) \/ CloseInList(l, r)
      PROVE  ObjectInv' /\ CallUndone
  <2>1. PICK e \in ToSet(k.lists[l]) : r = k.elems[e].ref
    BY DEF InList
  <2>2. e \in ToSet(With(0).lists[l]) /\ r = With(0).elems[e].ref
    BY <1>0, <1>c, <2>1
  <2>3. CallRight(With(0), ListRemoveRef(With(0), l, r)) /\ CallRight(With(0), CloseFromList(With(0), l, r))
    BY <1>0, <1>c, <2>2, RemoveCall
  <2>4. QED
    BY <1>0, <1>7, <2>3, DoesRight DEF RemoveFromList, CloseInList
<1>8. ASSUME NEW l \in RefLists, NEW o \in Live(k.objs), NEW who \in Tasks, NEW mem \in 0 .. 2,
             OpenInList(l, o, who, mem)
      PROVE  ObjectInv' /\ CallUndone
  <2>1. CallRight(With(mem), OpenFromList(With(mem), l, o, who))
    BY <1>0, <1>a, <1>c, OpenListCall
  <2>2. QED
    BY <1>0, <1>8, <2>1, DoesRight DEF OpenInList
<1>9. ASSUME NEW l \in RefLists, DestroyList(l)
      PROVE  ObjectInv' /\ CallUndone
  <2>1. CallRight(With(0), ListDestroy(With(0), l))
    BY <1>0, <1>c, DestroyListCall
  <2>2. QED
    BY <1>0, <1>9, <2>1, DoesRight DEF DestroyList
<1>10. ASSUME NEW src \in RefLists, NEW l \in RefLists, NEW who \in Tasks, k.lists[l] = <<>>, src # l,
              NEW mem \in 0 .. 4 * Len(k.lists[src]), DupList(src, l, who, mem)
       PROVE  ObjectInv' /\ CallUndone
  <2>1. mem \in Nat
    <3>1. k.lists[src] \in Seq(Nat)
      BY <1>0
    <3>2. Len(k.lists[src]) \in Nat
      BY <3>1
    <3>3. QED
      BY <3>2
  <2>2. CallRight(With(mem), ListDup(With(mem), src, l, who))
    BY <1>10, <1>c, <2>1, DupListCall
  <2>3. QED
    BY <1>10, <2>1, <2>2, DoesRight DEF DupList
<1>11. QED
  BY <1>1, <1>2, <1>3, <1>4, <1>5, <1>6, <1>7, <1>8, <1>9, <1>10 DEF ObjectsNext

LEMMA InitRight ==
  ASSUME ObjectAssumption, ObjectsInit
  PROVE  ObjectInv
<1>1. /\ k.objs = [o \in Objs |-> Free] /\ k.refs = [r \in Refs |-> Free]
      /\ k.elems = [e \in Elems |-> Free] /\ k.insts = [c \in Classes |-> <<>>]
      /\ k.count = [c \in Classes |-> 0] /\ k.lists = [l \in RefLists |-> <<>>]
  BY DEF ObjectsInit
<1>2. k \in State
  BY DEF ObjectsInit, State, NULL
<1>3. Live(k.objs) = {} /\ Live(k.refs) = {}
  BY <1>1 DEF Live
<1>4. ObjectsOK(k.objs, k.refs)
  BY <1>3 DEF ObjectsOK
<1>5. ClassesOK(k.objs, k.insts, k.count)
  <2>1. \A c \in Classes : InstancesOf(k.objs, c) = {}
    BY <1>3 DEF InstancesOf
  <2>2. QED
    BY <1>1, <2>1, EmptyHolds DEF ClassesOK
<1>6. ToSet(<<>>) = {} /\ IsInjective(<<>>)
  BY EmptyHolds DEF Holds
<1>7. Linked(k.lists) = {}
  BY <1>1, <1>6, LinkedIs
<1>8. ChainsOK(k.lists)
  BY <1>1, <1>6 DEF ChainsOK
<1>9. BooksOK(k, Linked(k.lists))
  BY <1>2, <1>4, <1>5, <1>7 DEF BooksOK, ElemsOK
<1>10. QED
  BY <1>8, <1>9 DEF ObjectInv, ListedOK

LEMMA InvCounts ==
  ASSUME ObjectAssumption, ObjectInv
  PROVE  CountsExact
<1>1. /\ k \in State /\ ObjectsOK(k.objs, k.refs) /\ ClassesOK(k.objs, k.insts, k.count)
      /\ ElemsOK(Linked(k.lists), k.elems, k.refs) /\ ChainsOK(k.lists)
  BY DEF ObjectInv, ListedOK, BooksOK
<1>2. k.failure # "assert"
  BY <1>1 DEF State
<1>3. \A r \in Live(k.refs) : k.objs[k.refs[r].object] # Free
  BY <1>1 DEF ObjectsOK
<1>4. ASSUME NEW o \in Live(k.objs)
      PROVE  /\ ToSet(k.objs[o].refs) = RefsOf(o)
             /\ k.objs[o].count = Len(k.objs[o].refs)
             /\ Cardinality(RefsOf(o)) = k.objs[o].count
             /\ \A t \in Tasks : k.objs[o].told[t] =
                  Cardinality({r \in RefsOf(o) : k.refs[r].owner = t})
  <2>1. ObjOK(k.objs[o], k.refs, o)
    BY <1>1 DEF ObjectsOK
  <2>2. RefsOf(o) = OpenRefs(k.refs, o)
    BY DEF RefsOf, OpenRefs
  <2>3. \A t : {r \in RefsOf(o) : k.refs[r].owner = t} = Seen(k.refs, o, t)
    BY <2>2 DEF Seen
  <2>4. Holds(k.objs[o].refs, RefsOf(o)) /\ k.objs[o].count = Len(k.objs[o].refs)
    BY <2>1, <2>2 DEF ObjOK
  <2>5. Cardinality(RefsOf(o)) = Len(k.objs[o].refs)
    BY <2>4, HoldsCard
  <2>6. \A t \in Tasks : k.objs[o].told[t] = Cardinality(Seen(k.refs, o, t))
    BY <2>1 DEF ObjOK
  <2>7. QED
    BY <2>3, <2>4, <2>5, <2>6 DEF Holds
<1>5. \A c \in Classes :
        /\ ToSet(k.insts[c]) = {o \in Live(k.objs) : k.objs[o].class = c}
        /\ k.count[c] = Len(k.insts[c])
        /\ IsInjective(k.insts[c])
  BY <1>1 DEF ClassesOK, Holds, InstancesOf
<1>6. \A l \in RefLists : \A e \in ToSet(k.lists[l]) :
        /\ k.elems[e] # Free
        /\ k.elems[e].ref \in Live(k.refs)
        /\ k.refs[k.elems[e].ref].element = e
  BY <1>1, LinkedIs DEF ElemsOK, ElemOK
<1>7. QED
  BY <1>1, <1>2, <1>3, <1>4, <1>5, <1>6 DEF CountsExact, ChainsOK

LEMMA ObjectsAlwaysInv == ObjectsSpec => []ObjectInv
<1>1. ObjectsInit => ObjectInv
  BY ObjectAssumption, InitRight
<1>2. ObjectInv /\ [ObjectsNext]_objectVars => ObjectInv'
  <2> SUFFICES ASSUME ObjectInv, [ObjectsNext]_objectVars PROVE ObjectInv'
    OBVIOUS
  <2>1. CASE ObjectsNext
    BY <2>1, ObjectAssumption, NextRight
  <2>2. CASE UNCHANGED objectVars
    BY <2>2 DEF objectVars, ObjectInv
  <2>3. QED
    BY <2>1, <2>2
<1>3. QED
  BY <1>1, <1>2, PTL DEF ObjectsSpec

\* However objects are created, opened, closed, copied and listed, and whichever
\* allocation fails: the counter of an object, its list, the references tasks
\* hold and the calls its class saw agree, the object lives as long as it is
\* counted, and what a list holds can be followed both ways.
THEOREM CountsAlwaysExact == ObjectsSpec => []CountsExact
<1>1. ObjectInv => CountsExact
  BY ObjectAssumption, InvCounts
<1>2. QED
  BY <1>1, ObjectsAlwaysInv, PTL

\* A function of object.c that returns NULL leaves no reference, element or
\* object behind and changes none that has a reference: not even
\* kernel_object_list_dup, however many objects it has copied when it fails.
THEOREM FailuresUndone == ObjectsSpec => FailureUndone
<1>1. ObjectInv /\ [ObjectsNext]_objectVars => [CallUndone]_objectVars
  BY ObjectAssumption, NextRight
<1>2. ObjectsSpec => [][CallUndone]_objectVars
  BY <1>1, ObjectsAlwaysInv, PTL DEF ObjectsSpec
<1>3. QED
  BY <1>2 DEF CallUndone, FailureUndone
=============================================================================
