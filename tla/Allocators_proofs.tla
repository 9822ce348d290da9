---------------------------- MODULE Allocators_proofs ----------------------------
(***************************************************************************)
(* Two allocators of the kernel.  Its heap, for any sizes of object, of    *)
(* slab and of memory: the caches say exactly which objects callers have,  *)
(* and a caller is refused only when there is nothing left.  And the       *)
(* allocator of virtual pages, for every region: no page is lost or given  *)
(* to two callers, releasing a run never meets the bug check, and the      *)
(* sorted list of chunks keeps the promise of PageMap.                     *)
(***************************************************************************)
EXTENDS Salloc, Vremap, SequenceTheorems, FiniteSetTheorems, WellFoundedInduction, TLAPS

-----------------------------------------------------------------------------
(* The inductive invariant, by cache.                                       *)

Place == [slab : Nat, block : Nat]

\* The blocks of a slab that the objects of O are in.
BlocksIn(O, i) == {o.at.block : o \in {p \in O : p.at.slab = i}}

\* A slab, or the own page of a cache, that has the blocks of B in use.
HeaderOK(h, B, n) ==
  /\ B \subseteq 0 .. n - 1 /\ h.bitmap = B
  /\ IsFiniteSet(B) /\ h.used = Cardinality(B)
  /\ h.state = StateOf(h.used, n)

\* A slab that is one big object.
BigOK(h, B) == B \subseteq {0} /\ h.state = IF B = {} THEN "EMPTY" ELSE "FULL"

InState(slabs, s) == {i \in DOMAIN slabs : slabs[i].state = s}

\* The list l has every slab of S once.
Holds(l, S) == l \in Seq(Nat) /\ IsInjective(l) /\ ToSet(l) = S

ListsOK(c) ==
  /\ Holds(c.free, InState(c.slabs, "EMPTY"))
  /\ Holds(c.partial, InState(c.slabs, "PARTIAL"))
  /\ Holds(c.full, InState(c.slabs, "FULL"))

\* What the headers of small slabs count, as pairs.
Counted(slabs) == {p \in (DOMAIN slabs) \X (Nat \ {0}) : p[2] <= slabs[p[1]].used}

SlabsOK(big, slabs, O) ==
  \A i \in DOMAIN slabs : IF big THEN BigOK(slabs[i], BlocksIn(O, i))
                          ELSE HeaderOK(slabs[i], BlocksIn(O, i), SlabObjects)

OwnOK(c, O) ==
  IF c.big THEN c.bitmap = {} /\ c.used = 0 /\ BlocksIn(O, 0) = {}
  ELSE HeaderOK(c, BlocksIn(O, 0), OwnObjects)

CountOK(c, O) ==
  /\ IsFiniteSet(O)
  /\ IF c.big THEN Cardinality(InState(c.slabs, "FULL")) = Cardinality(O)
     ELSE IsFiniteSet(Counted(c.slabs)) /\ c.used + Cardinality(Counted(c.slabs)) = Cardinality(O)

\* Objects named `name' of a cache of n slabs.
Placed(O, name, n) ==
  O \subseteq [name : {name}, at : Place] /\ \A o \in O : o.at.slab \in 0 .. n

\* O is the set of the objects named `name' that cache c has given.
Right(c, O, name) ==
  /\ c \in KmemCache /\ c.slabs_per_alloc > 0
  /\ Placed(O, name, Len(c.slabs))
  /\ ListsOK(c) /\ SlabsOK(c.big, c.slabs, O) /\ OwnOK(c, O) /\ CountOK(c, O)

ObjectsOf(name) == {o \in objects : o.name = name}

Names == {"irqpool", "taskpool"} \X Sizes

\* There is nothing to give the caller that was refused.
NothingLeft(a, left, all) ==
  /\ left < PagesPerSlab(a.name[2])
  /\ a.name \in DOMAIN all =>
       LET c == all[a.name] IN
       c.free = <<>> /\ c.partial = <<>> /\ (c.big \/ c.used = OwnObjects)

SallocInv ==
  /\ trap = "none" /\ pages \in Nat
  /\ DOMAIN caches \subseteq Names /\ caches = [n \in DOMAIN caches |-> caches[n]]
  /\ \A o \in objects : o.name \in DOMAIN caches
  /\ \A name \in DOMAIN caches : Right(caches[name], ObjectsOf(name), name)
  /\ answer.refused => NothingLeft(answer, pages, caches)

-----------------------------------------------------------------------------
(* Lists.                                                                   *)

LEMMA InSet ==
  ASSUME NEW l
  PROVE  \A x : x \in ToSet(l) <=> \E i \in DOMAIN l : x = l[i]
BY DEF ToSet

\* Two lists with nothing in common, one after the other.
LEMMA Joined ==
  ASSUME NEW a, NEW b, NEW S, NEW T, Holds(a, S), Holds(b, T), S \cap T = {}
  PROVE  Holds(a \o b, S \cup T) /\ Len(a \o b) = Len(a) + Len(b)
<1> DEFINE s == a \o b
<1>1. a \in Seq(Nat) /\ b \in Seq(Nat) /\ IsInjective(a) /\ IsInjective(b)
  BY DEF Holds
<1>2. \A x : /\ x \in S <=> \E i \in DOMAIN a : x = a[i]
             /\ x \in T <=> \E i \in DOMAIN b : x = b[i]
  BY InSet DEF Holds
<1>3. /\ s \in Seq(Nat) /\ Len(s) = Len(a) + Len(b)
      /\ \A j \in 1 .. Len(a) + Len(b) : s[j] = IF j <= Len(a) THEN a[j] ELSE b[j - Len(a)]
  BY <1>1, ConcatProperties
<1> HIDE DEF s
<1>4. /\ Len(a) \in Nat /\ Len(b) \in Nat /\ DOMAIN a = 1 .. Len(a) /\ DOMAIN b = 1 .. Len(b)
      /\ DOMAIN s = 1 .. Len(a) + Len(b)
  BY <1>1, <1>3
<1>5. IsInjective(s)
  <2> SUFFICES ASSUME NEW i \in 1 .. Len(a) + Len(b), NEW j \in 1 .. Len(a) + Len(b), s[i] = s[j]
               PROVE  i = j
    BY <1>4 DEF IsInjective
  <2>1. CASE i <= Len(a) /\ j <= Len(a)
    <3>1. i \in DOMAIN a /\ j \in DOMAIN a /\ a[i] = a[j]
      BY <1>3, <1>4, <2>1
    <3>2. QED
      BY <1>1, <3>1 DEF IsInjective
  <2>2. CASE i <= Len(a) /\ j > Len(a)
    <3>1. i \in DOMAIN a /\ j - Len(a) \in DOMAIN b /\ a[i] = b[j - Len(a)]
      BY <1>3, <1>4, <2>2
    <3>2. QED
      BY <1>2, <3>1
  <2>3. CASE i > Len(a) /\ j <= Len(a)
    <3>1. i - Len(a) \in DOMAIN b /\ j \in DOMAIN a /\ a[j] = b[i - Len(a)]
      BY <1>3, <1>4, <2>3
    <3>2. QED
      BY <1>2, <3>1
  <2>4. CASE i > Len(a) /\ j > Len(a)
    <3>1. i - Len(a) \in DOMAIN b /\ j - Len(a) \in DOMAIN b /\ b[i - Len(a)] = b[j - Len(a)]
      BY <1>3, <1>4, <2>4
    <3>2. i - Len(a) = j - Len(a)
      BY <1>1, <3>1 DEF IsInjective
    <3>3. QED
      BY <1>4, <3>2
  <2>5. QED
    BY <1>4, <2>1, <2>2, <2>3, <2>4
<1>6. \A x : x \in ToSet(s) <=> x \in S \cup T
  <2> TAKE x
  <2>1. ASSUME x \in ToSet(s)  PROVE  x \in S \cup T
    <3>1. PICK j \in DOMAIN s : x = s[j]
      BY <2>1, InSet
    <3>2. CASE j <= Len(a)
      <4>1. j \in DOMAIN a /\ x = a[j]
        BY <1>3, <1>4, <3>1, <3>2
      <4>2. QED
        BY <1>2, <4>1
    <3>3. CASE j > Len(a)
      <4>1. j - Len(a) \in DOMAIN b /\ x = b[j - Len(a)]
        BY <1>3, <1>4, <3>1, <3>3
      <4>2. QED
        BY <1>2, <4>1
    <3>4. QED
      BY <1>4, <3>2, <3>3
  <2>2. ASSUME x \in S  PROVE  x \in ToSet(s)
    <3>1. PICK i \in DOMAIN a : x = a[i]
      BY <1>2, <2>2
    <3>2. i \in DOMAIN s /\ s[i] = x
      BY <1>3, <1>4, <3>1
    <3>3. QED
      BY <3>2, InSet
  <2>3. ASSUME x \in T  PROVE  x \in ToSet(s)
    <3>1. PICK i \in DOMAIN b : x = b[i]
      BY <1>2, <2>3
    <3>2. Len(a) + i \in DOMAIN s /\ Len(a) + i > Len(a) /\ (Len(a) + i) - Len(a) = i
      BY <1>4
    <3>3. s[Len(a) + i] = x
      BY <1>3, <1>4, <3>1, <3>2
    <3>4. QED
      BY <3>2, <3>3, InSet
  <2>4. QED
    BY <2>1, <2>2, <2>3
<1>7. QED
  BY <1>3, <1>5, <1>6 DEF Holds, s

LEMMA Single ==
  ASSUME NEW i \in Nat
  PROVE  Holds(<<i>>, {i})
<1>1. <<i>> \in Seq(Nat) /\ DOMAIN <<i>> = {1} /\ <<i>>[1] = i
  OBVIOUS
<1>2. ToSet(<<i>>) = {i}
  BY <1>1, InSet
<1>3. IsInjective(<<i>>)
  BY <1>1 DEF IsInjective
<1>4. QED
  BY <1>1, <1>2, <1>3 DEF Holds

LEMMA Pushed ==
  ASSUME NEW l, NEW S, Holds(l, S), NEW i \in Nat, i \notin S
  PROVE  Holds(<<i>> \o l, S \cup {i})
<1>1. Holds(<<i>> \o l, {i} \cup S)
  BY Single, Joined
<1>2. {i} \cup S = S \cup {i}
  OBVIOUS
<1>3. QED
  BY <1>1, <1>2

\* A list without the slab that is removed, if it has it.
LEMMA Removed ==
  ASSUME NEW l, NEW S, Holds(l, S), NEW i \in Nat
  PROVE  Holds(RemoveFirst(l, i), S \ {i})
<1> DEFINE r == RemoveFirst(l, i)
<1>1. l \in Seq(Nat) /\ IsInjective(l) /\ DOMAIN l = 1 .. Len(l) /\ Len(l) \in Nat
  BY DEF Holds
<1>2. \A x : x \in S <=> \E j \in DOMAIN l : x = l[j]
  BY InSet DEF Holds
<1>3. CASE ~ \E j \in 1 .. Len(l) : l[j] = i
  <2>1. r = l
    BY <1>3 DEF RemoveFirst
  <2>2. S \ {i} = S
    BY <1>1, <1>2, <1>3
  <2>3. QED
    BY <2>1, <2>2
<1>4. CASE \E j \in 1 .. Len(l) : l[j] = i
  <2>1. PICK k \in 1 .. Len(l) : l[k] = i
    BY <1>4
  <2>a. \A j \in 1 .. Len(l) : j # k => l[j] # i
    BY <1>1, <2>1 DEF IsInjective
  <2> DEFINE I == {j \in 1 .. Len(l) : l[j] = i}
  <2>2. I = {k}
    BY <2>1, <2>a
  <2>3. Min(I) = k
    <3>1. Min({k}) = k
      <4>1. k <= k
        BY <1>1
      <4>2. QED
        BY <4>1 DEF Min
    <3> HIDE DEF I
    <3>2. QED
      BY <2>2, <3>1
  <2>4. SelectInSeq(l, LAMBDA v : v = i) = k
    BY <2>2, <2>3 DEF SelectInSeq
  <2> DEFINE a == SubSeq(l, 1, k - 1)
             b == SubSeq(l, k + 1, Len(l))
  <2>5. r = a \o b
    BY <1>4, <2>4 DEF RemoveFirst, RemoveAt
  <2>6. a \in Seq(Nat) /\ Len(a) = k - 1 /\ \A j \in 1 .. k - 1 : a[j] = l[j]
    BY <1>1
  <2>7. b \in Seq(Nat) /\ Len(b) = Len(l) - k /\ \A j \in 1 .. Len(l) - k : b[j] = l[k + j]
    <3>1. k \in Nat /\ 1 <= k /\ k <= Len(l)
      BY <1>1
    <3>2. k + 1 \in Int /\ Len(l) \in Int /\ \A j \in k + 1 .. Len(l) : l[j] \in Nat
      BY <1>1, <3>1
    <3>3. /\ b \in Seq(Nat) /\ Len(b) = IF k + 1 <= Len(l) THEN Len(l) - (k + 1) + 1 ELSE 0
          /\ \A j \in 1 .. Len(l) - (k + 1) + 1 : b[j] = l[k + 1 + j - 1]
      BY <3>2, SubSeqProperties
    <3> HIDE DEF b
    <3>4. Len(l) - (k + 1) + 1 = Len(l) - k
      BY <1>1, <3>1
    <3>5. \A j \in 1 .. Len(l) - k : k + 1 + j - 1 = k + j
      BY <1>1, <3>1
    <3>6. Len(b) = Len(l) - k
      <4>1. Len(b) = IF k + 1 <= Len(l) THEN Len(l) - (k + 1) + 1 ELSE 0
        BY <3>3
      <4>2. Len(l) \in Nat
        BY <1>1
      <4>3. CASE k + 1 <= Len(l)
        BY <3>4, <4>1, <4>3
      <4>4. CASE k = Len(l)
        BY <3>1, <4>1, <4>2, <4>4
      <4>5. QED
        BY <3>1, <4>2, <4>3, <4>4
    <3>7. \A j \in 1 .. Len(l) - k : b[j] = l[k + 1 + j - 1]
      BY <3>3, <3>4
    <3>8. QED
      BY <3>3, <3>5, <3>6, <3>7
  <2> HIDE DEF a, b
  <2>8. DOMAIN a = 1 .. k - 1 /\ DOMAIN b = 1 .. Len(l) - k
    BY <2>6, <2>7
  <2>b. \A j \in DOMAIN b : k + j \in k + 1 .. Len(l) /\ k + j \in DOMAIN l
    BY <1>1, <2>8
  <2>c. \A j \in DOMAIN b : b[j] = l[k + j]
    BY <2>7, <2>8
  <2> DEFINE A == {l[j] : j \in 1 .. k - 1}
             B == {l[j] : j \in k + 1 .. Len(l)}
  <2>9. Holds(a, A)
    <3>1. IsInjective(a)
      BY <1>1, <2>6, <2>8 DEF IsInjective
    <3>2. ToSet(a) = A
      BY <1>1, <2>6, <2>8, InSet
    <3>3. QED
      BY <2>6, <3>1, <3>2 DEF Holds
  <2>10. Holds(b, B)
    <3>1. IsInjective(b)
      <4> SUFFICES ASSUME NEW x \in DOMAIN b, NEW y \in DOMAIN b, b[x] = b[y]
                   PROVE  x = y
        BY DEF IsInjective
      <4>1. k + x \in DOMAIN l /\ k + y \in DOMAIN l /\ l[k + x] = l[k + y]
        BY <2>b, <2>c
      <4>2. k + x = k + y
        BY <1>1, <4>1 DEF IsInjective
      <4>3. QED
        BY <1>1, <2>8, <4>2
    <3>2. \A x : x \in ToSet(b) <=> x \in B
      <4>1. \A j \in k + 1 .. Len(l) : j - k \in DOMAIN b /\ b[j - k] = l[j]
        <5>1. \A j \in k + 1 .. Len(l) : j - k \in 1 .. Len(l) - k /\ k + (j - k) = j
          BY <1>1
        <5>2. QED
          BY <2>7, <2>8, <5>1
      <4>2. QED
        BY <4>1, <2>b, <2>c, InSet
    <3>3. ToSet(b) = B
      BY <3>2
    <3>4. QED
      BY <2>7, <3>1, <3>3 DEF Holds
  <2>11. A \cap B = {}
    <3> SUFFICES ASSUME NEW x \in A, x \in B  PROVE  FALSE
      OBVIOUS
    <3>1. PICK j \in 1 .. k - 1 : x = l[j]
      OBVIOUS
    <3>2. PICK m \in k + 1 .. Len(l) : x = l[m]
      OBVIOUS
    <3>3. j \in DOMAIN l /\ m \in DOMAIN l /\ j # m
      BY <1>1
    <3>4. QED
      BY <1>1, <3>1, <3>2, <3>3 DEF IsInjective
  <2>12. Holds(a \o b, A \cup B)
    BY <2>9, <2>10, <2>11, Joined
  <2>13. A \cup B = S \ {i}
    <3>1. \A j \in 1 .. Len(l) : (j \in 1 .. k - 1 \/ j \in k + 1 .. Len(l)) <=> j # k
      BY <1>1
    <3>2. \A j : j \in 1 .. k - 1 \/ j \in k + 1 .. Len(l) => j \in 1 .. Len(l)
      BY <1>1
    <3>3. \A x : x \in A \cup B <=> \E j \in 1 .. Len(l) : j # k /\ x = l[j]
      BY <3>1, <3>2
    <3>4. \A x : x \in S \ {i} <=> \E j \in 1 .. Len(l) : j # k /\ x = l[j]
      BY <1>1, <1>2, <2>1, <2>a
    <3>5. QED
      BY <3>3, <3>4
  <2>14. QED
    BY <2>5, <2>12, <2>13
<1>5. QED
  BY <1>3, <1>4

\* The slabs a cache grows by, as they are put in its list.
LEMMA NewSlabs ==
  ASSUME NEW k \in Nat, NEW n \in Nat
  PROVE  Holds(Reverse([i \in 1 .. n |-> k + i]), k + 1 .. k + n)
<1> DEFINE f == [i \in 1 .. n |-> k + i]
<1> DEFINE r == Reverse(f)
<1>1. f \in Seq(Nat) /\ Len(f) = n
  OBVIOUS
<1>2. r = [i \in 1 .. n |-> f[(n - i) + 1]]
  BY <1>1 DEF Reverse
<1>3. \A i \in 1 .. n : (n - i) + 1 \in 1 .. n /\ f[(n - i) + 1] = k + ((n - i) + 1)
  OBVIOUS
<1> HIDE DEF f
<1>4. r = [i \in 1 .. n |-> k + ((n - i) + 1)]
  BY <1>2, <1>3
<1> HIDE DEF r
<1>5. r \in Seq(Nat) /\ DOMAIN r = 1 .. n /\ \A i \in 1 .. n : r[i] = k + ((n - i) + 1)
  BY <1>4
<1>6. IsInjective(r)
  BY <1>5 DEF IsInjective
<1>7. \A x : x \in ToSet(r) <=> x \in k + 1 .. k + n
  <2>1. \A x \in k + 1 .. k + n : (k + n) - x + 1 \in 1 .. n /\ x = k + ((n - ((k + n) - x + 1)) + 1)
    OBVIOUS
  <2>2. \A i \in 1 .. n : k + ((n - i) + 1) \in k + 1 .. k + n
    OBVIOUS
  <2>3. QED
    BY <1>5, <2>1, <2>2, InSet
<1>8. QED
  BY <1>5, <1>6, <1>7 DEF Holds, r, f

\* As many places in a list as slabs in it.
LEMMA HoldsCard ==
  ASSUME NEW l, NEW S, Holds(l, S)
  PROVE  IsFiniteSet(S) /\ Cardinality(S) = Len(l)
<1>1. l \in Seq(Nat) /\ IsInjective(l) /\ DOMAIN l = 1 .. Len(l) /\ Len(l) \in Nat
  BY DEF Holds
<1>2. \A x : x \in S <=> \E j \in DOMAIN l : x = l[j]
  BY InSet DEF Holds
<1>3. l \in [1 .. Len(l) -> S]
  <2>1. l = [j \in 1 .. Len(l) |-> l[j]]
    BY <1>1
  <2>2. \A j \in 1 .. Len(l) : l[j] \in S
    BY <1>1, <1>2
  <2>3. QED
    BY <2>1, <2>2
<1>4. l \in Bijection(1 .. Len(l), S)
  BY <1>1, <1>2, <1>3 DEF Bijection, Injection, Surjection, IsInjective
<1>5. ExistsBijection(1 .. Len(l), S)
  BY <1>4 DEF ExistsBijection
<1>6. IsFiniteSet(1 .. Len(l)) /\ Cardinality(1 .. Len(l)) = Len(l)
  <2>1. 1 \in Int /\ Len(l) \in Int /\ (1 > Len(l) => Len(l) = 0) /\ Len(l) - 1 + 1 = Len(l)
    BY <1>1
  <2>2. Cardinality(1 .. Len(l)) = IF 1 > Len(l) THEN 0 ELSE Len(l) - 1 + 1
    BY <2>1, FS_Interval
  <2>3. QED
    BY <2>1, <2>2, FS_Interval
<1>7. QED
  BY <1>5, <1>6, FS_Bijection

-----------------------------------------------------------------------------
(* Sets.                                                                    *)

\* A set of naturals that is not empty has a least element.
LEMMA Least ==
  ASSUME NEW S \in SUBSET Nat, S # {}
  PROVE  \E m \in S : \A n \in S : m <= n
<1> DEFINE R == OpToRel(<, Nat)
<1>1. \E m \in S : \A n \in S : <<n, m>> \notin R
  <2>1. IsWellFoundedOn(R, Nat)
    BY NatLessThanWellFounded
  <2> HIDE DEF R
  <2> QED
    BY <2>1, WFMin
<1>2. ASSUME NEW n \in S, NEW m \in S, n < m PROVE <<n, m>> \in R
  BY <1>2 DEF OpToRel
<1> HIDE DEF R
<1>3. PICK m \in S : \A n \in S : <<n, m>> \notin R
  BY <1>1
<1>4. \A n \in S : ~(n < m)
  BY <1>2, <1>3
<1>5. \A n \in S : m <= n
  BY <1>4
<1>6. QED
  BY <1>5

\* n columns of m.
LEMMA Columns ==
  ASSUME NEW m \in Nat
  PROVE  \A n \in Nat : /\ IsFiniteSet((1 .. n) \X (1 .. m))
                        /\ Cardinality((1 .. n) \X (1 .. m)) = m * n
<1> DEFINE Col(n) == (1 .. n) \X (1 .. m)
           Good(n) == IsFiniteSet(Col(n)) /\ Cardinality(Col(n)) = m * n
           Bad == {n \in Nat : ~ Good(n)}
<1>1. Good(0)
  <2>1. Col(0) = {}
    OBVIOUS
  <2>2. m * 0 = 0
    OBVIOUS
  <2> HIDE DEF Col
  <2>3. QED
    BY <2>1, <2>2, FS_EmptySet
<1>2. ASSUME NEW n \in Nat, Good(n)  PROVE  Good(n + 1)
  <2> DEFINE D == {n + 1} \X (1 .. m)
             f == [j \in 1 .. m |-> <<n + 1, j>>]
  <2>1. f \in Bijection(1 .. m, D)
    <3>1. f \in [1 .. m -> D]
      OBVIOUS
    <3>2. IsInjective(f)
      BY DEF IsInjective
    <3>3. \A p \in D : \E j \in 1 .. m : f[j] = p
      OBVIOUS
    <3>4. QED
      BY <3>1, <3>2, <3>3 DEF Bijection, Injection, Surjection, IsInjective
  <2>2. IsFiniteSet(1 .. m) /\ Cardinality(1 .. m) = m
    BY FS_Interval
  <2>3. ExistsBijection(1 .. m, D)
    BY <2>1 DEF ExistsBijection
  <2>4. IsFiniteSet(D) /\ Cardinality(D) = m
    BY <2>2, <2>3, FS_Bijection
  <2>5. Col(n) \cap D = {}
    OBVIOUS
  <2>6. Col(n + 1) = Col(n) \cup D
    <3>1. 1 .. n + 1 = (1 .. n) \cup {n + 1}
      OBVIOUS
    <3>2. QED
      BY <3>1
  <2>7. m * (n + 1) = m * n + m /\ m * n \in Nat
    OBVIOUS
  <2> HIDE DEF Col, D
  <2>8. Cardinality({}) = 0
    BY FS_EmptySet
  <2>9. QED
    BY <1>2, <2>4, <2>5, <2>6, <2>7, <2>8, FS_Union
<1> HIDE DEF Good
<1>3. Bad = {}
  <2> SUFFICES ASSUME Bad # {}  PROVE  FALSE
    OBVIOUS
  <2>1. PICK n \in Bad : \A k \in Bad : n <= k
    <3>1. Bad \subseteq Nat
      OBVIOUS
    <3>2. QED
      BY <3>1, Least
  <2>2. n # 0
    BY <1>1, <2>1
  <2>3. n - 1 \in Nat /\ Good(n - 1)
    BY <2>1, <2>2
  <2>4. (n - 1) + 1 = n
    BY <2>1
  <2>5. Good(n)
    BY <1>2, <2>3, <2>4
  <2>6. QED
    BY <2>1, <2>5
<1>4. QED
  BY <1>3 DEF Good

-----------------------------------------------------------------------------
(* The blocks of a slab.                                                    *)

\* The other slabs have the same blocks in use.
Others(O, P, i) == \A j : j # i => BlocksIn(P, j) = BlocksIn(O, j)

LEMMA BlocksAdded ==
  ASSUME NEW O, NEW o, NEW i, NEW b, o.at = [slab |-> i, block |-> b]
  PROVE  /\ BlocksIn(O \cup {o}, i) = BlocksIn(O, i) \cup {b}
         /\ Others(O, O \cup {o}, i)
BY DEF BlocksIn, Others

LEMMA BlocksGone ==
  ASSUME NEW name, NEW O, O \subseteq [name : {name}, at : Place], NEW o \in O
  PROVE  /\ BlocksIn(O \ {o}, o.at.slab) = BlocksIn(O, o.at.slab) \ {o.at.block}
         /\ o.at.block \in BlocksIn(O, o.at.slab)
         /\ Others(O, O \ {o}, o.at.slab)
<1>1. \A p \in O : p.at.slab = o.at.slab /\ p.at.block = o.at.block => p = o
  <2> TAKE p \in O
  <2>1. /\ p = [name |-> name, at |-> p.at] /\ o = [name |-> name, at |-> o.at]
        /\ p.at \in Place /\ o.at \in Place
    OBVIOUS
  <2>2. /\ p.at = [slab |-> p.at.slab, block |-> p.at.block]
        /\ o.at = [slab |-> o.at.slab, block |-> o.at.block]
    BY <2>1 DEF Place
  <2>3. QED
    BY <2>1, <2>2
<1>2. QED
  BY <1>1 DEF BlocksIn, Others

\* A header counts no more blocks than there are, and has one free unless it
\* says it is full.
LEMMA HeaderFree ==
  ASSUME NEW h, NEW B, NEW n \in Nat \ {0}, HeaderOK(h, B, n)
  PROVE  /\ h.used \in 0 .. n
         /\ h.state = "FULL" <=> h.used = n
         /\ h.state = "EMPTY" <=> h.used = 0
         /\ h.used = 0 <=> B = {}
         /\ FreeBlocks(h.bitmap, n) = {} <=> h.used = n
<1>1. /\ B \subseteq 0 .. n - 1 /\ h.bitmap = B /\ IsFiniteSet(B) /\ h.used = Cardinality(B)
      /\ h.state = StateOf(h.used, n)
  BY DEF HeaderOK
<1>2. IsFiniteSet(0 .. n - 1) /\ Cardinality(0 .. n - 1) = n
  <2>1. 0 \in Int /\ n - 1 \in Int /\ ~ (0 > n - 1) /\ (n - 1) - 0 + 1 = n
    OBVIOUS
  <2>2. QED
    BY <2>1, FS_Interval
<1>3. h.used \in Nat /\ h.used <= n /\ (h.used = n => B = 0 .. n - 1)
  BY <1>1, <1>2, FS_Subset, FS_CardinalityType
<1>4. h.used = 0 <=> B = {}
  BY <1>1, FS_EmptySet
<1>5. FreeBlocks(h.bitmap, n) = {} <=> B = 0 .. n - 1
  BY <1>1 DEF FreeBlocks
<1>6. QED
  BY <1>1, <1>2, <1>3, <1>4, <1>5 DEF StateOf

LEMMA LowestIsFree ==
  ASSUME NEW bitmap, NEW n \in Nat, FreeBlocks(bitmap, n) # {}
  PROVE  LowestFree(bitmap, n) \in (0 .. n - 1) \ bitmap
<1>1. FreeBlocks(bitmap, n) \subseteq Nat /\ FreeBlocks(bitmap, n) = (0 .. n - 1) \ bitmap
  BY DEF FreeBlocks
<1>2. \E p \in FreeBlocks(bitmap, n) : \A q \in FreeBlocks(bitmap, n) : p <= q
  BY <1>1, Least
<1>3. LowestFree(bitmap, n) \in FreeBlocks(bitmap, n)
  BY <1>2 DEF LowestFree
<1>4. QED
  BY <1>1, <1>3

\* h gives its lowest free block and is t.
LEMMA HeaderTakes ==
  ASSUME NEW h, NEW B, NEW n \in Nat \ {0}, HeaderOK(h, B, n), h.used # n, NEW b,
         b = LowestFree(h.bitmap, n), NEW t, t.bitmap = h.bitmap \cup {b}, t.used = h.used + 1,
         t.state = StateOf(h.used + 1, n)
  PROVE  b \in 0 .. n - 1 /\ b \notin B /\ HeaderOK(t, B \cup {b}, n)
<1>1. /\ B \subseteq 0 .. n - 1 /\ h.bitmap = B /\ IsFiniteSet(B) /\ h.used = Cardinality(B)
  BY DEF HeaderOK
<1>2. FreeBlocks(h.bitmap, n) # {}
  BY HeaderFree
<1>3. b \in 0 .. n - 1 /\ b \notin B
  BY <1>1, <1>2, LowestIsFree
<1>4. IsFiniteSet(B \cup {b}) /\ Cardinality(B \cup {b}) = Cardinality(B) + 1
  BY <1>1, <1>3, FS_AddElement
<1>5. QED
  BY <1>1, <1>3, <1>4 DEF HeaderOK

\* Block b comes back to h, which is t.
Back(h, t, b) ==
  /\ t.bitmap = h.bitmap \ {b} /\ t.used = h.used - 1
  /\ t.state = IF h.used = 1 THEN "EMPTY" ELSE "PARTIAL"

LEMMA HeaderGets ==
  ASSUME NEW h, NEW B, NEW n \in Nat \ {0}, HeaderOK(h, B, n), NEW b \in B, NEW t, Back(h, t, b)
  PROVE  h.used > 0 /\ h.state # "EMPTY" /\ b \in h.bitmap /\ HeaderOK(t, B \ {b}, n)
<1>1. /\ B \subseteq 0 .. n - 1 /\ h.bitmap = B /\ IsFiniteSet(B) /\ h.used = Cardinality(B)
  BY DEF HeaderOK
<1>2. /\ h.used \in 0 .. n /\ h.used # 0 /\ h.state # "EMPTY"
  BY HeaderFree
<1>3. IsFiniteSet(B \ {b}) /\ Cardinality(B \ {b}) = Cardinality(B) - 1
  BY <1>1, FS_RemoveElement
<1>4. t.state = StateOf(t.used, n)
  BY <1>2 DEF StateOf, Back
<1>5. QED
  BY <1>1, <1>2, <1>3, <1>4 DEF HeaderOK, Back

-----------------------------------------------------------------------------
(* What headers count.                                                      *)

LEMMA CountedMore ==
  ASSUME NEW slabs \in Seq(SlabHeader), NEW i \in DOMAIN slabs, NEW s \in SlabHeader,
         s.used = slabs[i].used + 1, IsFiniteSet(Counted(slabs))
  PROVE  /\ IsFiniteSet(Counted([slabs EXCEPT ![i] = s]))
         /\ Cardinality(Counted([slabs EXCEPT ![i] = s])) = Cardinality(Counted(slabs)) + 1
<1> DEFINE new == [slabs EXCEPT ![i] = s]
           p == <<i, s.used>>
<1>a. DOMAIN new = DOMAIN slabs /\ new[i] = s /\ \A j \in DOMAIN slabs : j # i => new[j] = slabs[j]
  OBVIOUS
<1> HIDE DEF new
<1>b. slabs[i] \in SlabHeader
  OBVIOUS
<1>c. slabs[i].used \in Nat /\ s.used \in Nat
  BY <1>b DEF SlabHeader
<1>1. /\ DOMAIN new = DOMAIN slabs /\ new[i] = s /\ \A j \in DOMAIN slabs : j # i => new[j] = slabs[j]
      /\ slabs[i].used \in Nat /\ s.used \in Nat
  BY <1>a, <1>c
<1>2. Counted(new) = Counted(slabs) \cup {p}
  <2>1. \A q \in (DOMAIN slabs) \X (Nat \ {0}) :
          q[2] <= new[q[1]].used <=> q[2] <= slabs[q[1]].used \/ q = p
    <3> TAKE q \in (DOMAIN slabs) \X (Nat \ {0})
    <3>1. q = <<q[1], q[2]>> /\ q[1] \in DOMAIN slabs /\ q[2] \in Nat
      OBVIOUS
    <3>2. CASE q[1] = i
      BY <1>1, <3>1, <3>2
    <3>3. CASE q[1] # i
      BY <1>1, <3>1, <3>3
    <3>4. QED
      BY <3>2, <3>3
  <2>2. p \in (DOMAIN slabs) \X (Nat \ {0})
    BY <1>1
  <2>3. QED
    BY <1>1, <2>1, <2>2 DEF Counted
<1>3. p \notin Counted(slabs)
  BY <1>1 DEF Counted
<1> HIDE DEF p
<1>4. IsFiniteSet(Counted(new)) /\ Cardinality(Counted(new)) = Cardinality(Counted(slabs)) + 1
  BY <1>2, <1>3, FS_AddElement
<1>5. QED
  BY <1>4 DEF new

LEMMA CountedLess ==
  ASSUME NEW slabs \in Seq(SlabHeader), NEW i \in DOMAIN slabs, NEW s \in SlabHeader,
         s.used = slabs[i].used - 1, IsFiniteSet(Counted(slabs))
  PROVE  /\ IsFiniteSet(Counted([slabs EXCEPT ![i] = s]))
         /\ Cardinality(Counted([slabs EXCEPT ![i] = s])) = Cardinality(Counted(slabs)) - 1
<1> DEFINE new == [slabs EXCEPT ![i] = s]
           p == <<i, slabs[i].used>>
<1>a. DOMAIN new = DOMAIN slabs /\ new[i] = s /\ \A j \in DOMAIN slabs : j # i => new[j] = slabs[j]
  OBVIOUS
<1> HIDE DEF new
<1>b. slabs[i] \in SlabHeader
  OBVIOUS
<1>c. slabs[i].used \in Nat /\ s.used \in Nat
  BY <1>b DEF SlabHeader
<1>1. /\ DOMAIN new = DOMAIN slabs /\ new[i] = s /\ \A j \in DOMAIN slabs : j # i => new[j] = slabs[j]
      /\ slabs[i].used \in Nat /\ s.used \in Nat
  BY <1>a, <1>c
<1>2. Counted(new) = Counted(slabs) \ {p}
  <2>1. \A q \in (DOMAIN slabs) \X (Nat \ {0}) :
          q[2] <= new[q[1]].used <=> q[2] <= slabs[q[1]].used /\ q # p
    <3> TAKE q \in (DOMAIN slabs) \X (Nat \ {0})
    <3>1. q = <<q[1], q[2]>> /\ q[1] \in DOMAIN slabs /\ q[2] \in Nat
      OBVIOUS
    <3>2. CASE q[1] = i
      BY <1>1, <3>1, <3>2
    <3>3. CASE q[1] # i
      BY <1>1, <3>1, <3>3
    <3>4. QED
      BY <3>2, <3>3
  <2>2. QED
    BY <1>1, <2>1 DEF Counted
<1>3. p \in Counted(slabs)
  BY <1>1 DEF Counted
<1> HIDE DEF p
<1>4. IsFiniteSet(Counted(new)) /\ Cardinality(Counted(new)) = Cardinality(Counted(slabs)) - 1
  BY <1>2, <1>3, FS_RemoveElement
<1>5. QED
  BY <1>4 DEF new

-----------------------------------------------------------------------------
(* A slab is taken out of its list and put in that of its new state.        *)

\* What a cache has besides its slabs and their lists.
SameOwn(c, d) ==
  /\ d.big = c.big /\ d.state = c.state /\ d.used = c.used /\ d.bitmap = c.bitmap
  /\ d.slabs_per_alloc = c.slabs_per_alloc

LEMMA CacheFields ==
  ASSUME NEW c \in KmemCache
  PROVE  /\ c.big \in BOOLEAN /\ c.state \in States /\ c.used \in Nat /\ c.bitmap \in SUBSET Nat
         /\ c.slabs_per_alloc \in Nat /\ c.slabs \in Seq(SlabHeader)
         /\ c.free \in Seq(Nat) /\ c.partial \in Seq(Nat) /\ c.full \in Seq(Nat)
         /\ Len(c.slabs) \in Nat /\ DOMAIN c.slabs = 1 .. Len(c.slabs)
BY DEF KmemCache

\* The slabs in each state after slab i has got state t.
Moves(slabs, new, i, t) ==
  \A st : InState(new, st) =
            IF t = st THEN (InState(slabs, st) \ {i}) \cup {i} ELSE InState(slabs, st) \ {i}

LEMMA StateMoved ==
  ASSUME NEW slabs \in Seq(SlabHeader), NEW i \in DOMAIN slabs, NEW s
  PROVE  Moves(slabs, [slabs EXCEPT ![i] = s], i, s.state)
<1> DEFINE new == [slabs EXCEPT ![i] = s]
<1>1. DOMAIN new = DOMAIN slabs /\ new[i] = s /\ \A j \in DOMAIN slabs : j # i => new[j] = slabs[j]
  OBVIOUS
<1> HIDE DEF new
<1>2. \A st : \A j : j \in InState(new, st) <=>
                (j \in InState(slabs, st) /\ j # i) \/ (j = i /\ s.state = st)
  BY <1>1 DEF InState
<1>3. \A st : InState(new, st) =
                IF s.state = st THEN (InState(slabs, st) \ {i}) \cup {i} ELSE InState(slabs, st) \ {i}
  BY <1>2
<1>4. QED
  BY <1>3 DEF new, Moves

LEMMA Relisted ==
  ASSUME NEW c \in KmemCache, ListsOK(c), NEW i \in DOMAIN c.slabs, NEW s \in SlabHeader,
         NEW d, d = Listed(Unlisted(c, i), i, s)
  PROVE  /\ d \in KmemCache /\ SameOwn(c, d) /\ ListsOK(d)
         /\ d.slabs = [c.slabs EXCEPT ![i] = s]
<1> DEFINE u == Unlisted(c, i)
           f == RemoveFirst(c.free, i)
           p == RemoveFirst(c.partial, i)
           l == RemoveFirst(c.full, i)
           new == [c.slabs EXCEPT ![i] = s]
           In(st) == InState(c.slabs, st) \ {i}
<1>1. i \in Nat
  BY CacheFields
<1>2. Holds(f, In("EMPTY")) /\ Holds(p, In("PARTIAL")) /\ Holds(l, In("FULL"))
  BY <1>1, Removed DEF ListsOK
<1>3. \A st : i \notin In(st)
  OBVIOUS
<1>4. /\ Holds(<<i>> \o f, In("EMPTY") \cup {i}) /\ Holds(<<i>> \o p, In("PARTIAL") \cup {i})
      /\ Holds(<<i>> \o l, In("FULL") \cup {i})
  BY <1>1, <1>2, <1>3, Pushed
<1>5. new \in Seq(SlabHeader) /\ s.state \in States
  <2>1. c.slabs \in Seq(SlabHeader)
    BY CacheFields
  <2>2. QED
    BY <2>1 DEF SlabHeader
<1>6. \A st : InState(new, st) = IF s.state = st THEN In(st) \cup {i} ELSE In(st)
  <2>1. c.slabs \in Seq(SlabHeader)
    BY CacheFields
  <2>2. Moves(c.slabs, new, i, s.state)
    BY <2>1, StateMoved
  <2> HIDE DEF new
  <2>3. QED
    BY <2>2 DEF Moves
<1>7. u = [c EXCEPT !.free = f, !.partial = p, !.full = l]
  BY DEF Unlisted
<1> HIDE DEF f, p, l
<1>8. /\ u \in KmemCache /\ SameOwn(c, u) /\ u.slabs = c.slabs
      /\ u.free = f /\ u.partial = p /\ u.full = l
  BY <1>2, <1>7 DEF KmemCache, SameOwn, Holds
<1> HIDE DEF u
<1> DEFINE out == [u EXCEPT !.slabs[i] = s]
<1>9. /\ out \in KmemCache /\ SameOwn(c, out) /\ out.slabs = new
      /\ out.free = f /\ out.partial = p /\ out.full = l
  BY <1>5, <1>8 DEF KmemCache, SameOwn
<1>10. d = CASE s.state = "EMPTY"   -> [out EXCEPT !.free = <<i>> \o @]
             [] s.state = "PARTIAL" -> [out EXCEPT !.partial = <<i>> \o @]
             [] s.state = "FULL"    -> [out EXCEPT !.full = <<i>> \o @]
  BY DEF Listed, u
<1> HIDE DEF out, new, In
<1>11. CASE s.state = "EMPTY"
  <2>1. d = [out EXCEPT !.free = <<i>> \o f]
    BY <1>9, <1>10, <1>11
  <2>2. <<i>> \o f \in Seq(Nat)
    BY <1>4 DEF Holds
  <2>3. /\ d \in KmemCache /\ SameOwn(c, d) /\ d.slabs = new
        /\ d.free = <<i>> \o f /\ d.partial = p /\ d.full = l
    BY <1>9, <2>1, <2>2 DEF KmemCache, SameOwn
  <2>4. ListsOK(d)
    BY <1>2, <1>4, <1>6, <1>11, <2>3 DEF ListsOK
  <2>5. QED
    BY <2>3, <2>4 DEF new
<1>12. CASE s.state = "PARTIAL"
  <2>1. d = [out EXCEPT !.partial = <<i>> \o p]
    BY <1>9, <1>10, <1>12
  <2>2. <<i>> \o p \in Seq(Nat)
    BY <1>4 DEF Holds
  <2>3. /\ d \in KmemCache /\ SameOwn(c, d) /\ d.slabs = new
        /\ d.free = f /\ d.partial = <<i>> \o p /\ d.full = l
    BY <1>9, <2>1, <2>2 DEF KmemCache, SameOwn
  <2>4. ListsOK(d)
    BY <1>2, <1>4, <1>6, <1>12, <2>3 DEF ListsOK
  <2>5. QED
    BY <2>3, <2>4 DEF new
<1>13. CASE s.state = "FULL"
  <2>1. d = [out EXCEPT !.full = <<i>> \o l]
    BY <1>9, <1>10, <1>13
  <2>2. <<i>> \o l \in Seq(Nat)
    BY <1>4 DEF Holds
  <2>3. /\ d \in KmemCache /\ SameOwn(c, d) /\ d.slabs = new
        /\ d.free = f /\ d.partial = p /\ d.full = <<i>> \o l
    BY <1>9, <2>1, <2>2 DEF KmemCache, SameOwn
  <2>4. ListsOK(d)
    BY <1>2, <1>4, <1>6, <1>13, <2>3 DEF ListsOK
  <2>5. QED
    BY <2>3, <2>4 DEF new
<1>14. QED
  BY <1>5, <1>11, <1>12, <1>13 DEF States

\* The slabs' headers after slab i has changed, and an object of it with it.
LEMMA SlabsMoved ==
  ASSUME NEW big, NEW slabs \in Seq(SlabHeader), NEW i \in DOMAIN slabs, NEW s, NEW O, NEW P,
         SlabsOK(big, slabs, O), Others(O, P, i),
         IF big THEN BigOK(s, BlocksIn(P, i)) ELSE HeaderOK(s, BlocksIn(P, i), SlabObjects)
  PROVE  SlabsOK(big, [slabs EXCEPT ![i] = s], P)
<1> DEFINE new == [slabs EXCEPT ![i] = s]
<1>1. DOMAIN new = DOMAIN slabs /\ new[i] = s /\ \A j \in DOMAIN slabs : j # i => new[j] = slabs[j]
  OBVIOUS
<1> HIDE DEF new
<1>2. SlabsOK(big, new, P)
  BY <1>1 DEF SlabsOK, Others
<1>3. QED
  BY <1>2 DEF new

\* The own page has no part in it.
LEMMA OwnKept ==
  ASSUME NEW c, NEW d, NEW O, NEW P, SameOwn(c, d), OwnOK(c, O), BlocksIn(P, 0) = BlocksIn(O, 0)
  PROVE  OwnOK(d, P)
BY DEF SameOwn, OwnOK, HeaderOK

-----------------------------------------------------------------------------
(* An object is given.                                                      *)

Given(name, i, b) == [name |-> name, at |-> [slab |-> i, block |-> b]]

LEMMA Adds ==
  ASSUME NEW c, NEW O, NEW name, Right(c, O, name), NEW i \in 0 .. Len(c.slabs), NEW b \in Nat,
         b \notin BlocksIn(O, i), NEW P, P = O \cup {Given(name, i, b)}
  PROVE  /\ Placed(P, name, Len(c.slabs))
         /\ IsFiniteSet(P) /\ Cardinality(P) = Cardinality(O) + 1
         /\ BlocksIn(P, i) = BlocksIn(O, i) \cup {b}
         /\ Others(O, P, i)
<1> DEFINE o == Given(name, i, b)
<1>1. o.at = [slab |-> i, block |-> b]
  BY DEF Given
<1>a. P = O \cup {o}
  OBVIOUS
<1>b. o = Given(name, i, b)
  OBVIOUS
<1> HIDE DEF o
<1>2. /\ BlocksIn(P, i) = BlocksIn(O, i) \cup {b}
      /\ Others(O, P, i)
  <2>1. /\ BlocksIn(O \cup {o}, i) = BlocksIn(O, i) \cup {b}
        /\ Others(O, O \cup {o}, i)
    BY <1>1, BlocksAdded
  <2>2. QED
    BY <1>a, <2>1
<1>3. o \notin O
  BY <1>1 DEF BlocksIn
<1>4. i \in Nat
  BY CacheFields DEF Right
<1>5. o \in [name : {name}, at : Place] /\ o.at.slab = i
  BY <1>1, <1>4, <1>b DEF Given, Place
<1>6. IsFiniteSet(O)
  BY DEF Right, CountOK
<1>7. IsFiniteSet(P) /\ Cardinality(P) = Cardinality(O) + 1
  BY <1>3, <1>6, <1>a, FS_AddElement
<1>8. Placed(P, name, Len(c.slabs))
  BY <1>5, <1>a DEF Right, Placed
<1>9. QED
  BY <1>2, <1>7, <1>8

LEMMA OwnGives ==
  ASSUME SallocAssumption, NEW c, NEW O, NEW name, Right(c, O, name), ~ c.big, c.used # OwnObjects,
         NEW b, b = LowestFree(c.bitmap, OwnObjects), NEW d, d = Taken(c, OwnObjects)
  PROVE  b \in Nat /\ Right(d, O \cup {Given(name, 0, b)}, name)
<1> DEFINE P == O \cup {Given(name, 0, b)}
<1>0. P = O \cup {Given(name, 0, b)}
  OBVIOUS
<1> HIDE DEF P
<1>1. OwnObjects \in Nat \ {0}
  BY DEF SallocAssumption
<1>2. c \in KmemCache /\ HeaderOK(c, BlocksIn(O, 0), OwnObjects)
  BY DEF Right, OwnOK
<1>3. d = [c EXCEPT !.bitmap = c.bitmap \cup {b}, !.used = c.used + 1, !.state = StateOf(c.used + 1, OwnObjects)]
  BY DEF Taken
<1>4. /\ d.bitmap = c.bitmap \cup {b} /\ d.used = c.used + 1 /\ d.state = StateOf(c.used + 1, OwnObjects)
      /\ d.big = c.big /\ d.slabs_per_alloc = c.slabs_per_alloc /\ d.slabs = c.slabs
      /\ d.free = c.free /\ d.partial = c.partial /\ d.full = c.full
  BY <1>2, <1>3 DEF KmemCache
<1>5. b \in 0 .. OwnObjects - 1 /\ b \notin BlocksIn(O, 0) /\ HeaderOK(d, BlocksIn(O, 0) \cup {b}, OwnObjects)
  BY <1>1, <1>2, <1>4, HeaderTakes
<1>6. b \in Nat
  BY <1>1, <1>5
<1>7. d \in KmemCache
  <2>1. d.bitmap \in SUBSET Nat /\ d.used \in Nat /\ d.state \in States
    BY <1>2, <1>4, <1>6, CacheFields DEF StateOf, States
  <2>2. QED
    BY <1>2, <1>3, <1>4, <2>1 DEF KmemCache
<1>8. Len(c.slabs) \in Nat /\ DOMAIN c.slabs = 1 .. Len(c.slabs) /\ 0 \in 0 .. Len(c.slabs)
  BY <1>2, CacheFields
<1>9. /\ Placed(P, name, Len(c.slabs))
      /\ IsFiniteSet(P) /\ Cardinality(P) = Cardinality(O) + 1
      /\ BlocksIn(P, 0) = BlocksIn(O, 0) \cup {b}
      /\ Others(O, P, 0)
  BY <1>0, <1>5, <1>6, <1>8, Adds
<1> HIDE DEF P
<1>10. ListsOK(d)
  BY <1>4 DEF Right, ListsOK
<1>11. SlabsOK(d.big, d.slabs, P)
  BY <1>4, <1>8, <1>9 DEF Right, SlabsOK, Others
<1>12. OwnOK(d, P)
  BY <1>4, <1>5, <1>9 DEF OwnOK
<1>13. CountOK(d, P)
  <2>1. /\ IsFiniteSet(Counted(c.slabs)) /\ c.used \in Nat
        /\ c.used + Cardinality(Counted(c.slabs)) = Cardinality(O)
    BY <1>2, CacheFields DEF Right, CountOK
  <2>2. Cardinality(Counted(c.slabs)) \in Nat
    BY <2>1, FS_CardinalityType
  <2>3. QED
    BY <1>4, <1>9, <2>1, <2>2 DEF CountOK
<1>14. QED
  BY <1>4, <1>6, <1>7, <1>9, <1>10, <1>11, <1>12, <1>13 DEF Right, P

LEMMA SlabGives ==
  ASSUME SallocAssumption, NEW c, NEW O, NEW name, Right(c, O, name), ~ c.big,
         NEW i \in DOMAIN c.slabs, NEW s, s = c.slabs[i], s.used # SlabObjects,
         NEW b, b = LowestFree(s.bitmap, SlabObjects),
         NEW d, d = Listed(Unlisted(c, i), i, Taken(s, SlabObjects))
  PROVE  b \in Nat /\ Right(d, O \cup {Given(name, i, b)}, name)
<1> DEFINE P == O \cup {Given(name, i, b)}
<1>0. P = O \cup {Given(name, i, b)}
  OBVIOUS
<1> HIDE DEF P
<1> DEFINE t == Taken(s, SlabObjects)
<1>1. SlabObjects \in Nat \ {0}
  BY DEF SallocAssumption
<1>2. /\ c \in KmemCache /\ ListsOK(c) /\ Len(c.slabs) \in Nat /\ DOMAIN c.slabs = 1 .. Len(c.slabs)
      /\ c.slabs \in Seq(SlabHeader)
  BY CacheFields DEF Right
<1>3. s \in SlabHeader /\ HeaderOK(s, BlocksIn(O, i), SlabObjects)
  BY <1>2 DEF Right, SlabsOK
<1>4. t = [s EXCEPT !.bitmap = s.bitmap \cup {b}, !.used = s.used + 1, !.state = StateOf(s.used + 1, SlabObjects)]
  BY DEF Taken
<1>5. t.bitmap = s.bitmap \cup {b} /\ t.used = s.used + 1 /\ t.state = StateOf(s.used + 1, SlabObjects)
  BY <1>3, <1>4 DEF SlabHeader
<1>6. b \in 0 .. SlabObjects - 1 /\ b \notin BlocksIn(O, i) /\ HeaderOK(t, BlocksIn(O, i) \cup {b}, SlabObjects)
  BY <1>1, <1>3, <1>5, HeaderTakes
<1>7. b \in Nat
  BY <1>1, <1>6
<1>8. t \in SlabHeader
  <2>1. StateOf(s.used + 1, SlabObjects) \in States
    BY DEF StateOf, States
  <2>2. s.bitmap \cup {b} \in SUBSET Nat /\ s.used + 1 \in Nat
    BY <1>3, <1>7 DEF SlabHeader
  <2>3. DOMAIN s = {"state", "used", "bitmap"}
    BY <1>3 DEF SlabHeader
  <2>4. t = [state |-> StateOf(s.used + 1, SlabObjects), used |-> s.used + 1, bitmap |-> s.bitmap \cup {b}]
    BY <1>4, <2>3
  <2> HIDE DEF t
  <2>5. QED
    BY <2>1, <2>2, <2>4 DEF SlabHeader
<1> HIDE DEF t
<1>9. /\ d \in KmemCache /\ SameOwn(c, d) /\ ListsOK(d)
      /\ d.slabs = [c.slabs EXCEPT ![i] = t]
  BY <1>2, <1>8, Relisted DEF t
<1>10. i \in 0 .. Len(c.slabs) /\ i # 0 /\ Len(d.slabs) = Len(c.slabs)
  BY <1>2, <1>9
<1>11. /\ Placed(P, name, Len(c.slabs))
       /\ IsFiniteSet(P) /\ Cardinality(P) = Cardinality(O) + 1
       /\ BlocksIn(P, i) = BlocksIn(O, i) \cup {b}
       /\ Others(O, P, i)
  BY <1>0, <1>6, <1>7, <1>10, Adds
<1> HIDE DEF P
<1>12. SlabsOK(d.big, d.slabs, P)
  <2>1. SlabsOK(c.big, c.slabs, O)
    BY DEF Right
  <2>2. SlabsOK(c.big, [c.slabs EXCEPT ![i] = t], P)
    BY <1>2, <1>6, <1>11, <2>1, SlabsMoved
  <2>3. QED
    BY <1>9, <2>2 DEF SameOwn
<1>13. OwnOK(d, P)
  BY <1>9, <1>10, <1>11, OwnKept DEF Right, Others
<1>14. CountOK(d, P)
  <2>1. /\ IsFiniteSet(Counted(c.slabs)) /\ c.used \in Nat
        /\ c.used + Cardinality(Counted(c.slabs)) = Cardinality(O)
    BY <1>2, CacheFields DEF Right, CountOK
  <2>2. Cardinality(Counted(c.slabs)) \in Nat
    BY <2>1, FS_CardinalityType
  <2>3. IsFiniteSet(Counted(d.slabs)) /\ Cardinality(Counted(d.slabs)) = Cardinality(Counted(c.slabs)) + 1
    <3>1. t.used = c.slabs[i].used + 1
      BY <1>5
    <3>2. c.slabs \in Seq(SlabHeader) /\ d.slabs = [c.slabs EXCEPT ![i] = t] /\ IsFiniteSet(Counted(c.slabs))
      BY <1>2, <1>9, <2>1
    <3>3. QED
      BY <1>8, <3>1, <3>2, CountedMore
  <2>4. d.used = c.used /\ ~ d.big
    BY <1>9 DEF SameOwn
  <2>5. QED
    BY <1>11, <2>1, <2>2, <2>3, <2>4 DEF CountOK
<1>15. d.slabs_per_alloc > 0
  BY <1>9 DEF SameOwn, Right
<1>16. QED
  BY <1>7, <1>9, <1>10, <1>11, <1>12, <1>13, <1>14, <1>15 DEF Right, P

LEMMA BigGives ==
  ASSUME NEW c, NEW O, NEW name, Right(c, O, name), c.big,
         NEW i \in DOMAIN c.slabs, NEW s, s = c.slabs[i], s.state = "EMPTY",
         NEW d, d = Listed(Unlisted(c, i), i, [s EXCEPT !.state = "FULL"])
  PROVE  Right(d, O \cup {Given(name, i, 0)}, name)
<1> DEFINE P == O \cup {Given(name, i, 0)}
<1>0. P = O \cup {Given(name, i, 0)}
  OBVIOUS
<1> HIDE DEF P
<1> DEFINE t == [s EXCEPT !.state = "FULL"]
<1>1. /\ c \in KmemCache /\ ListsOK(c) /\ Len(c.slabs) \in Nat /\ DOMAIN c.slabs = 1 .. Len(c.slabs)
      /\ c.slabs \in Seq(SlabHeader)
  BY CacheFields DEF Right
<1>2. s \in SlabHeader /\ BigOK(s, BlocksIn(O, i))
  BY <1>1 DEF Right, SlabsOK
<1>3. BlocksIn(O, i) = {}
  BY <1>2 DEF BigOK
<1>4. t \in SlabHeader /\ t.state = "FULL"
  BY <1>2 DEF SlabHeader, States
<1> HIDE DEF t
<1>5. /\ d \in KmemCache /\ SameOwn(c, d) /\ ListsOK(d)
      /\ d.slabs = [c.slabs EXCEPT ![i] = t]
  BY <1>1, <1>4, Relisted DEF t
<1>6. i \in 0 .. Len(c.slabs) /\ i # 0 /\ Len(d.slabs) = Len(c.slabs) /\ 0 \in Nat /\ 0 \notin BlocksIn(O, i)
  BY <1>1, <1>3, <1>5
<1>7. /\ Placed(P, name, Len(c.slabs))
      /\ IsFiniteSet(P) /\ Cardinality(P) = Cardinality(O) + 1
      /\ BlocksIn(P, i) = BlocksIn(O, i) \cup {0}
      /\ Others(O, P, i)
  BY <1>0, <1>6, Adds
<1>8. SlabsOK(d.big, d.slabs, P)
  <2>1. SlabsOK(c.big, c.slabs, O)
    BY DEF Right
  <2>2. BigOK(t, BlocksIn(P, i))
    BY <1>3, <1>4, <1>7 DEF BigOK
  <2>3. SlabsOK(c.big, [c.slabs EXCEPT ![i] = t], P)
    BY <1>1, <1>7, <2>1, <2>2, SlabsMoved
  <2>4. QED
    BY <1>5, <2>3 DEF SameOwn
<1>9. OwnOK(d, P)
  BY <1>5, <1>6, <1>7, OwnKept DEF Right, Others
<1>10. CountOK(d, P)
  <2>1. Moves(c.slabs, d.slabs, i, "FULL")
    BY <1>1, <1>4, <1>5, StateMoved
  <2>2. InState(d.slabs, "FULL") = InState(c.slabs, "FULL") \cup {i} /\ i \notin InState(c.slabs, "FULL")
    BY <2>1 DEF Moves, InState
  <2>3. Cardinality(InState(c.slabs, "FULL")) = Cardinality(O)
    BY DEF Right, CountOK
  <2>4. IsFiniteSet(InState(c.slabs, "FULL"))
    BY <1>1, HoldsCard DEF ListsOK
  <2>5. Cardinality(InState(d.slabs, "FULL")) = Cardinality(O) + 1
    BY <2>2, <2>3, <2>4, FS_AddElement
  <2>6. QED
    BY <1>5, <1>7, <2>5 DEF CountOK, SameOwn
<1>11. d.slabs_per_alloc > 0
  BY <1>5 DEF SameOwn, Right
<1>12. QED
  BY <1>0, <1>5, <1>6, <1>7, <1>8, <1>9, <1>10, <1>11 DEF Right

\* The first of a list is one of the slabs it holds.
LEMMA First ==
  ASSUME NEW l, NEW S, Holds(l, S), l # <<>>
  PROVE  Head(l) \in S
<1>1. l \in Seq(Nat) /\ 1 \in DOMAIN l /\ Head(l) = l[1]
  BY DEF Holds
<1>2. QED
  BY <1>1, InSet DEF Holds

LEMMA EmptyHolds ==
  ASSUME NEW l, NEW S, Holds(l, S)
  PROVE  l = <<>> <=> S = {}
<1>1. l \in Seq(Nat) /\ DOMAIN l = 1 .. Len(l) /\ (l = <<>> <=> Len(l) = 0) /\ Len(l) \in Nat
  BY DEF Holds
<1>2. \A x : x \in S <=> \E j \in DOMAIN l : x = l[j]
  BY InSet DEF Holds
<1>3. CASE l = <<>>
  BY <1>1, <1>2, <1>3
<1>4. CASE l # <<>>
  <2>1. 1 \in DOMAIN l
    BY <1>1, <1>4
  <2>2. QED
    BY <1>2, <1>4, <2>1
<1>5. QED
  BY <1>3, <1>4

\* __kmem_cache_alloc gives an object that no one has, and if it gives none
\* there is none.
LEMMA AllocRight ==
  ASSUME SallocAssumption, NEW c, NEW O, NEW name, Right(c, O, name)
  PROVE  LET r == CacheAlloc(c) IN
         /\ r.failure = "none"
         /\ r.object = NULL => /\ r.cache = c /\ c.free = <<>> /\ c.partial = <<>>
                               /\ c.big \/ c.used = OwnObjects
         /\ r.object # NULL => Right(r.cache, O \cup {[name |-> name, at |-> r.object]}, name)
<1> DEFINE r == CacheAlloc(c)
           Goal == /\ r.failure = "none"
                   /\ r.object = NULL => /\ r.cache = c /\ c.free = <<>> /\ c.partial = <<>>
                                         /\ c.big \/ c.used = OwnObjects
                   /\ r.object # NULL => Right(r.cache, O \cup {[name |-> name, at |-> r.object]}, name)
<1>1. /\ OwnObjects \in Nat \ {0} /\ SlabObjects \in Nat \ {0}
  BY DEF SallocAssumption
<1>2. /\ c \in KmemCache /\ ListsOK(c) /\ SlabsOK(c.big, c.slabs, O) /\ OwnOK(c, O)
  BY DEF Right
<1>3. ASSUME NEW d, NEW o, NEW i, NEW b \in Nat, o = [slab |-> i, block |-> b],
             Right(d, O \cup {Given(name, i, b)}, name), r = Outcome(d, o, "none")
      PROVE  Goal
  <2>1. o # NULL
    BY <1>3 DEF NULL
  <2>2. r.failure = "none" /\ r.object = o /\ r.cache = d
    BY <1>3 DEF Outcome
  <2>3. Given(name, i, b) = [name |-> name, at |-> o]
    BY <1>3 DEF Given
  <2> HIDE DEF r
  <2>4. QED
    BY <1>3, <2>1, <2>2, <2>3
<1>4. ASSUME r = Outcome(c, NULL, "none"), c.free = <<>>, c.partial = <<>>, c.big \/ c.used = OwnObjects
      PROVE  Goal
  BY <1>4 DEF Outcome
<1>5. CASE c.big
  <2>1. r = BigAlloc(c)
    BY <1>5 DEF CacheAlloc
  <2>2. CASE c.free = <<>>
    <3>1. \A i : i \notin InState(c.slabs, "PARTIAL")
      BY <1>2, <1>5 DEF SlabsOK, InState, BigOK
    <3>2. c.partial = <<>>
      BY <1>2, <3>1, EmptyHolds DEF ListsOK
    <3>3. QED
      BY <1>4, <1>5, <2>1, <2>2, <3>2 DEF BigAlloc
  <2>3. CASE c.free # <<>>
    <3> DEFINE i == Head(c.free)
               d == Listed(Unlisted(c, i), i, [c.slabs[i] EXCEPT !.state = "FULL"])
    <3>1. i \in DOMAIN c.slabs /\ c.slabs[i].state = "EMPTY"
      <4>1. i \in InState(c.slabs, "EMPTY")
        BY <1>2, <2>3, First DEF ListsOK
      <4>2. QED
        BY <4>1 DEF InState
    <3>2. r = Outcome(d, [slab |-> i, block |-> 0], "none")
      BY <2>1, <2>3 DEF BigAlloc
    <3>3. Right(d, O \cup {Given(name, i, 0)}, name)
      BY <1>5, <3>1, BigGives
    <3> HIDE DEF d, i
    <3>4. QED
      BY <1>3, <3>2, <3>3
  <2>4. QED
    BY <2>2, <2>3
<1>6. CASE ~ c.big /\ c.state = "FULL"
  <2>1. HeaderOK(c, BlocksIn(O, 0), OwnObjects)
    BY <1>2, <1>6 DEF OwnOK
  <2>2. c.used = OwnObjects
    BY <1>1, <1>6, <2>1, HeaderFree
  <2>3. r = SmallAlloc(c)
    BY <1>6 DEF CacheAlloc
  <2>4. CASE c.free = <<>> /\ c.partial = <<>>
    BY <1>4, <2>2, <2>3, <2>4 DEF SmallAlloc
  <2>5. CASE ~ (c.free = <<>> /\ c.partial = <<>>)
    <3> DEFINE i == IF c.free # <<>> THEN Head(c.free) ELSE Head(c.partial)
               s == c.slabs[i]
               b == LowestFree(s.bitmap, SlabObjects)
               d == Listed(Unlisted(c, i), i, Taken(s, SlabObjects))
    <3>1. i \in DOMAIN c.slabs /\ s.state # "FULL"
      <4>1. i \in InState(c.slabs, "EMPTY") \/ i \in InState(c.slabs, "PARTIAL")
        BY <1>2, <2>5, First DEF ListsOK
      <4>2. QED
        BY <4>1 DEF InState
    <3>2. HeaderOK(s, BlocksIn(O, i), SlabObjects)
      BY <1>2, <1>6, <3>1 DEF SlabsOK
    <3>3. s.used # SlabObjects /\ FreeBlocks(s.bitmap, SlabObjects) # {}
      <4> HIDE DEF s
      <4>1. QED
        BY <1>1, <3>1, <3>2, HeaderFree
    <3>4. r = Outcome(d, [slab |-> i, block |-> b], "none")
      BY <2>3, <2>5, <3>3 DEF SmallAlloc
    <3>5. b \in Nat /\ Right(d, O \cup {Given(name, i, b)}, name)
      <4> HIDE DEF i
      <4>1. QED
        BY <1>6, <3>1, <3>3, SlabGives
    <3> HIDE DEF d, b, s, i
    <3>6. QED
      BY <1>3, <3>4, <3>5
  <2>6. QED
    BY <2>4, <2>5
<1>7. CASE ~ c.big /\ c.state # "FULL"
  <2> DEFINE b == LowestFree(c.bitmap, OwnObjects)
             d == Taken(c, OwnObjects)
  <2>1. HeaderOK(c, BlocksIn(O, 0), OwnObjects)
    BY <1>2, <1>7 DEF OwnOK
  <2>2. c.used # OwnObjects /\ FreeBlocks(c.bitmap, OwnObjects) # {}
    BY <1>1, <1>7, <2>1, HeaderFree
  <2>3. r = Outcome(d, [slab |-> 0, block |-> b], "none")
    BY <1>7, <2>2 DEF CacheAlloc
  <2>4. b \in Nat /\ Right(d, O \cup {Given(name, 0, b)}, name)
    BY <1>7, <2>2, OwnGives
  <2> HIDE DEF d, b
  <2>5. QED
    BY <1>3, <2>3, <2>4
<1>8. QED
  BY <1>5, <1>6, <1>7

-----------------------------------------------------------------------------
(* An object comes back.                                                    *)

\* What is known of the objects P of a cache of n slabs when o leaves O.
Minus(P, O, o, name, n) ==
  /\ Placed(P, name, n)
  /\ IsFiniteSet(P) /\ Cardinality(P) = Cardinality(O) - 1
  /\ o.at.slab \in 0 .. n /\ o.at.block \in BlocksIn(O, o.at.slab)
  /\ BlocksIn(P, o.at.slab) = BlocksIn(O, o.at.slab) \ {o.at.block}
  /\ Others(O, P, o.at.slab)

LEMMA Removes ==
  ASSUME NEW c, NEW O, NEW name, Right(c, O, name), NEW o \in O
  PROVE  Minus(O \ {o}, O, o, name, Len(c.slabs))
<1>1. /\ O \subseteq [name : {name}, at : Place] /\ IsFiniteSet(O)
      /\ \A q \in O : q.at.slab \in 0 .. Len(c.slabs)
  BY DEF Right, Placed, CountOK
<1>2. /\ BlocksIn(O \ {o}, o.at.slab) = BlocksIn(O, o.at.slab) \ {o.at.block}
      /\ o.at.block \in BlocksIn(O, o.at.slab)
      /\ Others(O, O \ {o}, o.at.slab)
  BY <1>1, BlocksGone
<1>3. IsFiniteSet(O \ {o}) /\ Cardinality(O \ {o}) = Cardinality(O) - 1
  BY <1>1, FS_RemoveElement
<1>4. Placed(O \ {o}, name, Len(c.slabs))
  BY <1>1 DEF Placed
<1>5. QED
  BY <1>1, <1>2, <1>3, <1>4 DEF Minus

LEMMA OwnGets ==
  ASSUME SallocAssumption, NEW c, NEW O, NEW name, Right(c, O, name), ~ c.big,
         NEW o \in O, o.at.slab = 0, NEW b, b = o.at.block, NEW d, d = Returned(c, b)
  PROVE  c.used > 0 /\ b \in c.bitmap /\ Right(d, O \ {o}, name)
<1> DEFINE P == O \ {o}
<1>0. P = O \ {o}
  OBVIOUS
<1> HIDE DEF P
<1>1. OwnObjects \in Nat \ {0}
  BY DEF SallocAssumption
<1>2. c \in KmemCache /\ HeaderOK(c, BlocksIn(O, 0), OwnObjects)
  BY DEF Right, OwnOK
<1>3. /\ Placed(P, name, Len(c.slabs))
      /\ IsFiniteSet(P) /\ Cardinality(P) = Cardinality(O) - 1
      /\ b \in BlocksIn(O, 0) /\ BlocksIn(P, 0) = BlocksIn(O, 0) \ {b} /\ Others(O, P, 0)
  <2>1. Minus(P, O, o, name, Len(c.slabs))
    BY <1>0, Removes
  <2>2. QED
    BY <2>1 DEF Minus
<1>4. d = [c EXCEPT !.bitmap = c.bitmap \ {b}, !.used = c.used - 1,
                    !.state = IF c.used = 1 THEN "EMPTY" ELSE "PARTIAL"]
  BY DEF Returned
<1>5. /\ d.bitmap = c.bitmap \ {b} /\ d.used = c.used - 1
      /\ d.state = IF c.used = 1 THEN "EMPTY" ELSE "PARTIAL"
      /\ d.big = c.big /\ d.slabs_per_alloc = c.slabs_per_alloc /\ d.slabs = c.slabs
      /\ d.free = c.free /\ d.partial = c.partial /\ d.full = c.full
  BY <1>2, <1>4 DEF KmemCache
<1>6. c.used > 0 /\ b \in c.bitmap /\ HeaderOK(d, BlocksIn(O, 0) \ {b}, OwnObjects)
  <2>1. Back(c, d, b)
    BY <1>5 DEF Back
  <2>2. QED
    BY <1>1, <1>2, <1>3, <2>1, HeaderGets
<1>7. d \in KmemCache
  <2>1. d.bitmap \in SUBSET Nat /\ d.used \in Nat /\ d.state \in States
    BY <1>2, <1>5, <1>6, CacheFields DEF States
  <2>2. QED
    BY <1>2, <1>4, <1>5, <2>1 DEF KmemCache
<1>8. Len(c.slabs) \in Nat /\ DOMAIN c.slabs = 1 .. Len(c.slabs)
  BY <1>2, CacheFields
<1>9. ListsOK(d)
  BY <1>5 DEF Right, ListsOK
<1>10. SlabsOK(d.big, d.slabs, P)
  BY <1>3, <1>5, <1>8 DEF Right, SlabsOK, Others
<1>11. OwnOK(d, P)
  BY <1>3, <1>5, <1>6 DEF OwnOK
<1>12. CountOK(d, P)
  <2>1. /\ IsFiniteSet(Counted(c.slabs)) /\ c.used \in Nat
        /\ c.used + Cardinality(Counted(c.slabs)) = Cardinality(O)
    BY <1>2, CacheFields DEF Right, CountOK
  <2>2. Cardinality(Counted(c.slabs)) \in Nat
    BY <2>1, FS_CardinalityType
  <2>3. QED
    BY <1>3, <1>5, <2>1, <2>2 DEF CountOK
<1>13. QED
  BY <1>0, <1>3, <1>5, <1>6, <1>7, <1>9, <1>10, <1>11, <1>12 DEF Right

LEMMA SlabGets ==
  ASSUME SallocAssumption, NEW c, NEW O, NEW name, Right(c, O, name), ~ c.big,
         NEW o \in O, NEW i, i = o.at.slab, i # 0, NEW b, b = o.at.block, NEW s, s = c.slabs[i],
         NEW d, d = Listed(Unlisted(c, i), i, Returned(s, b))
  PROVE  s.used > 0 /\ s.state # "EMPTY" /\ b \in s.bitmap /\ Right(d, O \ {o}, name)
<1> DEFINE P == O \ {o}
<1>0. P = O \ {o}
  OBVIOUS
<1> HIDE DEF P
<1> DEFINE t == Returned(s, b)
<1>1. SlabObjects \in Nat \ {0}
  BY DEF SallocAssumption
<1>2. /\ c \in KmemCache /\ ListsOK(c) /\ Len(c.slabs) \in Nat /\ DOMAIN c.slabs = 1 .. Len(c.slabs)
      /\ c.slabs \in Seq(SlabHeader)
  BY CacheFields DEF Right
<1>3. /\ Placed(P, name, Len(c.slabs)) /\ i \in 0 .. Len(c.slabs)
      /\ IsFiniteSet(P) /\ Cardinality(P) = Cardinality(O) - 1
      /\ b \in BlocksIn(O, i) /\ BlocksIn(P, i) = BlocksIn(O, i) \ {b} /\ Others(O, P, i)
  <2>1. Minus(P, O, o, name, Len(c.slabs))
    BY <1>0, Removes
  <2>2. QED
    BY <2>1 DEF Minus
<1>4. i \in DOMAIN c.slabs
  BY <1>2, <1>3
<1>5. s \in SlabHeader /\ HeaderOK(s, BlocksIn(O, i), SlabObjects)
  BY <1>2, <1>4 DEF Right, SlabsOK
<1>6. t = [s EXCEPT !.bitmap = s.bitmap \ {b}, !.used = s.used - 1,
                    !.state = IF s.used = 1 THEN "EMPTY" ELSE "PARTIAL"]
  BY DEF Returned
<1>7. /\ t.bitmap = s.bitmap \ {b} /\ t.used = s.used - 1
      /\ t.state = IF s.used = 1 THEN "EMPTY" ELSE "PARTIAL"
  BY <1>5, <1>6 DEF SlabHeader
<1>8. /\ s.used > 0 /\ s.state # "EMPTY" /\ b \in s.bitmap
      /\ HeaderOK(t, BlocksIn(O, i) \ {b}, SlabObjects)
  <2>1. Back(s, t, b)
    BY <1>7 DEF Back
  <2>2. b \in BlocksIn(O, i) /\ HeaderOK(s, BlocksIn(O, i), SlabObjects)
    BY <1>3, <1>5
  <2> HIDE DEF t
  <2>3. QED
    BY <1>1, <2>1, <2>2, HeaderGets
<1>9. t \in SlabHeader
  <2>a. s.bitmap \in SUBSET Nat /\ s.used \in Nat
    BY <1>5 DEF SlabHeader
  <2>b. s.used > 0
    BY <1>8
  <2>1. s.bitmap \ {b} \in SUBSET Nat /\ s.used - 1 \in Nat
    BY <2>a, <2>b
  <2>2. DOMAIN s = {"state", "used", "bitmap"}
    BY <1>5 DEF SlabHeader
  <2>3. t = [state |-> IF s.used = 1 THEN "EMPTY" ELSE "PARTIAL", used |-> s.used - 1, bitmap |-> s.bitmap \ {b}]
    BY <1>6, <2>2
  <2> HIDE DEF t
  <2>4. QED
    BY <2>1, <2>3 DEF SlabHeader, States
<1> HIDE DEF t
<1>10. /\ d \in KmemCache /\ SameOwn(c, d) /\ ListsOK(d)
       /\ d.slabs = [c.slabs EXCEPT ![i] = t]
  BY <1>2, <1>4, <1>9, Relisted DEF t
<1>11. Len(d.slabs) = Len(c.slabs)
  BY <1>2, <1>10
<1>12. SlabsOK(d.big, d.slabs, P)
  <2>1. SlabsOK(c.big, c.slabs, O)
    BY DEF Right
  <2>2. HeaderOK(t, BlocksIn(P, i), SlabObjects)
    BY <1>3, <1>8
  <2>3. SlabsOK(c.big, [c.slabs EXCEPT ![i] = t], P)
    BY <1>2, <1>3, <1>4, <2>1, <2>2, SlabsMoved
  <2>4. QED
    BY <1>10, <2>3 DEF SameOwn
<1>13. OwnOK(d, P)
  BY <1>3, <1>10, OwnKept DEF Right, Others
<1>14. CountOK(d, P)
  <2>1. /\ IsFiniteSet(Counted(c.slabs)) /\ c.used \in Nat
        /\ c.used + Cardinality(Counted(c.slabs)) = Cardinality(O)
    BY <1>2, CacheFields DEF Right, CountOK
  <2>2. Cardinality(Counted(c.slabs)) \in Nat
    BY <2>1, FS_CardinalityType
  <2>3. IsFiniteSet(Counted(d.slabs)) /\ Cardinality(Counted(d.slabs)) = Cardinality(Counted(c.slabs)) - 1
    <3>1. t.used = c.slabs[i].used - 1
      BY <1>7
    <3>2. c.slabs \in Seq(SlabHeader) /\ d.slabs = [c.slabs EXCEPT ![i] = t] /\ IsFiniteSet(Counted(c.slabs))
      BY <1>2, <1>10, <2>1
    <3>3. QED
      BY <1>4, <1>9, <3>1, <3>2, CountedLess
  <2>4. d.used = c.used /\ ~ d.big
    BY <1>10 DEF SameOwn
  <2>5. QED
    BY <1>3, <2>1, <2>2, <2>3, <2>4 DEF CountOK
<1>15. d.slabs_per_alloc > 0
  BY <1>10 DEF SameOwn, Right
<1>16. QED
  BY <1>0, <1>3, <1>8, <1>10, <1>11, <1>12, <1>13, <1>14, <1>15 DEF Right

LEMMA BigGets ==
  ASSUME NEW c, NEW O, NEW name, Right(c, O, name), c.big,
         NEW o \in O, NEW i, i = o.at.slab, NEW d, d = Listed(Unlisted(c, i), i, EmptySlab)
  PROVE  c.slabs[i].state = "FULL" /\ Right(d, O \ {o}, name)
<1> DEFINE P == O \ {o}
<1>0. P = O \ {o}
  OBVIOUS
<1> HIDE DEF P
<1> DEFINE s == c.slabs[i]
<1>1. /\ c \in KmemCache /\ ListsOK(c) /\ Len(c.slabs) \in Nat /\ DOMAIN c.slabs = 1 .. Len(c.slabs)
      /\ c.slabs \in Seq(SlabHeader)
  BY CacheFields DEF Right
<1>2. /\ Placed(P, name, Len(c.slabs)) /\ i \in 0 .. Len(c.slabs)
      /\ IsFiniteSet(P) /\ Cardinality(P) = Cardinality(O) - 1
      /\ o.at.block \in BlocksIn(O, i) /\ BlocksIn(P, i) = BlocksIn(O, i) \ {o.at.block}
      /\ Others(O, P, i)
  <2>1. Minus(P, O, o, name, Len(c.slabs))
    BY <1>0, Removes
  <2>2. QED
    BY <2>1 DEF Minus
<1>3. i # 0
  BY <1>2 DEF Right, OwnOK
<1>4. i \in DOMAIN c.slabs
  BY <1>1, <1>2, <1>3
<1>5. BigOK(s, BlocksIn(O, i))
  BY <1>1, <1>4 DEF Right, SlabsOK
<1>6. s.state = "FULL" /\ BlocksIn(P, i) = {}
  BY <1>2, <1>5 DEF BigOK
<1>7. EmptySlab \in SlabHeader /\ EmptySlab.state = "EMPTY"
  BY DEF EmptySlab, SlabHeader, States
<1>8. /\ d \in KmemCache /\ SameOwn(c, d) /\ ListsOK(d)
      /\ d.slabs = [c.slabs EXCEPT ![i] = EmptySlab]
  BY <1>1, <1>4, <1>7, Relisted
<1>9. Len(d.slabs) = Len(c.slabs)
  BY <1>1, <1>8
<1>10. SlabsOK(d.big, d.slabs, P)
  <2>1. SlabsOK(c.big, c.slabs, O)
    BY DEF Right
  <2>2. BigOK(EmptySlab, BlocksIn(P, i))
    BY <1>6, <1>7 DEF BigOK
  <2>3. SlabsOK(c.big, [c.slabs EXCEPT ![i] = EmptySlab], P)
    BY <1>1, <1>2, <1>4, <2>1, <2>2, SlabsMoved
  <2>4. QED
    BY <1>8, <2>3 DEF SameOwn
<1>11. OwnOK(d, P)
  BY <1>2, <1>3, <1>8, OwnKept DEF Right, Others
<1>12. CountOK(d, P)
  <2>1. Moves(c.slabs, d.slabs, i, "EMPTY")
    <3>1. Moves(c.slabs, [c.slabs EXCEPT ![i] = EmptySlab], i, EmptySlab.state)
      BY <1>1, <1>4, StateMoved
    <3>2. QED
      BY <1>7, <1>8, <3>1
  <2>2. InState(d.slabs, "FULL") = InState(c.slabs, "FULL") \ {i} /\ i \in InState(c.slabs, "FULL")
    BY <1>4, <1>6, <2>1 DEF Moves, InState
  <2>3. Cardinality(InState(c.slabs, "FULL")) = Cardinality(O)
    BY DEF Right, CountOK
  <2>4. IsFiniteSet(InState(c.slabs, "FULL"))
    BY <1>1, HoldsCard DEF ListsOK
  <2>5. Cardinality(InState(d.slabs, "FULL")) = Cardinality(O) - 1
    BY <2>2, <2>3, <2>4, FS_RemoveElement
  <2>6. QED
    BY <1>2, <1>8, <2>5 DEF CountOK, SameOwn
<1>13. d.slabs_per_alloc > 0
  BY <1>8 DEF SameOwn, Right
<1>14. QED
  BY <1>0, <1>2, <1>6, <1>8, <1>9, <1>10, <1>11, <1>12, <1>13 DEF Right

\* __kmem_cache_free never meets its sanity checks.
LEMMA FreeRight ==
  ASSUME SallocAssumption, NEW c, NEW O, NEW name, Right(c, O, name), NEW o \in O
  PROVE  LET r == CacheFree(c, o.at) IN
         r.failure = "none" /\ Right(r.cache, O \ {o}, name)
<1> DEFINE r == CacheFree(c, o.at)
<1>1. CASE c.big
  <2> DEFINE d == Listed(Unlisted(c, o.at.slab), o.at.slab, EmptySlab)
  <2>1. c.slabs[o.at.slab].state = "FULL" /\ Right(d, O \ {o}, name)
    BY <1>1, BigGets
  <2>2. r = Outcome(d, NULL, "none")
    BY <1>1, <2>1 DEF CacheFree, BigFree
  <2> HIDE DEF d
  <2>3. QED
    BY <2>1, <2>2 DEF Outcome
<1>2. CASE ~ c.big /\ o.at.slab # 0
  <2> DEFINE s == c.slabs[o.at.slab]
             d == Listed(Unlisted(c, o.at.slab), o.at.slab, Returned(s, o.at.block))
  <2>1. s.used > 0 /\ s.state # "EMPTY" /\ o.at.block \in s.bitmap /\ Right(d, O \ {o}, name)
    BY <1>2, SlabGets
  <2>2. r = Outcome(d, NULL, "none")
    BY <1>2, <2>1 DEF CacheFree, SmallFree
  <2> HIDE DEF d
  <2>3. QED
    BY <2>1, <2>2 DEF Outcome
<1>3. CASE ~ c.big /\ o.at.slab = 0
  <2> DEFINE d == Returned(c, o.at.block)
  <2>1. c.used > 0 /\ o.at.block \in c.bitmap /\ Right(d, O \ {o}, name)
    BY <1>3, OwnGets
  <2>2. r = Outcome(d, NULL, "none")
    BY <1>3, <2>1 DEF CacheFree
  <2> HIDE DEF d
  <2>3. QED
    BY <2>1, <2>2 DEF Outcome
<1>4. QED
  BY <1>1, <1>2, <1>3

-----------------------------------------------------------------------------
(* A cache is created and grows.                                            *)

LEMMA NewRight ==
  ASSUME SallocAssumption, NEW big \in BOOLEAN, NEW name
  PROVE  Right(NewCache(big), {}, name)
<1> DEFINE c == NewCache(big)
<1>1. /\ c.big = big /\ c.state = "EMPTY" /\ c.used = 0 /\ c.bitmap = {} /\ c.slabs_per_alloc = 1
      /\ c.slabs = <<>> /\ c.free = <<>> /\ c.partial = <<>> /\ c.full = <<>>
  BY DEF NewCache
<1>2. c \in KmemCache /\ c.slabs_per_alloc > 0
  BY DEF NewCache, KmemCache, States
<1> HIDE DEF c
<1>3. \A i : BlocksIn({}, i) = {}
  BY DEF BlocksIn
<1>4. \A st : InState(<<>>, st) = {}
  BY DEF InState
<1>5. Holds(<<>>, {})
  <2>1. ToSet(<<>>) = {}
    BY DEF ToSet
  <2>2. IsInjective(<<>>)
    BY DEF IsInjective
  <2>3. QED
    BY <2>1, <2>2 DEF Holds
<1>6. ListsOK(c)
  BY <1>1, <1>4, <1>5 DEF ListsOK
<1>7. SlabsOK(c.big, c.slabs, {})
  BY <1>1 DEF SlabsOK
<1>8. IsFiniteSet({}) /\ Cardinality({}) = 0
  BY FS_EmptySet
<1>9. OwnObjects # 0 /\ OwnObjects \in Nat
  BY DEF SallocAssumption
<1>10. OwnOK(c, {})
  BY <1>1, <1>3, <1>8, <1>9 DEF OwnOK, HeaderOK, StateOf
<1>11. Counted(<<>>) = {}
  BY DEF Counted
<1>12. CountOK(c, {})
  <2>1. Counted(c.slabs) = {} /\ InState(c.slabs, "FULL") = {}
    BY <1>1, <1>4, <1>11
  <2>2. c.used + Cardinality(Counted(c.slabs)) = Cardinality({})
    <3>1. Cardinality(Counted(c.slabs)) = 0
      BY <1>8, <2>1
    <3>2. c.used = 0 /\ 0 + 0 = 0
      BY <1>1
    <3>3. QED
      BY <1>8, <3>1, <3>2
  <2>3. QED
    BY <1>8, <2>1, <2>2 DEF CountOK
<1>13. Placed({}, name, Len(c.slabs))
  BY DEF Placed
<1>14. QED
  BY <1>2, <1>6, <1>7, <1>10, <1>12, <1>13 DEF Right, c

\* Cache c with n slabs more.
Larger(c, n, m) ==
  [c EXCEPT !.slabs = c.slabs \o [i \in 1 .. n |-> EmptySlab],
            !.free = Reverse([i \in 1 .. n |-> Len(c.slabs) + i]) \o c.free,
            !.slabs_per_alloc = m]

\* They are empty, and no object is in them.
LEMMA MoreSlabs ==
  ASSUME SallocAssumption, NEW c, NEW O, NEW name, Right(c, O, name), NEW n \in Nat, NEW m,
         m \in Nat, m > 0,
         NEW d, d = Larger(c, n, m)
  PROVE  /\ Right(d, O, name) /\ Len(d.free) = n + Len(c.free)
         /\ d.big = c.big /\ d.used = c.used /\ d.partial = c.partial
<1> DEFINE k == Len(c.slabs)
           more == [i \in 1 .. n |-> EmptySlab]
           new == c.slabs \o more
           add == Reverse([i \in 1 .. n |-> k + i])
<1>1. /\ c \in KmemCache /\ ListsOK(c) /\ k \in Nat /\ DOMAIN c.slabs = 1 .. k
      /\ c.slabs \in Seq(SlabHeader)
  BY CacheFields DEF Right
<1>2. EmptySlab \in SlabHeader /\ EmptySlab.state = "EMPTY" /\ EmptySlab.used = 0 /\ EmptySlab.bitmap = {}
  BY DEF EmptySlab, SlabHeader, States
<1>3. more \in Seq(SlabHeader) /\ Len(more) = n /\ \A i \in 1 .. n : more[i] = EmptySlab
  BY <1>2
<1>4. /\ new \in Seq(SlabHeader) /\ DOMAIN new = 1 .. k + n
      /\ \A i \in 1 .. k : new[i] = c.slabs[i]
      /\ \A i \in k + 1 .. k + n : new[i] = EmptySlab
  <2>1. /\ new \in Seq(SlabHeader) /\ Len(new) = k + n
        /\ \A i \in 1 .. k + n : new[i] = IF i <= k THEN c.slabs[i] ELSE more[i - k]
    <3> HIDE DEF more
    <3>1. c.slabs \in Seq(SlabHeader) /\ more \in Seq(SlabHeader)
      BY <1>1, <1>3
    <3>2. /\ new \in Seq(SlabHeader) /\ Len(new) = Len(c.slabs) + Len(more)
          /\ \A i \in 1 .. Len(c.slabs) + Len(more) :
               new[i] = IF i <= Len(c.slabs) THEN c.slabs[i] ELSE more[i - Len(c.slabs)]
      BY <3>1, ConcatProperties
    <3> HIDE DEF new
    <3>3. QED
      BY <1>3, <3>2
  <2> HIDE DEF new, more, k
  <2>2. DOMAIN new = 1 .. k + n
    BY <1>1, <2>1
  <2>3. \A i \in 1 .. k : i \in 1 .. k + n /\ i <= k
    BY <1>1
  <2>4. \A i \in k + 1 .. k + n : i \in 1 .. k + n /\ ~ (i <= k) /\ i - k \in 1 .. n
    BY <1>1
  <2>5. QED
    BY <1>3, <2>1, <2>2, <2>3, <2>4
<1>5. Holds(add, k + 1 .. k + n)
  BY <1>1, NewSlabs
<1> HIDE DEF new, more, add, k
<1>6. k + 1 .. k + n \subseteq Nat /\ (1 .. k) \cap (k + 1 .. k + n) = {} /\ 1 .. k + n = (1 .. k) \cup (k + 1 .. k + n)
  BY <1>1
<1>7. Holds(c.free, InState(c.slabs, "EMPTY")) /\ InState(c.slabs, "EMPTY") \subseteq 1 .. k
  BY <1>1 DEF ListsOK, InState
<1>8. /\ Holds(add \o c.free, (k + 1 .. k + n) \cup InState(c.slabs, "EMPTY"))
      /\ Len(add \o c.free) = Len(add) + Len(c.free)
  <2>1. (k + 1 .. k + n) \cap InState(c.slabs, "EMPTY") = {}
    BY <1>6, <1>7
  <2>2. QED
    BY <1>5, <1>7, <2>1, Joined
<1>9. Len(add) = n
  <2>1. Cardinality(k + 1 .. k + n) = Len(add)
    BY <1>5, HoldsCard
  <2>2. k + 1 \in Int /\ k + n \in Int /\ (k + 1 > k + n => n = 0) /\ (k + n) - (k + 1) + 1 = n
    BY <1>1
  <2>3. Cardinality(k + 1 .. k + n) = IF k + 1 > k + n THEN 0 ELSE (k + n) - (k + 1) + 1
    BY <2>2, FS_Interval
  <2>4. QED
    BY <2>1, <2>2, <2>3
<1>10. d = [c EXCEPT !.slabs = new, !.free = add \o c.free, !.slabs_per_alloc = m]
  BY DEF Larger, new, more, add, k
<1>11. /\ d.slabs = new /\ d.free = add \o c.free /\ d.slabs_per_alloc = m
       /\ d.big = c.big /\ d.state = c.state /\ d.used = c.used /\ d.bitmap = c.bitmap
       /\ d.partial = c.partial /\ d.full = c.full
  BY <1>1, <1>10 DEF KmemCache
<1>12. d \in KmemCache
  <2>1. add \o c.free \in Seq(Nat)
    BY <1>8 DEF Holds
  <2>2. QED
    BY <1>1, <1>4, <1>10, <2>1 DEF KmemCache
<1>13. ListsOK(d)
  <2>1. InState(new, "EMPTY") = (k + 1 .. k + n) \cup InState(c.slabs, "EMPTY")
    BY <1>1, <1>2, <1>4, <1>6 DEF InState
  <2>2. InState(new, "PARTIAL") = InState(c.slabs, "PARTIAL") /\ InState(new, "FULL") = InState(c.slabs, "FULL")
    BY <1>1, <1>2, <1>4, <1>6 DEF InState
  <2>3. QED
    BY <1>1, <1>8, <1>11, <2>1, <2>2 DEF ListsOK
<1>14. \A o \in O : o.at.slab \in 0 .. k
  BY DEF Right, Placed, k
<1>15. \A i \in k + 1 .. k + n : BlocksIn(O, i) = {}
  <2>1. \A i \in k + 1 .. k + n : i \notin 0 .. k
    BY <1>1
  <2>2. QED
    BY <1>14, <2>1 DEF BlocksIn
<1>16. SlabsOK(d.big, d.slabs, O)
  <2>1. BigOK(EmptySlab, {})
    BY <1>2 DEF BigOK
  <2>2. HeaderOK(EmptySlab, {}, SlabObjects)
    BY <1>2, FS_EmptySet DEF HeaderOK, StateOf, SallocAssumption
  <2>3. \A i \in DOMAIN c.slabs : IF c.big THEN BigOK(c.slabs[i], BlocksIn(O, i))
                                  ELSE HeaderOK(c.slabs[i], BlocksIn(O, i), SlabObjects)
    BY DEF Right, SlabsOK
  <2>4. \A i \in DOMAIN new : IF c.big THEN BigOK(new[i], BlocksIn(O, i))
                              ELSE HeaderOK(new[i], BlocksIn(O, i), SlabObjects)
    <3> TAKE i \in DOMAIN new
    <3>1. CASE i \in 1 .. k
      BY <1>1, <1>4, <2>3, <3>1
    <3>2. CASE i \in k + 1 .. k + n
      BY <1>4, <1>15, <2>1, <2>2, <3>2
    <3>3. QED
      BY <1>4, <1>6, <3>1, <3>2
  <2>5. QED
    BY <1>11, <2>4 DEF SlabsOK
<1>17. OwnOK(d, O)
  BY <1>11 DEF Right, OwnOK, HeaderOK
<1>18. CountOK(d, O)
  <2>1. Counted(new) = Counted(c.slabs)
    <3>1. \A p \in (DOMAIN new) \X (Nat \ {0}) :
            p[2] <= new[p[1]].used <=> p[1] \in DOMAIN c.slabs /\ p[2] <= c.slabs[p[1]].used
      <4> TAKE p \in (DOMAIN new) \X (Nat \ {0})
      <4>1. p[1] \in DOMAIN new /\ p[2] \in Nat /\ p[2] # 0
        OBVIOUS
      <4>2. CASE p[1] \in 1 .. k
        BY <1>1, <1>4, <4>2
      <4>3. CASE p[1] \in k + 1 .. k + n
        BY <1>1, <1>2, <1>4, <1>6, <4>1, <4>3
      <4>4. QED
        BY <1>4, <1>6, <4>1, <4>2, <4>3
    <3>2. DOMAIN c.slabs \subseteq DOMAIN new
      BY <1>1, <1>4, <1>6
    <3>3. QED
      BY <3>1, <3>2 DEF Counted
  <2>2. InState(new, "FULL") = InState(c.slabs, "FULL")
    BY <1>1, <1>2, <1>4, <1>6 DEF InState
  <2>3. QED
    BY <1>11, <2>1, <2>2 DEF Right, CountOK
<1>19. Placed(O, name, Len(d.slabs))
  <2>1. Len(d.slabs) = k + n
    BY <1>1, <1>4, <1>11
  <2>2. \A x \in 0 .. k : x \in 0 .. k + n
    BY <1>1
  <2>3. QED
    BY <1>14, <2>1, <2>2 DEF Right, Placed
<1>20. QED
  BY <1>8, <1>9, <1>11, <1>12, <1>13, <1>16, <1>17, <1>18, <1>19 DEF Right

\* What __kmem_cache_grow has done to cache c: g.
Grew(g, c, O, name, room) ==
  /\ g.slabs \in Nat /\ g.slabs <= room /\ Right(g.cache, O, name)
  /\ g.cache.big = c.big /\ g.cache.used = c.used /\ g.cache.partial = c.partial
  /\ g.ok => g.cache.free # <<>>
  /\ ~ g.ok => room = 0 /\ (c.free = <<>> => g.cache.free = <<>>)

LEMMA GrowRight ==
  ASSUME SallocAssumption, NEW c, NEW O, NEW name, Right(c, O, name), NEW room \in Nat
  PROVE  Grew(Grow(c, room), c, O, name, room)
<1> DEFINE g == Grow(c, room)
           n == IF room < c.slabs_per_alloc THEN room ELSE c.slabs_per_alloc
           m == IF n = c.slabs_per_alloc THEN 2 * c.slabs_per_alloc ELSE c.slabs_per_alloc
           d == Larger(c, n, m)
<1>1. c \in KmemCache /\ c.slabs_per_alloc \in Nat /\ c.slabs_per_alloc > 0 /\ Len(c.free) \in Nat
  BY CacheFields DEF Right
<1>2. n \in Nat /\ n <= room /\ (n = 0 <=> room = 0) /\ (n > 0 <=> n # 0) /\ m \in Nat /\ m > 0
  BY <1>1
<1>3. g = [ok |-> n > 0, slabs |-> n, cache |-> d]
  BY DEF Grow, Larger
<1> HIDE DEF n, m
<1>a. d = Larger(c, n, m)
  OBVIOUS
<1> HIDE DEF d, g
<1>4. /\ Right(d, O, name) /\ Len(d.free) = n + Len(c.free)
      /\ d.big = c.big /\ d.used = c.used /\ d.partial = c.partial
  BY <1>2, <1>a, MoreSlabs
<1>5. g.ok = (n > 0) /\ g.slabs = n /\ g.cache = d
  BY <1>3
<1>6. d.free \in Seq(Nat) /\ (d.free = <<>> <=> Len(d.free) = 0) /\ (c.free = <<>> <=> Len(c.free) = 0)
  <2>1. d \in KmemCache
    BY <1>4 DEF Right
  <2>2. d.free \in Seq(Nat) /\ c.free \in Seq(Nat)
    BY <1>1, <2>1, CacheFields
  <2>3. QED
    BY <2>2
<1>7. n > 0 => d.free # <<>>
  BY <1>1, <1>2, <1>4, <1>6
<1>8. ~ (n > 0) => room = 0 /\ (c.free = <<>> => d.free = <<>>)
  BY <1>1, <1>2, <1>4, <1>6
<1>9. QED
  BY <1>2, <1>4, <1>5, <1>7, <1>8 DEF g, Grew

-----------------------------------------------------------------------------
(* What the headers and lists of a cache say.                               *)

\* Every slab is in a list, and in one.
LEMMA AllListed ==
  ASSUME NEW c \in KmemCache, ListsOK(c)
  PROVE  /\ IsInjective(c.free \o c.partial \o c.full)
         /\ Len(c.free) + Len(c.partial) + Len(c.full) = Len(c.slabs)
<1> DEFINE E == InState(c.slabs, "EMPTY")
           P == InState(c.slabs, "PARTIAL")
           F == InState(c.slabs, "FULL")
           a == c.free \o c.partial
           b == a \o c.full
<1>1. /\ Len(c.slabs) \in Nat /\ DOMAIN c.slabs = 1 .. Len(c.slabs)
      /\ \A i \in DOMAIN c.slabs : c.slabs[i].state \in States
  <2>1. c.slabs \in Seq(SlabHeader) /\ Len(c.slabs) \in Nat /\ DOMAIN c.slabs = 1 .. Len(c.slabs)
    BY CacheFields
  <2>2. \A i \in DOMAIN c.slabs : c.slabs[i] \in SlabHeader
    BY <2>1
  <2>3. QED
    BY <2>1, <2>2 DEF SlabHeader
<1>2. E \cap P = {} /\ (E \cup P) \cap F = {} /\ E \cup P \cup F = 1 .. Len(c.slabs)
  BY <1>1 DEF InState, States
<1>3. Holds(c.free, E) /\ Holds(c.partial, P) /\ Holds(c.full, F)
  BY DEF ListsOK
<1> HIDE DEF E, P, F
<1>4. Holds(a, E \cup P) /\ Len(a) = Len(c.free) + Len(c.partial)
  BY <1>2, <1>3, Joined
<1> HIDE DEF a
<1>5. Holds(b, (E \cup P) \cup F) /\ Len(b) = Len(a) + Len(c.full)
  BY <1>2, <1>3, <1>4, Joined
<1> HIDE DEF b
<1>6. Cardinality(1 .. Len(c.slabs)) = Len(b)
  BY <1>2, <1>5, HoldsCard
<1>7. Cardinality(1 .. Len(c.slabs)) = Len(c.slabs)
  <2>1. 1 \in Int /\ Len(c.slabs) \in Int /\ (1 > Len(c.slabs) => Len(c.slabs) = 0) /\ Len(c.slabs) - 1 + 1 = Len(c.slabs)
    BY <1>1
  <2>2. Cardinality(1 .. Len(c.slabs)) = IF 1 > Len(c.slabs) THEN 0 ELSE Len(c.slabs) - 1 + 1
    BY <2>1, FS_Interval
  <2>3. QED
    BY <2>1, <2>2
<1>8. IsInjective(b)
  BY <1>5 DEF Holds
<1>9. Len(c.free) + Len(c.partial) + Len(c.full) = Len(c.slabs)
  BY <1>4, <1>5, <1>6, <1>7
<1>10. QED
  BY <1>8, <1>9 DEF b, a

\* kmem_cache_get_usage counts the objects that callers have.
LEMMA UsageRight ==
  ASSUME SallocAssumption, NEW c, NEW O, NEW name, Right(c, O, name)
  PROVE  Usage(c).used = Cardinality(O) /\ Usage(c).used <= Usage(c).usable
<1>1. /\ OwnObjects \in Nat \ {0} /\ SlabObjects \in Nat \ {0}
  BY DEF SallocAssumption
<1>2. /\ c \in KmemCache /\ ListsOK(c) /\ SlabsOK(c.big, c.slabs, O) /\ OwnOK(c, O)
      /\ Len(c.slabs) \in Nat /\ DOMAIN c.slabs = 1 .. Len(c.slabs) /\ c.slabs \in Seq(SlabHeader)
      /\ c.used \in Nat
  BY CacheFields DEF Right
<1>3. /\ Len(c.free) \in Nat /\ Len(c.partial) \in Nat /\ Len(c.full) \in Nat
      /\ Len(c.free) + Len(c.partial) + Len(c.full) = Len(c.slabs)
  <2>1. Len(c.free) + Len(c.partial) + Len(c.full) = Len(c.slabs)
    BY <1>2, AllListed
  <2>2. c.free \in Seq(Nat) /\ c.partial \in Seq(Nat) /\ c.full \in Seq(Nat)
    BY <1>2, CacheFields
  <2>3. Len(c.free) \in Nat /\ Len(c.partial) \in Nat /\ Len(c.full) \in Nat
    BY <2>2
  <2>4. QED
    BY <2>1, <2>3
<1>4. CASE c.big
  <2>1. Cardinality(InState(c.slabs, "FULL")) = Cardinality(O)
    BY <1>4 DEF Right, CountOK
  <2>2. Len(c.full) = Cardinality(O)
    BY <1>2, <2>1, HoldsCard DEF ListsOK
  <2>3. Usage(c) = [used |-> Len(c.full), usable |-> Len(c.full) + Len(c.free)]
    BY <1>4 DEF Usage
  <2>4. QED
    BY <1>3, <2>2, <2>3
<1>5. CASE ~ c.big
  <2> DEFINE P == UsedIn(c, c.partial)
             F == UsedIn(c, c.full)
             C == Counted(c.slabs)
             A == (1 .. Len(c.slabs)) \X (1 .. SlabObjects)
  <2>1. IsFiniteSet(C) /\ c.used + Cardinality(C) = Cardinality(O)
    BY <1>5 DEF Right, CountOK
  <2>2. \A i \in DOMAIN c.slabs :
          /\ c.slabs[i].used \in 0 .. SlabObjects /\ c.slabs[i].state \in States
          /\ c.slabs[i].state = "EMPTY" <=> c.slabs[i].used = 0
    <3> TAKE i \in DOMAIN c.slabs
    <3>1. HeaderOK(c.slabs[i], BlocksIn(O, i), SlabObjects)
      BY <1>2, <1>5 DEF SlabsOK
    <3>2. c.slabs[i] \in SlabHeader
      BY <1>2
    <3>3. QED
      BY <1>1, <3>1, <3>2, HeaderFree DEF SlabHeader
  <2>3. ToSet(c.partial) = InState(c.slabs, "PARTIAL") /\ ToSet(c.full) = InState(c.slabs, "FULL")
    BY <1>2 DEF ListsOK, Holds
  <2>4. \A x : x \in P <=> x \in C /\ c.slabs[x[1]].state = "PARTIAL"
    <3>1. \A x : x \in P <=> \E i \in InState(c.slabs, "PARTIAL") : x \in {i} \X (1 .. c.slabs[i].used)
      BY <2>3 DEF UsedIn
    <3>2. QED
      BY <1>2, <2>2, <3>1 DEF Counted, InState
  <2>5. \A x : x \in F <=> x \in C /\ c.slabs[x[1]].state = "FULL"
    <3>1. \A x : x \in F <=> \E i \in InState(c.slabs, "FULL") : x \in {i} \X (1 .. c.slabs[i].used)
      BY <2>3 DEF UsedIn
    <3>2. QED
      BY <1>2, <2>2, <3>1 DEF Counted, InState
  <2>6. \A x \in C : x[1] \in DOMAIN c.slabs /\ x[2] \in 1 .. SlabObjects /\ x = <<x[1], x[2]>>
                     /\ c.slabs[x[1]].state \in {"PARTIAL", "FULL"}
    <3> TAKE x \in C
    <3>1. x = <<x[1], x[2]>> /\ x[1] \in DOMAIN c.slabs /\ x[2] \in Nat /\ x[2] # 0 /\ x[2] <= c.slabs[x[1]].used
      BY DEF Counted
    <3>2. QED
      BY <1>1, <2>2, <3>1 DEF States
  <2>7. C \subseteq A
    BY <1>2, <2>6
  <2> HIDE DEF P, F, C, A
  <2>8. C = P \cup F /\ P \cap F = {}
    BY <2>4, <2>5, <2>6
  <2>9. IsFiniteSet(P) /\ IsFiniteSet(F)
    BY <2>1, <2>8, FS_Subset
  <2>10. Cardinality(P) \in Nat /\ Cardinality(F) \in Nat /\ Cardinality(C) = Cardinality(P) + Cardinality(F)
    <3>1. Cardinality(P \cap F) = 0
      BY <2>8, FS_EmptySet
    <3>2. Cardinality(P) \in Nat /\ Cardinality(F) \in Nat
      BY <2>9, FS_CardinalityType
    <3>3. Cardinality(P \cup F) = Cardinality(P) + Cardinality(F) - Cardinality(P \cap F)
      BY <2>9, FS_Union
    <3>4. QED
      BY <2>8, <3>1, <3>2, <3>3
  <2>11. IsFiniteSet(A) /\ Cardinality(A) = SlabObjects * Len(c.slabs)
    BY <1>1, <1>2, Columns DEF A
  <2>12. Cardinality(C) <= SlabObjects * Len(c.slabs)
    BY <2>7, <2>11, FS_Subset
  <2>13. c.used <= OwnObjects
    BY <1>1, <1>2, <1>5, HeaderFree DEF OwnOK
  <2>14. Usage(c) = [used   |-> c.used + Cardinality(P) + Cardinality(F),
                     usable |-> OwnObjects + SlabObjects * Len(c.slabs)]
    BY <1>3, <1>5 DEF Usage, P, F
  <2>15. SlabObjects * Len(c.slabs) \in Nat
    BY <1>1, <1>2
  <2> DEFINE most == SlabObjects * Len(c.slabs)
  <2>16. most \in Nat /\ Cardinality(C) <= most
    BY <2>12, <2>15
  <2>17. Usage(c).used = c.used + Cardinality(P) + Cardinality(F) /\ Usage(c).usable = OwnObjects + most
    BY <2>14
  <2> HIDE DEF most
  <2>18. QED
    BY <1>1, <1>2, <2>1, <2>10, <2>13, <2>16, <2>17
<1>6. QED
  BY <1>4, <1>5

\* The claim of SlabsExact about one cache.
Exact(c, O) ==
  /\ c.bitmap = BlocksIn(O, 0) /\ c.used = Cardinality(c.bitmap)
  /\ \A i \in DOMAIN c.slabs :
       LET n == IF c.big THEN 1 ELSE SlabObjects
           u == Cardinality(BlocksIn(O, i))
       IN /\ IF c.big
             THEN c.slabs[i].state = "FULL" <=> BlocksIn(O, i) = {0}
             ELSE /\ c.slabs[i].bitmap = BlocksIn(O, i)
                  /\ c.slabs[i].used = Cardinality(c.slabs[i].bitmap)
          /\ i \in ToSet(c.free) <=> u = 0
          /\ i \in ToSet(c.partial) <=> 0 < u /\ u < n
          /\ i \in ToSet(c.full) <=> u = n
  /\ IsInjective(c.free \o c.partial \o c.full)
  /\ Usage(c).used = Cardinality(O)
  /\ Usage(c).used <= Usage(c).usable

LEMMA RightIsExact ==
  ASSUME SallocAssumption, NEW c, NEW O, NEW name, Right(c, O, name)
  PROVE  Exact(c, O)
<1>1. SlabObjects \in Nat \ {0} /\ OwnObjects \in Nat \ {0}
  BY DEF SallocAssumption
<1>2. /\ c \in KmemCache /\ ListsOK(c) /\ SlabsOK(c.big, c.slabs, O) /\ OwnOK(c, O)
  BY DEF Right
<1>3. c.bitmap = BlocksIn(O, 0) /\ c.used = Cardinality(c.bitmap)
  BY <1>2, FS_EmptySet DEF OwnOK, HeaderOK
<1>4. /\ ToSet(c.free) = InState(c.slabs, "EMPTY") /\ ToSet(c.partial) = InState(c.slabs, "PARTIAL")
      /\ ToSet(c.full) = InState(c.slabs, "FULL")
  BY <1>2 DEF ListsOK, Holds
<1>5. ASSUME NEW i \in DOMAIN c.slabs
      PROVE  LET n == IF c.big THEN 1 ELSE SlabObjects
                 u == Cardinality(BlocksIn(O, i))
             IN /\ IF c.big
                   THEN c.slabs[i].state = "FULL" <=> BlocksIn(O, i) = {0}
                   ELSE /\ c.slabs[i].bitmap = BlocksIn(O, i)
                        /\ c.slabs[i].used = Cardinality(c.slabs[i].bitmap)
                /\ i \in ToSet(c.free) <=> u = 0
                /\ i \in ToSet(c.partial) <=> 0 < u /\ u < n
                /\ i \in ToSet(c.full) <=> u = n
  <2> DEFINE s == c.slabs[i]
             B == BlocksIn(O, i)
  <2>1. /\ i \in ToSet(c.free) <=> s.state = "EMPTY"
        /\ i \in ToSet(c.partial) <=> s.state = "PARTIAL"
        /\ i \in ToSet(c.full) <=> s.state = "FULL"
    BY <1>4 DEF InState
  <2>2. CASE c.big
    <3>1. BigOK(s, B)
      BY <1>2, <2>2 DEF SlabsOK
    <3>2. Cardinality({}) = 0 /\ Cardinality({0}) = 1
      BY FS_EmptySet, FS_Singleton
    <3>3. B = {} \/ B = {0}
      BY <3>1 DEF BigOK
    <3> HIDE DEF B, s
    <3>4. /\ s.state = "FULL" <=> B = {0}
          /\ s.state = "EMPTY" <=> Cardinality(B) = 0
          /\ s.state = "PARTIAL" <=> 0 < Cardinality(B) /\ Cardinality(B) < 1
          /\ s.state = "FULL" <=> Cardinality(B) = 1
      <4>1. CASE B = {}
        BY <3>1, <3>2, <4>1 DEF BigOK
      <4>2. CASE B = {0}
        BY <3>1, <3>2, <4>2 DEF BigOK
      <4>3. QED
        BY <3>3, <4>1, <4>2
    <3>5. QED
      BY <2>1, <2>2, <3>4 DEF B, s
  <2>3. CASE ~ c.big
    <3>1. HeaderOK(s, B, SlabObjects)
      BY <1>2, <2>3 DEF SlabsOK
    <3> HIDE DEF B, s
    <3>2. s.bitmap = B /\ s.used = Cardinality(B) /\ s.state = StateOf(s.used, SlabObjects)
      BY <3>1 DEF HeaderOK
    <3>3. s.used \in 0 .. SlabObjects
      BY <1>1, <3>1, HeaderFree
    <3>4. /\ s.state = "EMPTY" <=> Cardinality(B) = 0
          /\ s.state = "PARTIAL" <=> 0 < Cardinality(B) /\ Cardinality(B) < SlabObjects
          /\ s.state = "FULL" <=> Cardinality(B) = SlabObjects
      BY <1>1, <3>2, <3>3 DEF StateOf
    <3>5. QED
      BY <2>1, <2>3, <3>2, <3>4 DEF B, s
  <2>4. QED
    BY <2>2, <2>3
<1>6. IsInjective(c.free \o c.partial \o c.full)
  BY <1>2, AllListed
<1>7. QED
  BY <1>3, <1>5, <1>6, UsageRight DEF Exact

-----------------------------------------------------------------------------
(* The state machine.                                                       *)

LEMMA InitHolds ==
  ASSUME SallocAssumption, SallocInit
  PROVE  SallocInv
<1>1. /\ trap = "none" /\ pages \in Nat /\ objects = {} /\ answer.refused = FALSE
  BY DEF SallocInit, SallocAssumption
<1>2. DOMAIN caches = {} /\ caches = [n \in DOMAIN caches |-> caches[n]]
  BY DEF SallocInit
<1>3. QED
  BY <1>1, <1>2 DEF SallocInv

\* The books of one cache change and those of the others do not.
LEMMA OneCache ==
  ASSUME SallocInv, NEW name \in Names, NEW d, NEW O, Right(d, O, name),
         \A q : q # name => {o \in objects' : o.name = q} = ObjectsOf(q),
         {o \in objects' : o.name = name} = O,
         caches' = [n \in DOMAIN caches \cup {name} |-> IF n = name THEN d ELSE caches[n]]
  PROVE  /\ DOMAIN caches' \subseteq Names /\ caches' = [n \in DOMAIN caches' |-> caches'[n]]
         /\ \A o \in objects' : o.name \in DOMAIN caches'
         /\ \A q \in DOMAIN caches' : Right(caches'[q], ObjectsOf(q)', q)
<1>1. /\ DOMAIN caches' = DOMAIN caches \cup {name} /\ caches'[name] = d
      /\ \A q \in DOMAIN caches : q # name => caches'[q] = caches[q]
  OBVIOUS
<1>2. /\ DOMAIN caches \subseteq Names
      /\ \A o \in objects : o.name \in DOMAIN caches
      /\ \A q \in DOMAIN caches : Right(caches[q], ObjectsOf(q), q)
  BY DEF SallocInv
<1>3. \A q : ObjectsOf(q)' = {o \in objects' : o.name = q}
  BY DEF ObjectsOf
<1>4. ASSUME NEW q \in DOMAIN caches'
      PROVE  Right(caches'[q], ObjectsOf(q)', q)
  <2>1. CASE q = name
    BY <1>1, <1>3, <2>1
  <2>2. CASE q # name
    <3>1. q \in DOMAIN caches /\ caches'[q] = caches[q] /\ ObjectsOf(q)' = ObjectsOf(q)
      BY <1>1, <1>3, <2>2
    <3>2. QED
      BY <1>2, <3>1
  <2>3. QED
    BY <2>1, <2>2
<1>5. ASSUME NEW o \in objects'
      PROVE  o.name \in DOMAIN caches'
  <2>1. CASE o.name = name
    BY <1>1, <2>1
  <2>2. CASE o.name # name
    <3>1. o \in ObjectsOf(o.name)
      BY <2>2
    <3>2. QED
      BY <1>1, <1>2, <3>1 DEF ObjectsOf
  <2>3. QED
    BY <2>1, <2>2
<1>6. caches' = [n \in DOMAIN caches' |-> caches'[n]]
  BY <1>1
<1>7. QED
  BY <1>1, <1>2, <1>4, <1>5, <1>6

\* A call that ends, with its object or with none when there is none.
LEMMA EndsRight ==
  ASSUME SallocInv, NEW name \in Names, NEW d, NEW left \in Nat, NEW o,
         Ends(name, d, left, o, "none"),
         o = NULL => /\ Right(d, ObjectsOf(name), name) /\ left < PagesPerSlab(name[2])
                     /\ d.free = <<>> /\ d.partial = <<>> /\ (d.big \/ d.used = OwnObjects),
         o # NULL => Right(d, ObjectsOf(name) \cup {[name |-> name, at |-> o]}, name)
  PROVE  SallocInv'
<1>1. /\ caches' = [n \in DOMAIN caches \cup {name} |-> IF n = name THEN d ELSE caches[n]]
      /\ pages' = left /\ trap' = "none"
      /\ objects' = IF o = NULL THEN objects ELSE objects \cup {[name |-> name, at |-> o]}
      /\ answer' = [name |-> name, refused |-> o = NULL]
  BY DEF Ends
<1> DEFINE O == {x \in objects' : x.name = name}
<1>2. Right(d, O, name)
  <2>1. CASE o = NULL
    <3>1. O = ObjectsOf(name)
      BY <1>1, <2>1 DEF ObjectsOf
    <3>2. QED
      BY <2>1, <3>1
  <2>2. CASE o # NULL
    <3>1. O = ObjectsOf(name) \cup {[name |-> name, at |-> o]}
      BY <1>1, <2>2 DEF ObjectsOf
    <3>2. QED
      BY <2>2, <3>1
  <2>3. QED
    BY <2>1, <2>2
<1>3. \A q : q # name => {x \in objects' : x.name = q} = ObjectsOf(q)
  BY <1>1 DEF ObjectsOf
<1>4. /\ DOMAIN caches' \subseteq Names /\ caches' = [n \in DOMAIN caches' |-> caches'[n]]
      /\ \A x \in objects' : x.name \in DOMAIN caches'
      /\ \A q \in DOMAIN caches' : Right(caches'[q], ObjectsOf(q)', q)
  BY <1>1, <1>2, <1>3, OneCache
<1>5. caches'[name] = d
  BY <1>1
<1>6. answer'.refused => NothingLeft(answer', pages', caches')
  BY <1>1, <1>5 DEF NothingLeft
<1>7. QED
  BY <1>1, <1>4, <1>6 DEF SallocInv

\* The pages of the slabs a cache gets are there.
LEMMA RoomFits ==
  ASSUME NEW left \in Nat, NEW per \in Nat \ {0}
  PROVE  /\ left \div per \in Nat
         /\ \A n \in Nat : n <= left \div per => left - n * per \in Nat
         /\ left \div per = 0 => left < per
<1> DEFINE q == left \div per
<1>1. q \in Nat /\ per * q <= left /\ left < per * q + per
  OBVIOUS
<1> HIDE DEF q
<1>2. ASSUME NEW n \in Nat, n <= q  PROVE  left - n * per \in Nat
  <2>1. q - n \in Nat /\ (q - n) * per \in Nat
    BY <1>1, <1>2
  <2>2. (q - n) * per = per * q - n * per
    BY <1>1
  <2>3. n * per \in Nat /\ per * q \in Nat
    BY <1>1
  <2>4. QED
    BY <1>1, <2>1, <2>2, <2>3
<1>3. q = 0 => left < per
  BY <1>1
<1>4. QED
  BY <1>1, <1>2, <1>3 DEF q

LEMMA SallocKeeps ==
  ASSUME SallocAssumption, SallocInv, NEW pool \in {"irqpool", "taskpool"}, NEW size \in Sizes,
         Salloc(pool, size)
  PROVE  SallocInv'
<1> DEFINE name  == <<pool, size>>
           cache == IF Known(name) THEN caches[name] ELSE NewCache(SlabPages[size] > 0)
           left  == IF Known(name) THEN pages ELSE pages - 1
           per   == PagesPerSlab(size)
           room  == left \div per
           try   == CacheAlloc(cache)
           grown == Grow(cache, room)
           rest  == left - grown.slabs * per
           again == CacheAlloc(grown.cache)
           O     == ObjectsOf(name)
<1>1. name \in Names /\ name[2] = size /\ per \in Nat \ {0}
  BY DEF Names, PagesPerSlab, SallocAssumption, Sizes
<1>2. pages \in Nat /\ (answer.refused => NothingLeft(answer, pages, caches))
  BY DEF SallocInv
<1>3. Right(cache, O, name)
  <2>1. CASE Known(name)
    BY <2>1 DEF SallocInv, Known
  <2>2. CASE ~ Known(name)
    <3>1. O = {}
      BY <2>2 DEF SallocInv, ObjectsOf, Known
    <3>2. (SlabPages[size] > 0) \in BOOLEAN
      OBVIOUS
    <3>3. Right(NewCache(SlabPages[size] > 0), {}, name)
      BY <3>2, NewRight
    <3>4. QED
      BY <2>2, <3>1, <3>3
  <2>3. QED
    BY <2>1, <2>2
<1>4. CASE left < 0
  <2>1. ~ Known(name) /\ pages = 0
    BY <1>2, <1>4
  <2>2. answer' = [name |-> name, refused |-> TRUE] /\ UNCHANGED <<caches, pages, objects, trap>>
    BY <1>4 DEF Salloc
  <2>3. NothingLeft(answer', pages', caches')
    BY <1>1, <2>1, <2>2 DEF NothingLeft, Known
  <2>4. ObjectsOf(name)' = ObjectsOf(name) /\ \A q : ObjectsOf(q)' = ObjectsOf(q)
    BY <2>2 DEF ObjectsOf
  <2>5. QED
    BY <2>2, <2>3, <2>4 DEF SallocInv
<1>5. CASE ~ (left < 0)
  <2>1. left \in Nat
    BY <1>2, <1>5
  <2>2. /\ room \in Nat /\ (room = 0 => left < per)
        /\ \A n \in Nat : n <= room => left - n * per \in Nat
    <3> HIDE DEF left, per
    <3>1. QED
      BY <1>1, <2>1, RoomFits
  <2>3. IF try.object # NULL \/ try.failure # "none"
        THEN Ends(name, try.cache, left, try.object, try.failure)
        ELSE IF grown.ok
        THEN Ends(name, again.cache, rest, again.object, again.failure)
        ELSE Ends(name, grown.cache, rest, NULL, "none")
    BY <1>5 DEF Salloc
  <2> HIDE DEF cache, left, per, room, O
  <2>4. /\ try.failure = "none"
        /\ try.object = NULL => /\ cache.free = <<>> /\ cache.partial = <<>>
                                /\ cache.big \/ cache.used = OwnObjects
        /\ try.object # NULL => Right(try.cache, O \cup {[name |-> name, at |-> try.object]}, name)
    BY <1>3, AllocRight
  <2>5. /\ grown.slabs \in Nat /\ grown.slabs <= room /\ Right(grown.cache, O, name)
        /\ grown.cache.big = cache.big /\ grown.cache.used = cache.used
        /\ grown.cache.partial = cache.partial
        /\ grown.ok => grown.cache.free # <<>>
        /\ ~ grown.ok => room = 0 /\ (cache.free = <<>> => grown.cache.free = <<>>)
    <3>1. Grew(grown, cache, O, name, room)
      BY <1>3, <2>2, GrowRight
    <3> HIDE DEF grown
    <3>2. QED
      BY <3>1 DEF Grew
  <2>6. rest \in Nat
    BY <2>2, <2>5
  <2> HIDE DEF grown, try
  <2>7. /\ again.failure = "none"
        /\ again.object = NULL => grown.cache.free = <<>>
        /\ again.object # NULL => Right(again.cache, O \cup {[name |-> name, at |-> again.object]}, name)
    BY <2>5, AllocRight
  <2> HIDE DEF again, rest, name
  <2>8. CASE try.object # NULL
    <3>1. Ends(name, try.cache, left, try.object, "none")
      BY <2>3, <2>4, <2>8
    <3>2. QED
      BY <1>1, <2>1, <2>4, <2>8, <3>1, EndsRight DEF O
  <2>9. CASE try.object = NULL /\ grown.ok
    <3>1. Ends(name, again.cache, rest, again.object, "none") /\ again.object # NULL
      BY <2>3, <2>4, <2>5, <2>7, <2>9
    <3>2. QED
      BY <1>1, <2>6, <2>7, <3>1, EndsRight DEF O
  <2>10. CASE try.object = NULL /\ ~ grown.ok
    <3>1. Ends(name, grown.cache, rest, NULL, "none")
      BY <2>3, <2>4, <2>10
    <3>2. grown.slabs = 0 /\ left < per
      BY <2>2, <2>5, <2>10
    <3>3. rest = left
      BY <1>1, <2>1, <3>2 DEF rest
    <3>4. rest < PagesPerSlab(name[2])
      BY <1>1, <3>2, <3>3 DEF per
    <3>5. /\ grown.cache.free = <<>> /\ grown.cache.partial = <<>>
          /\ grown.cache.big \/ grown.cache.used = OwnObjects
      BY <2>4, <2>5, <2>10
    <3>6. QED
      BY <1>1, <2>5, <2>6, <3>1, <3>4, <3>5, EndsRight DEF O
  <2>11. QED
    BY <2>8, <2>9, <2>10
<1>6. QED
  BY <1>4, <1>5

LEMMA SfreeKeeps ==
  ASSUME SallocAssumption, SallocInv, NEW o \in objects, Sfree(o)
  PROVE  SallocInv'
<1> DEFINE name == o.name
           c    == caches[name]
           r    == CacheFree(c, o.at)
<1>1. /\ caches' = [caches EXCEPT ![name] = r.cache] /\ trap' = r.failure /\ objects' = objects \ {o}
      /\ answer' = [name |-> name, refused |-> FALSE] /\ pages' = pages
  BY DEF Sfree
<1>2. /\ pages \in Nat /\ DOMAIN caches \subseteq Names /\ name \in DOMAIN caches
      /\ Right(c, ObjectsOf(name), name)
  BY DEF SallocInv
<1>3. o \in ObjectsOf(name)
  BY DEF ObjectsOf
<1>4. r.failure = "none" /\ Right(r.cache, ObjectsOf(name) \ {o}, name)
  BY <1>2, <1>3, FreeRight
<1> HIDE DEF c, r
<1>5. {x \in objects' : x.name = name} = ObjectsOf(name) \ {o}
  BY <1>1 DEF ObjectsOf
<1>6. \A q : q # name => {x \in objects' : x.name = q} = ObjectsOf(q)
  BY <1>1 DEF ObjectsOf
<1>7. caches' = [n \in DOMAIN caches \cup {name} |-> IF n = name THEN r.cache ELSE caches[n]]
  <2>1. caches = [n \in DOMAIN caches |-> caches[n]]
    BY DEF SallocInv
  <2>2. QED
    BY <1>1, <1>2, <2>1
<1> HIDE DEF name
<1>8. /\ DOMAIN caches' \subseteq Names /\ caches' = [n \in DOMAIN caches' |-> caches'[n]]
      /\ \A x \in objects' : x.name \in DOMAIN caches'
      /\ \A q \in DOMAIN caches' : Right(caches'[q], ObjectsOf(q)', q)
  BY <1>2, <1>4, <1>5, <1>6, <1>7, OneCache
<1>9. QED
  BY <1>1, <1>2, <1>4, <1>8 DEF SallocInv

LEMMA RunTasksKeeps ==
  ASSUME SallocInv, UNCHANGED <<caches, pages, objects, answer, trap>>
  PROVE  SallocInv'
<1>1. \A q : ObjectsOf(q)' = ObjectsOf(q)
  BY DEF ObjectsOf
<1>2. QED
  BY <1>1 DEF SallocInv

LEMMA StepKeeps ==
  ASSUME SallocAssumption, SallocInv, [SallocNext]_sallocVars
  PROVE  SallocInv'
<1>1. CASE \E size \in Sizes : SallocIrq(size) \/ SallocTask(size)
  BY <1>1, SallocKeeps DEF SallocIrq, SallocTask
<1>2. CASE \E o \in objects : Sfree(o)
  BY <1>2, SfreeKeeps
<1>3. CASE RunTasks
  BY <1>3, RunTasksKeeps DEF RunTasks
<1>4. CASE UNCHANGED sallocVars
  BY <1>4, RunTasksKeeps DEF sallocVars
<1>5. QED
  BY <1>1, <1>2, <1>3, <1>4 DEF SallocNext

\* The books of the heap are those of the invariant in every state.
LEMMA SallocInvHolds == SallocSpec => []SallocInv
<1>1. SallocInit => SallocInv
  BY InitHolds, SallocAssumption
<1>2. SallocInv /\ [SallocNext]_sallocVars => SallocInv'
  BY StepKeeps, SallocAssumption
<1>3. QED
  BY <1>1, <1>2, PTL DEF SallocSpec

\* Whatever callers allocate and free, bitmaps, counters and lists of every
\* cache (slab.c) are those of the objects they have, no object is given twice
\* or lost, and the sanity checks of __kmem_cache_alloc and __kmem_cache_free
\* never fire.
THEOREM SlabsAlwaysExact == SallocSpec => []SlabsExact
<1>1. SallocInv => SlabsExact
  <2> SUFFICES ASSUME SallocInv  PROVE  SlabsExact
    OBVIOUS
  <2>1. \A name, i : BlocksHeld(name, i) = BlocksIn(ObjectsOf(name), i)
    BY DEF BlocksHeld, BlocksIn, ObjectsOf
  <2>2. trap = "none"
    BY DEF SallocInv
  <2>3. \A name \in DOMAIN caches : Exact(caches[name], ObjectsOf(name))
    BY RightIsExact, SallocAssumption DEF SallocInv
  <2>4. ASSUME NEW name \in DOMAIN caches
        PROVE  LET c == caches[name] IN
               /\ c.bitmap = BlocksHeld(name, 0) /\ c.used = Cardinality(c.bitmap)
               /\ \A i \in DOMAIN c.slabs :
                    LET n == IF c.big THEN 1 ELSE SlabObjects
                        u == Cardinality(BlocksHeld(name, i))
                    IN /\ IF c.big
                          THEN c.slabs[i].state = "FULL" <=> BlocksHeld(name, i) = {0}
                          ELSE /\ c.slabs[i].bitmap = BlocksHeld(name, i)
                               /\ c.slabs[i].used = Cardinality(c.slabs[i].bitmap)
                       /\ i \in ToSet(c.free) <=> u = 0
                       /\ i \in ToSet(c.partial) <=> 0 < u /\ u < n
                       /\ i \in ToSet(c.full) <=> u = n
               /\ IsInjective(c.free \o c.partial \o c.full)
               /\ Usage(c).used = Cardinality({o \in objects : o.name = name})
               /\ Usage(c).used <= Usage(c).usable
    <3>1. Exact(caches[name], ObjectsOf(name))
      BY <2>3
    <3>2. ObjectsOf(name) = {o \in objects : o.name = name}
      BY DEF ObjectsOf
    <3>3. QED
      BY <2>1, <3>1, <3>2, Zenon DEF Exact
  <2>5. QED
    BY <2>2, <2>4 DEF SlabsExact
<1>2. QED
  BY <1>1, SallocInvHolds, PTL

\* __salloc refuses a caller only when no slab could be got and every object
\* of its cache is in use, though __kmem_cache_grow may get less than it asks.
THEOREM RefusedAlwaysFull == SallocSpec => RefusedOnlyWhenFull
<1>1. SallocInv' => (answer'.refused => NothingLeft(answer', pages', caches'))
  BY DEF SallocInv, NothingLeft, PagesPerSlab
<1>2. SallocInv' => [answer'.refused =>
       /\ pages' < PagesPerSlab(answer'.name[2])
       /\ answer'.name \in DOMAIN caches' =>
            LET c == caches'[answer'.name] IN
            c.free = <<>> /\ c.partial = <<>> /\ (c.big \/ c.used = OwnObjects)]_sallocVars
  BY <1>1 DEF NothingLeft
<1>3. QED
  BY <1>2, SallocInvHolds, PTL DEF RefusedOnlyWhenFull

-----------------------------------------------------------------------------
(* The allocator of virtual pages.                                          *)

-----------------------------------------------------------------------------
(* The inductive invariant.                                                 *)

\* Two chunks with at least a page between them: neither overlaps the other
\* nor could be merged with it.
Gap(c, d) == EndOf(c) < d.address \/ EndOf(d) < c.address

\* Two runs that share no page.
Clear(c, d) == EndOf(c) <= d.address \/ EndOf(d) <= c.address

Spaced(l) ==
  /\ l \in Seq(Chunk)
  /\ \A i \in DOMAIN l : l[i].pages > 0
  /\ \A i, j \in DOMAIN l : i # j => Gap(l[i], l[j])

Sorted(l) == \A i, j \in DOMAIN l : i < j => l[i].pages >= l[j].pages

FreeIn(l) == UNION {Span(l[i]) : i \in DOMAIN l}

HeldPages(s) == UNION {Span(r) : r \in s}

ListInv == Spaced(chunks) /\ Sorted(chunks)

PagesInv ==
  /\ held \subseteq Run
  /\ \A r, s \in held : r # s => Clear(r, s)
  /\ VremapRegion = FreeIn(chunks) \cup lost \cup HeldPages(held)
  /\ FreeIn(chunks) \cap HeldPages(held) = {}
  /\ lost \cap FreeIn(chunks) = {}
  /\ lost \cap HeldPages(held) = {}

CountInv == busy \in Int /\ busy + Cardinality(FreeIn(chunks)) = VremapPages

VremapInv == failure = "none" /\ ListInv /\ PagesInv /\ CountInv

-----------------------------------------------------------------------------
(* Lists of chunks.                                                         *)

LEMMA Pages ==
  ASSUME NEW c, c.address \in Nat, c.pages \in Nat
  PROVE  /\ EndOf(c) \in Nat
         /\ \A x : x \in Span(c) <=> x \in Nat /\ c.address <= x /\ x < EndOf(c)
BY DEF EndOf, Span

LEMMA InFree ==
  ASSUME NEW l
  PROVE  \A x : x \in FreeIn(l) <=> \E i \in DOMAIN l : x \in Span(l[i])
BY DEF FreeIn

\* Runs that share no page are clear of each other.
LEMMA Apart ==
  ASSUME NEW c \in Chunk, NEW d \in Chunk, c.pages > 0, d.pages > 0,
         Span(c) \cap Span(d) = {}
  PROVE  Clear(c, d)
<1>1. c.address \in Nat /\ c.pages \in Nat /\ d.address \in Nat /\ d.pages \in Nat
  BY DEF Chunk
<1>2. EndOf(c) = c.address + c.pages /\ EndOf(d) = d.address + d.pages
  BY DEF EndOf
<1>3. c.address \in Span(c) /\ d.address \in Span(d)
  BY <1>1, <1>2, Pages
<1>4. c.address \notin Span(d) /\ d.address \notin Span(c)
  BY <1>3
<1>5. QED
  BY <1>1, <1>2, <1>4, Pages DEF Clear

\* The places of a list after an insertion and after a removal.
LEMMA ListJoined ==
  ASSUME NEW a \in Seq(Chunk), NEW b \in Seq(Chunk), NEW s, s = a \o b
  PROVE  /\ s \in Seq(Chunk) /\ Len(s) = Len(a) + Len(b)
         /\ \A j \in 1 .. Len(a) + Len(b) : s[j] = IF j <= Len(a) THEN a[j] ELSE b[j - Len(a)]
BY ConcatProperties

WithAt(m, l, p, c) ==
  /\ m \in Seq(Chunk) /\ Len(m) = Len(l) + 1
  /\ \A j \in 1 .. Len(l) + 1 :
       m[j] = IF j < p THEN l[j] ELSE IF j = p THEN c ELSE l[j - 1]

LEMMA Inserted ==
  ASSUME NEW l \in Seq(Chunk), NEW p \in 1 .. Len(l) + 1, NEW c \in Chunk
  PROVE  WithAt(InsertAt(l, p, c), l, p, c)
<1> DEFINE m == InsertAt(l, p, c)
<1> DEFINE a == SubSeq(l, 1, p - 1)
           b == SubSeq(l, p, Len(l))
           o == <<c>>
           ac == a \o o
<1>1. p \in Nat /\ 1 <= p /\ Len(l) \in Nat /\ p <= Len(l) + 1
  OBVIOUS
<1>2. a \in Seq(Chunk) /\ Len(a) = p - 1 /\ \A j \in 1 .. p - 1 : a[j] = l[j]
  OBVIOUS
<1>3. b \in Seq(Chunk) /\ Len(b) = Len(l) - p + 1 /\ \A j \in 1 .. Len(l) - p + 1 : b[j] = l[p + j - 1]
  OBVIOUS
<1>4. o \in Seq(Chunk) /\ Len(o) = 1 /\ o[1] = c
  OBVIOUS
<1>5. m = ac \o b
  BY Zenon DEF InsertAt
<1> HIDE DEF a, b, o, m
<1>6. /\ ac \in Seq(Chunk) /\ Len(ac) = p
      /\ \A j \in 1 .. p : ac[j] = IF j < p THEN l[j] ELSE c
  <2>1. /\ ac \in Seq(Chunk) /\ Len(ac) = Len(a) + Len(o)
        /\ \A j \in 1 .. Len(a) + Len(o) : ac[j] = IF j <= Len(a) THEN a[j] ELSE o[j - Len(a)]
    BY <1>2, <1>4, ListJoined
  <2> HIDE DEF ac
  <2>2. QED
    BY <1>1, <1>2, <1>4, <2>1
<1> HIDE DEF ac
<1>7. /\ m \in Seq(Chunk) /\ Len(m) = Len(ac) + Len(b)
      /\ \A j \in 1 .. Len(ac) + Len(b) : m[j] = IF j <= Len(ac) THEN ac[j] ELSE b[j - Len(ac)]
  <2>1. ac \in Seq(Chunk) /\ b \in Seq(Chunk)
    BY <1>3, <1>6
  <2>2. QED
    BY <1>5, <2>1, ListJoined
<1>8. m \in Seq(Chunk) /\ Len(m) = Len(l) + 1 /\ Len(ac) + Len(b) = Len(l) + 1
  BY <1>1, <1>3, <1>6, <1>7
<1>9. ASSUME NEW j \in 1 .. Len(l) + 1
      PROVE  m[j] = IF j < p THEN l[j] ELSE IF j = p THEN c ELSE l[j - 1]
  <2>1. m[j] = IF j <= Len(ac) THEN ac[j] ELSE b[j - Len(ac)]
    BY <1>7, <1>8
  <2>2. CASE j <= p
    BY <1>1, <1>6, <2>1, <2>2
  <2>3. CASE j > p
    <3>1. j - p \in 1 .. Len(l) - p + 1 /\ p + (j - p) - 1 = j - 1
      BY <1>1, <2>3
    <3>2. m[j] = b[j - p]
      BY <1>1, <1>6, <2>1, <2>3
    <3>3. QED
      BY <1>1, <1>3, <2>3, <3>1, <3>2
  <2>4. QED
    BY <1>1, <2>2, <2>3
<1>10. WithAt(m, l, p, c)
  BY <1>8, <1>9 DEF WithAt
<1>11. QED
  BY <1>10 DEF m

LEMMA ChunkRemoved ==
  ASSUME NEW l \in Seq(Chunk), NEW i \in DOMAIN l, NEW m, m = RemoveAt(l, i)
  PROVE  /\ m \in Seq(Chunk) /\ Len(m) = Len(l) - 1
         /\ \A j \in 1 .. Len(l) - 1 : m[j] = IF j < i THEN l[j] ELSE l[j + 1]
<1> DEFINE a == SubSeq(l, 1, i - 1)
           b == SubSeq(l, i + 1, Len(l))
<1>1. a \in Seq(Chunk) /\ Len(a) = i - 1 /\ \A j \in 1 .. i - 1 : a[j] = l[j]
  OBVIOUS
<1>2. b \in Seq(Chunk) /\ Len(b) = Len(l) - i /\ \A j \in 1 .. Len(l) - i : b[j] = l[i + j]
  OBVIOUS
<1>3. m = a \o b
  BY Zenon DEF RemoveAt
<1> HIDE DEF a, b
<1>4. i \in Nat /\ 1 <= i /\ i <= Len(l) /\ Len(l) \in Nat
  OBVIOUS
<1>5. /\ m \in Seq(Chunk) /\ Len(m) = Len(a) + Len(b)
      /\ \A j \in 1 .. Len(a) + Len(b) : m[j] = IF j <= Len(a) THEN a[j] ELSE b[j - Len(a)]
  <2>1. a \in Seq(Chunk) /\ b \in Seq(Chunk)
    BY <1>1, <1>2
  <2>2. QED
    BY <1>3, <2>1, ListJoined
<1>6. m \in Seq(Chunk) /\ Len(m) = Len(l) - 1 /\ Len(a) + Len(b) = Len(l) - 1
  BY <1>1, <1>2, <1>4, <1>5
<1>7. ASSUME NEW j \in 1 .. Len(l) - 1
      PROVE  m[j] = IF j < i THEN l[j] ELSE l[j + 1]
  <2>1. m[j] = IF j <= Len(a) THEN a[j] ELSE b[j - Len(a)]
    BY <1>5, <1>6
  <2>2. CASE j < i
    BY <1>1, <1>4, <2>1, <2>2
  <2>3. CASE j >= i
    <3>1. j - (i - 1) \in 1 .. Len(l) - i /\ i + (j - (i - 1)) = j + 1
      BY <1>4, <2>3
    <3>2. m[j] = b[j - (i - 1)]
      BY <1>1, <1>4, <2>1, <2>3
    <3>3. QED
      BY <1>2, <1>4, <2>3, <3>1, <3>2
  <2>4. QED
    BY <1>4, <2>2, <2>3
<1>8. QED
  BY <1>6, <1>7

LEMMA TailRemoves ==
  ASSUME NEW l \in Seq(Chunk), l # <<>>
  PROVE  Tail(l) = RemoveAt(l, 1)
<1>1. 1 \in DOMAIN l
  OBVIOUS
<1>2. Tail(l) \in Seq(Chunk) /\ Len(Tail(l)) = Len(l) - 1
      /\ \A j \in 1 .. Len(l) - 1 : Tail(l)[j] = l[j + 1]
  OBVIOUS
<1> DEFINE m == RemoveAt(l, 1)
<1>3. m \in Seq(Chunk) /\ Len(m) = Len(l) - 1 /\ \A j \in 1 .. Len(l) - 1 : m[j] = l[j + 1]
  BY <1>1, ChunkRemoved
<1> HIDE DEF m
<1>4. Tail(l) = m
  BY <1>2, <1>3
<1>5. QED
  BY <1>4 DEF m

LEMMA EarliestIs ==
  ASSUME NEW S \in SUBSET Nat, S # {}
  PROVE  Earliest(S) \in S /\ \A n \in S : Earliest(S) <= n
BY Least DEF Earliest

\* rsorted_list_insert finds the place that keeps the list sorted.
LEMMA PlaceFound ==
  ASSUME NEW l, Spaced(l), Sorted(l), NEW c \in Chunk
  PROVE  \E p \in 1 .. Len(l) + 1 :
           /\ Insert(c, l) = InsertAt(l, p, c)
           /\ \A i \in 1 .. p - 1 : l[i].pages > c.pages
           /\ \A i \in p .. Len(l) : l[i].pages <= c.pages
<1> DEFINE larger == {i \in DOMAIN l : \A j \in 1 .. i : l[j].pages > c.pages}
           small  == {i \in DOMAIN l : l[i].pages <= c.pages}
<1>1. l \in Seq(Chunk) /\ DOMAIN l = 1 .. Len(l) /\ Len(l) \in Nat
  BY DEF Spaced
<1> HIDE DEF larger, small
<1>2. c.pages \in Nat /\ \A i \in DOMAIN l : l[i].pages \in Nat
  <2>1. \A i \in DOMAIN l : l[i] \in Chunk
    BY <1>1
  <2>2. QED
    BY <2>1 DEF Chunk
<1>3. \E p \in 1 .. Len(l) + 1 : /\ \A i \in 1 .. p - 1 : l[i].pages > c.pages
                                 /\ \A i \in p .. Len(l) : l[i].pages <= c.pages
  <2>1. CASE small = {}
    <3>1. \A i \in 1 .. Len(l) : l[i].pages > c.pages
      BY <1>1, <1>2, <2>1 DEF small
    <3>2. Len(l) + 1 \in 1 .. Len(l) + 1 /\ Len(l) + 1 - 1 = Len(l) /\ Len(l) + 1 .. Len(l) = {}
      BY <1>1
    <3>3. QED
      BY <3>1, <3>2
  <2>2. CASE small # {}
    <3>1. small \in SUBSET Nat
      BY <1>1 DEF small
    <3>2. PICK n \in small : \A i \in small : n <= i
      BY <2>2, <3>1, Least
    <3>3. n \in 1 .. Len(l) /\ l[n].pages <= c.pages
      BY <1>1 DEF small
    <3>4. \A i \in 1 .. n - 1 : l[i].pages > c.pages
      <4> SUFFICES ASSUME NEW i \in 1 .. n - 1 PROVE l[i].pages > c.pages
        OBVIOUS
      <4>1. i \in DOMAIN l /\ i < n
        BY <1>1, <3>3
      <4>2. i \notin small
        BY <3>2, <3>3, <4>1
      <4>3. QED
        BY <1>2, <4>1, <4>2 DEF small
    <3>5. \A i \in n .. Len(l) : l[i].pages <= c.pages
      <4> SUFFICES ASSUME NEW i \in n .. Len(l) PROVE l[i].pages <= c.pages
        OBVIOUS
      <4>1. i \in DOMAIN l /\ n \in DOMAIN l
        BY <1>1, <3>3
      <4>2. i = n \/ l[n].pages >= l[i].pages
        BY <3>3, <4>1 DEF Sorted
      <4>3. QED
        BY <1>2, <3>3, <4>1, <4>2
    <3>6. n \in 1 .. Len(l) + 1
      BY <1>1, <3>3
    <3>7. QED
      BY <3>4, <3>5, <3>6
  <2>3. QED
    BY <2>1, <2>2
<1>4. PICK p \in 1 .. Len(l) + 1 : /\ \A i \in 1 .. p - 1 : l[i].pages > c.pages
                                   /\ \A i \in p .. Len(l) : l[i].pages <= c.pages
  BY <1>3
<1>5. larger = 1 .. p - 1
  <2>1. ASSUME NEW i \in larger PROVE i \in 1 .. p - 1
    <3>1. i \in 1 .. Len(l) /\ l[i].pages > c.pages
      BY <1>1 DEF larger
    <3>2. i \in p .. Len(l) => l[i].pages <= c.pages
      BY <1>4
    <3>3. QED
      BY <1>1, <1>2, <3>1, <3>2
  <2>2. ASSUME NEW i \in 1 .. p - 1 PROVE i \in larger
    <3>1. i \in DOMAIN l /\ \A j \in 1 .. i : j \in 1 .. p - 1
      BY <1>1
    <3>2. \A j \in 1 .. i : l[j].pages > c.pages
      BY <1>4, <3>1
    <3>3. QED
      BY <3>1, <3>2 DEF larger
  <2>3. QED
    BY <2>1, <2>2
<1>6. Cardinality(larger) + 1 = p
  <2>1. 1 \in Int /\ p - 1 \in Int /\ p \in Nat /\ p >= 1
    BY <1>1
  <2>2. Cardinality(1 .. p - 1) = IF 1 > p - 1 THEN 0 ELSE (p - 1) - 1 + 1
    BY <2>1, FS_Interval
  <2>3. QED
    BY <1>5, <2>1, <2>2
<1>7. Insert(c, l) = InsertAt(l, Cardinality(larger) + 1, c)
  BY DEF Insert, larger
<1>8. Insert(c, l) = InsertAt(l, p, c)
  BY <1>6, <1>7
<1>9. QED
  BY <1>4, <1>8

\* A chunk apart from all of a list goes into it.
LEMMA InsertKeeps ==
  ASSUME NEW l, Spaced(l), Sorted(l), NEW c \in Chunk, c.pages > 0,
         \A i \in DOMAIN l : Gap(l[i], c)
  PROVE  /\ Spaced(Insert(c, l)) /\ Sorted(Insert(c, l))
         /\ FreeIn(Insert(c, l)) = FreeIn(l) \cup Span(c)
<1> DEFINE m == Insert(c, l)
<1>1. l \in Seq(Chunk) /\ DOMAIN l = 1 .. Len(l) /\ Len(l) \in Nat
  BY DEF Spaced
<1>2. PICK p \in 1 .. Len(l) + 1 :
        /\ m = InsertAt(l, p, c)
        /\ \A i \in 1 .. p - 1 : l[i].pages > c.pages
        /\ \A i \in p .. Len(l) : l[i].pages <= c.pages
  BY PlaceFound
<1> HIDE DEF m
<1>3. /\ m \in Seq(Chunk) /\ Len(m) = Len(l) + 1
      /\ \A j \in 1 .. Len(l) + 1 : m[j] = IF j < p THEN l[j] ELSE IF j = p THEN c ELSE l[j - 1]
  <2>1. m = InsertAt(l, p, c)
    BY <1>2
  <2>2. WithAt(InsertAt(l, p, c), l, p, c)
    BY <1>1, Inserted
  <2>3. QED
    BY <2>1, <2>2 DEF WithAt
<1> DEFINE old(j) == IF j < p THEN j ELSE j - 1
<1>4. DOMAIN m = 1 .. Len(l) + 1 /\ p \in DOMAIN m /\ m[p] = c
  BY <1>1, <1>3
<1>5. \A j \in DOMAIN m : j # p => old(j) \in DOMAIN l /\ m[j] = l[old(j)]
  BY <1>1, <1>3, <1>4
<1>6. \A i, j \in DOMAIN m : i # p /\ j # p /\ i < j => old(i) < old(j)
  BY <1>1, <1>4
<1>7. \A i, j \in DOMAIN m : i # p /\ j # p /\ i # j => old(i) # old(j)
  BY <1>1, <1>4
<1>8. \A i \in DOMAIN l : \E j \in DOMAIN m : j # p /\ old(j) = i
  <2> SUFFICES ASSUME NEW i \in DOMAIN l PROVE \E j \in DOMAIN m : j # p /\ old(j) = i
    OBVIOUS
  <2>1. CASE i < p
    BY <1>1, <1>4, <2>1
  <2>2. CASE i >= p
    <3>1. i + 1 \in DOMAIN m /\ i + 1 # p /\ old(i + 1) = i
      BY <1>1, <1>4, <2>2
    <3>2. QED
      BY <3>1
  <2>3. QED
    BY <1>1, <2>1, <2>2
<1>9. \A d, e : Gap(d, e) => Gap(e, d)
  BY DEF Gap
<1>10. \A j \in DOMAIN m : (j # p => old(j) < p <=> j < p) /\ (j # p /\ j > p => old(j) >= p)
  BY <1>1, <1>4
<1> HIDE DEF old
<1>11. Spaced(m)
  <2>1. \A i \in DOMAIN m : m[i].pages > 0
    BY <1>4, <1>5 DEF Spaced
  <2>2. ASSUME NEW i \in DOMAIN m, NEW j \in DOMAIN m, i # j PROVE Gap(m[i], m[j])
    <3>1. CASE i # p /\ j # p
      <4>1. Gap(l[old(i)], l[old(j)])
        BY <1>5, <1>7, <2>2, <3>1 DEF Spaced
      <4>2. QED
        BY <1>5, <3>1, <4>1
    <3>2. CASE i = p
      <4>1. Gap(l[old(j)], c)
        BY <1>5, <2>2, <3>2
      <4>2. QED
        BY <1>4, <1>5, <1>9, <2>2, <3>2, <4>1
    <3>3. CASE j = p
      <4>1. Gap(l[old(i)], c)
        BY <1>5, <2>2, <3>3
      <4>2. QED
        BY <1>4, <1>5, <2>2, <3>3, <4>1
    <3>4. QED
      BY <3>1, <3>2, <3>3
  <2>3. QED
    BY <1>3, <2>1, <2>2 DEF Spaced
<1>12. Sorted(m)
  <2> SUFFICES ASSUME NEW i \in DOMAIN m, NEW j \in DOMAIN m, i < j
               PROVE  m[i].pages >= m[j].pages
    BY DEF Sorted
  <2>1. c.pages \in Nat /\ \A x \in DOMAIN l : l[x].pages \in Nat
    <3>1. \A x \in DOMAIN l : l[x] \in Chunk
      BY <1>1
    <3>2. QED
      BY <3>1 DEF Chunk
  <2>2. i \in Nat /\ j \in Nat /\ p \in Nat
    BY <1>1, <1>4
  <2>3. CASE i # p /\ j # p
    <3>1. old(i) \in DOMAIN l /\ old(j) \in DOMAIN l /\ old(i) < old(j)
      BY <1>5, <1>6, <2>3
    <3>2. l[old(i)].pages >= l[old(j)].pages
      BY <3>1 DEF Sorted
    <3>3. QED
      BY <1>5, <2>3, <3>2
  <2>4. CASE i = p
    <3>1. j # p /\ j > p
      BY <2>2, <2>4
    <3>2. old(j) \in DOMAIN l /\ old(j) >= p
      BY <1>5, <1>10, <3>1
    <3>3. old(j) \in p .. Len(l)
      BY <1>1, <2>2, <3>2
    <3>4. l[old(j)].pages <= c.pages
      BY <1>2, <3>3
    <3>5. QED
      BY <1>4, <1>5, <2>1, <2>4, <3>1, <3>2, <3>4
  <2>5. CASE j = p
    <3>1. i # p /\ i < p
      BY <2>2, <2>5
    <3>2. old(i) \in DOMAIN l /\ old(i) < p
      BY <1>5, <1>10, <3>1
    <3>3. old(i) \in 1 .. p - 1
      BY <1>1, <2>2, <3>2
    <3>4. l[old(i)].pages > c.pages
      BY <1>2, <3>3
    <3>5. QED
      BY <1>4, <1>5, <2>1, <2>5, <3>1, <3>2, <3>4
  <2>6. QED
    BY <2>3, <2>4, <2>5
<1>13. FreeIn(m) = FreeIn(l) \cup Span(c)
  <2>1. ASSUME NEW x \in FreeIn(m) PROVE x \in FreeIn(l) \cup Span(c)
    <3>1. PICK j \in DOMAIN m : x \in Span(m[j])
      BY InFree
    <3>2. CASE j = p
      BY <1>4, <3>1, <3>2
    <3>3. CASE j # p
      BY <1>5, <3>1, <3>3, InFree
    <3>4. QED
      BY <3>2, <3>3
  <2>2. ASSUME NEW x \in Span(c) PROVE x \in FreeIn(m)
    BY <1>4, InFree
  <2>3. ASSUME NEW x \in FreeIn(l) PROVE x \in FreeIn(m)
    <3>1. PICK i \in DOMAIN l : x \in Span(l[i])
      BY InFree
    <3>2. PICK j \in DOMAIN m : j # p /\ old(j) = i
      BY <1>8
    <3>3. m[j] = l[i]
      BY <1>5, <3>2
    <3>4. QED
      BY <3>1, <3>3, InFree
  <2>4. QED
    BY <2>1, <2>2, <2>3
<1>14. QED
  BY <1>11, <1>12, <1>13 DEF m

\* What is left of a list without one of its chunks.
LEMMA RemoveKeeps ==
  ASSUME NEW l, Spaced(l), Sorted(l), NEW i \in DOMAIN l, NEW m, m = RemoveAt(l, i)
  PROVE  /\ Spaced(m) /\ Sorted(m) /\ Len(m) = Len(l) - 1
         /\ FreeIn(l) = FreeIn(m) \cup Span(l[i])
         /\ \A j \in DOMAIN m : Gap(m[j], l[i])
         /\ \A j \in DOMAIN m : \E n \in DOMAIN l : m[j] = l[n]
<1> DEFINE old(j) == IF j < i THEN j ELSE j + 1
<1>1. l \in Seq(Chunk) /\ DOMAIN l = 1 .. Len(l) /\ Len(l) \in Nat
  BY DEF Spaced
<1>2. /\ m \in Seq(Chunk) /\ Len(m) = Len(l) - 1
      /\ \A j \in 1 .. Len(l) - 1 : m[j] = IF j < i THEN l[j] ELSE l[j + 1]
  BY <1>1, ChunkRemoved
<1>3. DOMAIN m = 1 .. Len(l) - 1
  BY <1>1, <1>2
<1>4. \A j \in DOMAIN m : old(j) \in DOMAIN l /\ old(j) # i /\ m[j] = l[old(j)]
  BY <1>1, <1>2, <1>3
<1>5. \A j, n \in DOMAIN m : j < n => old(j) < old(n)
  BY <1>1, <1>3
<1>6. \A j, n \in DOMAIN m : j # n => old(j) # old(n)
  BY <1>1, <1>3
<1>7. \A n \in DOMAIN l : n # i => \E j \in DOMAIN m : old(j) = n
  <2> SUFFICES ASSUME NEW n \in DOMAIN l, n # i PROVE \E j \in DOMAIN m : old(j) = n
    OBVIOUS
  <2>1. CASE n < i
    BY <1>1, <1>3, <2>1
  <2>2. CASE n > i
    <3>1. n - 1 \in DOMAIN m /\ old(n - 1) = n
      BY <1>1, <1>3, <2>2
    <3>2. QED
      BY <3>1
  <2>3. QED
    BY <1>1, <2>1, <2>2
<1> HIDE DEF old
<1>8. Spaced(m)
  <2>1. \A j \in DOMAIN m : m[j].pages > 0
    BY <1>4 DEF Spaced
  <2>2. ASSUME NEW j \in DOMAIN m, NEW n \in DOMAIN m, j # n PROVE Gap(m[j], m[n])
    <3>1. Gap(l[old(j)], l[old(n)])
      BY <1>4, <1>6, <2>2 DEF Spaced
    <3>2. QED
      BY <1>4, <3>1
  <2>3. QED
    BY <1>2, <2>1, <2>2 DEF Spaced
<1>9. Sorted(m)
  <2> SUFFICES ASSUME NEW j \in DOMAIN m, NEW n \in DOMAIN m, j < n
               PROVE  m[j].pages >= m[n].pages
    BY DEF Sorted
  <2>1. l[old(j)].pages >= l[old(n)].pages
    BY <1>4, <1>5 DEF Sorted
  <2>2. QED
    BY <1>4, <2>1
<1>10. \A j \in DOMAIN m : Gap(m[j], l[i])
  BY <1>4 DEF Spaced
<1>11. FreeIn(l) = FreeIn(m) \cup Span(l[i])
  <2>1. ASSUME NEW x \in FreeIn(l) PROVE x \in FreeIn(m) \cup Span(l[i])
    <3>1. PICK n \in DOMAIN l : x \in Span(l[n])
      BY InFree
    <3>2. CASE n = i
      BY <3>1, <3>2
    <3>3. CASE n # i
      <4>1. PICK j \in DOMAIN m : old(j) = n
        BY <1>7, <3>3
      <4>2. m[j] = l[n]
        BY <1>4, <4>1
      <4>3. QED
        BY <3>1, <4>2, InFree
    <3>4. QED
      BY <3>2, <3>3
  <2>2. Span(l[i]) \subseteq FreeIn(l)
    BY InFree
  <2>3. ASSUME NEW x \in FreeIn(m) PROVE x \in FreeIn(l)
    <3>1. PICK j \in DOMAIN m : x \in Span(m[j])
      BY InFree
    <3>2. QED
      BY <1>4, <3>1, InFree
  <2>4. QED
    BY <2>1, <2>2, <2>3
<1>12. QED
  BY <1>2, <1>4, <1>8, <1>9, <1>10, <1>11

-----------------------------------------------------------------------------
(* vremap_data_try_merge.                                                   *)

\* What one call of it does, with rec for the calls it makes.
Merged(rec, l) ==
  [d \in Chunk |->
     LET i     == Earliest(Found(l, d))
         found == Join(l[i], d)
         rest  == rec[RemoveAt(l, i)][found]
     IN IF Found(l, d) = {}
        THEN [how |-> "apart", list |-> l]
        ELSE IF ~Adjacent(l[i], d)
        THEN [how |-> "double_free", list |-> l]
        ELSE IF rest.how = "apart"
        THEN [how |-> "merged", list |-> Insert(found, rest.list)]
        ELSE rest]

\* It calls itself only with shorter lists.
LEMMA MergedLocal ==
  ASSUME NEW f, NEW g, NEW l \in Seq(Chunk),
         \A m \in Seq(Chunk) : Len(m) < Len(l) => f[m] = g[m]
  PROVE  Merged(f, l) = Merged(g, l)
<1> SUFFICES ASSUME NEW d \in Chunk PROVE Merged(f, l)[d] = Merged(g, l)[d]
  BY Zenon DEF Merged
<1> DEFINE i == Earliest(Found(l, d))
<1>1. CASE Found(l, d) = {}
  BY <1>1 DEF Merged
<1>2. CASE Found(l, d) # {}
  <2>1. DOMAIN l = 1 .. Len(l) /\ Len(l) \in Nat
    OBVIOUS
  <2>2. Found(l, d) \in SUBSET Nat
    BY <2>1 DEF Found
  <2>3. i \in DOMAIN l
    BY <1>2, <2>2, EarliestIs DEF Found
  <2> HIDE DEF i
  <2> DEFINE m == RemoveAt(l, i)
  <2>4. m \in Seq(Chunk) /\ Len(m) = Len(l) - 1
    BY <2>3, ChunkRemoved
  <2>5. f[m] = g[m]
    BY <2>1, <2>4
  <2>6. QED
    BY <2>5, Zenon DEF Merged, i, m
<1>3. QED
  BY <1>1, <1>2

\* A function that does what the code does for lists of up to n chunks.
UpTo(f, n) == \A l \in Seq(Chunk) : Len(l) <= n => f[l] = Merged(f, l)

LEMMA UpToUnique ==
  ASSUME NEW n \in Nat, NEW f, NEW g, UpTo(f, n), UpTo(g, n),
         NEW l \in Seq(Chunk), Len(l) <= n
  PROVE  f[l] = g[l]
<1> DEFINE S == {k \in 0 .. n : \E m \in Seq(Chunk) : Len(m) = k /\ f[m] # g[m]}
<1>1. S = {}
  <2> SUFFICES ASSUME S # {} PROVE FALSE
    OBVIOUS
  <2>1. S \in SUBSET Nat
    OBVIOUS
  <2>2. PICK k \in S : \A j \in S : k <= j
    <3> HIDE DEF S
    <3> QED
      BY <2>1, Least
  <2>3. PICK m \in Seq(Chunk) : Len(m) = k /\ f[m] # g[m]
    OBVIOUS
  <2>4. k \in 0 .. n
    OBVIOUS
  <2>5. ASSUME NEW q \in Seq(Chunk), Len(q) < Len(m) PROVE f[q] = g[q]
    <3>1. Len(q) \in 0 .. n /\ ~(k <= Len(q))
      BY <2>3, <2>4, <2>5
    <3>2. Len(q) \notin S
      BY <2>2, <3>1
    <3>3. QED
      BY <3>1, <3>2
  <2>6. Merged(f, m) = Merged(g, m)
    BY <2>5, MergedLocal
  <2>7. f[m] = Merged(f, m) /\ g[m] = Merged(g, m)
    BY <2>3, <2>4 DEF UpTo
  <2>8. QED
    BY <2>3, <2>6, <2>7
<1>2. Len(l) \in 0 .. n
  OBVIOUS
<1>3. Len(l) \notin S
  BY <1>1
<1>4. QED
  BY <1>2, <1>3

LEMMA UpToExists ==
  ASSUME NEW n \in Nat
  PROVE  \E f : UpTo(f, n)
<1> DEFINE S == {k \in Nat : \A f : ~UpTo(f, k)}
<1> SUFFICES ASSUME S # {} PROVE FALSE
  OBVIOUS
<1>1. S \in SUBSET Nat
  OBVIOUS
<1>2. PICK k \in S : \A j \in S : k <= j
  <2> HIDE DEF S
  <2> QED
    BY <1>1, Least
<1>3. k \in Nat /\ \A f : ~UpTo(f, k)
  OBVIOUS
<1>4. \E f : \A l \in Seq(Chunk) : Len(l) < k => f[l] = Merged(f, l)
  <2>1. CASE k = 0
    <3>1. \A l \in Seq(Chunk) : ~(Len(l) < 0)
      OBVIOUS
    <3>2. QED
      BY <2>1, <3>1
  <2>2. CASE k # 0
    <3>1. k - 1 \in Nat /\ ~(k <= k - 1)
      BY <1>3, <2>2
    <3>2. k - 1 \notin S
      BY <1>2, <3>1
    <3>3. PICK f : UpTo(f, k - 1)
      BY <3>1, <3>2
    <3>4. \A l \in Seq(Chunk) : Len(l) < k => Len(l) <= k - 1
      BY <1>3
    <3>5. QED
      BY <3>3, <3>4 DEF UpTo
  <2>3. QED
    BY <2>1, <2>2
<1>5. PICK f : \A l \in Seq(Chunk) : Len(l) < k => f[l] = Merged(f, l)
  BY <1>4
<1> DEFINE g == [l \in Seq(Chunk) |-> IF Len(l) = k THEN Merged(f, l) ELSE f[l]]
<1>6. \A l \in Seq(Chunk) : g[l] = IF Len(l) = k THEN Merged(f, l) ELSE f[l]
  OBVIOUS
<1> HIDE DEF g
<1>7. \A l \in Seq(Chunk) : Len(l) < k => g[l] = f[l]
  BY <1>3, <1>6
<1>8. ASSUME NEW l \in Seq(Chunk), Len(l) <= k PROVE g[l] = Merged(g, l)
  <2>1. \A m \in Seq(Chunk) : Len(m) < Len(l) => f[m] = g[m]
    <3> SUFFICES ASSUME NEW m \in Seq(Chunk), Len(m) < Len(l) PROVE f[m] = g[m]
      OBVIOUS
    <3>1. Len(m) < k
      BY <1>3, <1>8
    <3>2. QED
      BY <1>7, <3>1
  <2>2. Merged(f, l) = Merged(g, l)
    BY <2>1, MergedLocal
  <2>3. g[l] = Merged(f, l)
    BY <1>3, <1>5, <1>6, <1>8
  <2>4. QED
    BY <2>2, <2>3
<1>9. UpTo(g, k)
  BY <1>8 DEF UpTo
<1>10. QED
  BY <1>3, <1>9

LEMMA MergeIs ==
  ASSUME NEW l \in Seq(Chunk)
  PROVE  Merge[l] = Merged(Merge, l)
<1> DEFINE upTo(n) == CHOOSE f : UpTo(f, n)
           F == [m \in Seq(Chunk) |-> upTo(Len(m))[m]]
<1>1. \A n \in Nat : UpTo(upTo(n), n)
  BY UpToExists
<1> HIDE DEF upTo
<1>2. \A m \in Seq(Chunk) : F[m] = upTo(Len(m))[m] /\ Len(m) \in Nat
  OBVIOUS
<1>3. ASSUME NEW m \in Seq(Chunk) PROVE F[m] = Merged(F, m)
  <2>0. Len(m) \in Nat
    OBVIOUS
  <2> DEFINE f == upTo(Len(m))
  <2>1. UpTo(f, Len(m))
    BY <1>1, <2>0
  <2>2. F[m] = f[m]
    BY <1>2
  <2> HIDE DEF F, f
  <2>3. f[m] = Merged(f, m)
    BY <2>0, <2>1 DEF UpTo
  <2>4. ASSUME NEW q \in Seq(Chunk), Len(q) < Len(m) PROVE f[q] = F[q]
    <3> DEFINE g == upTo(Len(q))
    <3>1. Len(q) \in Nat /\ Len(q) <= Len(q)
      OBVIOUS
    <3>2. UpTo(g, Len(q))
      BY <1>1, <3>1
    <3>3. UpTo(f, Len(q))
      <4> SUFFICES ASSUME NEW x \in Seq(Chunk), Len(x) <= Len(q) PROVE f[x] = Merged(f, x)
        BY DEF UpTo
      <4>1. Len(x) <= Len(m)
        BY <2>4
      <4>2. QED
        BY <2>1, <4>1 DEF UpTo
    <3>4. F[q] = g[q]
      BY <1>2
    <3> HIDE DEF g
    <3>5. f[q] = g[q]
      BY <3>1, <3>2, <3>3, UpToUnique
    <3>6. QED
      BY <3>4, <3>5
  <2>5. Merged(f, m) = Merged(F, m)
    BY <2>4, MergedLocal
  <2>6. QED
    BY <2>2, <2>3, <2>5
<1>4. F = [m \in Seq(Chunk) |-> Merged(F, m)]
  <2>1. F = [m \in Seq(Chunk) |-> F[m]]
    OBVIOUS
  <2> HIDE DEF F
  <2>2. QED
    BY <1>3, <2>1
<1> HIDE DEF F
<1>5. \E G : G = [m \in Seq(Chunk) |-> Merged(G, m)]
  BY <1>4
<1>6. Merge = CHOOSE G : G = [m \in Seq(Chunk) |-> Merged(G, m)]
  BY Zenon DEF Merge, Merged
<1>7. Merge = [m \in Seq(Chunk) |-> Merged(Merge, m)]
  BY <1>5, <1>6
<1>8. QED
  <2> DEFINE M == Merge
  <2>1. M = [m \in Seq(Chunk) |-> Merged(M, m)]
    BY <1>7
  <2> HIDE DEF M
  <2>2. M[l] = Merged(M, l)
    BY <2>1
  <2>3. QED
    BY <2>2 DEF M

LEMMA ChunkNat ==
  ASSUME NEW c \in Chunk
  PROVE  c.address \in Nat /\ c.pages \in Nat /\ EndOf(c) = c.address + c.pages
BY DEF Chunk, EndOf

\* A chunk grown by a run next to it.
LEMMA JoinIs ==
  ASSUME NEW c \in Chunk, NEW d \in Chunk, c.pages > 0, d.pages > 0, Adjacent(c, d)
  PROVE  /\ Join(c, d) \in Chunk /\ Join(c, d).pages > 0
         /\ Span(Join(c, d)) = Span(c) \cup Span(d)
         /\ \A e \in Chunk : e.pages > 0 /\ Gap(e, c) /\ Clear(e, d) => Clear(e, Join(c, d))
<1> DEFINE j == Join(c, d)
<1>1. /\ c.address \in Nat /\ c.pages \in Nat /\ EndOf(c) = c.address + c.pages
      /\ d.address \in Nat /\ d.pages \in Nat /\ EndOf(d) = d.address + d.pages
  BY ChunkNat
<1>2. /\ j.address = IF EndOf(d) = c.address THEN d.address ELSE c.address
      /\ j.pages = c.pages + d.pages
      /\ j = [address |-> j.address, pages |-> j.pages]
  BY DEF Join
<1> HIDE DEF j
<1>3. j.address \in Nat /\ j.pages \in Nat /\ j.pages > 0
  BY <1>1, <1>2
<1>4. j \in Chunk
  BY <1>2, <1>3 DEF Chunk
<1>5. EndOf(j) = j.address + j.pages
  BY DEF EndOf
<1>6. EndOf(d) = c.address \/ EndOf(c) = d.address
  BY DEF Adjacent
<1>7. Span(j) = Span(c) \cup Span(d)
  <2> SUFFICES ASSUME NEW x PROVE x \in Span(j) <=> x \in Span(c) \/ x \in Span(d)
    OBVIOUS
  <2>1. /\ x \in Span(j) <=> x \in Nat /\ j.address <= x /\ x < EndOf(j)
        /\ x \in Span(c) <=> x \in Nat /\ c.address <= x /\ x < EndOf(c)
        /\ x \in Span(d) <=> x \in Nat /\ d.address <= x /\ x < EndOf(d)
    BY <1>1, <1>3, Pages
  <2>2. QED
    BY <1>1, <1>2, <1>3, <1>5, <1>6, <2>1
<1>8. ASSUME NEW e \in Chunk, e.pages > 0, Gap(e, c), Clear(e, d) PROVE Clear(e, j)
  <2>1. e.address \in Nat /\ e.pages \in Nat /\ EndOf(e) = e.address + e.pages
    BY ChunkNat
  <2>2. QED
    BY <1>1, <1>2, <1>3, <1>5, <1>6, <1>8, <2>1 DEF Gap, Clear
<1>9. QED
  BY <1>3, <1>4, <1>7, <1>8 DEF j

\* What releasing d does to a list that does not hold any of its pages: the
\* bug check for a double free is not reached.
MergeOutcome(l, d, m) ==
  /\ m.how \in {"apart", "merged"}
  /\ m.how = "apart" => m.list = l /\ \A i \in DOMAIN l : Gap(l[i], d)
  /\ m.how = "merged" => /\ Spaced(m.list) /\ Sorted(m.list)
                         /\ FreeIn(m.list) = FreeIn(l) \cup Span(d)

\* It may be released.
Released(l, d) ==
  /\ Spaced(l) /\ Sorted(l)
  /\ d \in Chunk /\ d.pages > 0
  /\ \A i \in DOMAIN l : Clear(l[i], d)

\* One call, when those it makes are right.
LEMMA MergeStep ==
  ASSUME NEW l, NEW d, Released(l, d),
         \A r, e : Released(r, e) /\ Len(r) < Len(l) => MergeOutcome(r, e, Merge[r][e])
  PROVE  MergeOutcome(l, d, Merge[l][d])
<1> DEFINE i     == Earliest(Found(l, d))
           r     == RemoveAt(l, i)
           found == Join(l[i], d)
           rest  == Merge[r][found]
           m     == Merge[l][d]
<1>1. /\ Spaced(l) /\ Sorted(l) /\ d \in Chunk /\ d.pages > 0
      /\ \A n \in DOMAIN l : Clear(l[n], d)
  BY DEF Released
<1>2. /\ l \in Seq(Chunk) /\ DOMAIN l = 1 .. Len(l) /\ Len(l) \in Nat
      /\ \A n \in DOMAIN l : l[n] \in Chunk /\ l[n].pages > 0
  BY <1>1 DEF Spaced
<1>3. m = IF Found(l, d) = {}
          THEN [how |-> "apart", list |-> l]
          ELSE IF ~Adjacent(l[i], d)
          THEN [how |-> "double_free", list |-> l]
          ELSE IF rest.how = "apart"
          THEN [how |-> "merged", list |-> Insert(found, rest.list)]
          ELSE rest
  <2>1. Merge[l] = Merged(Merge, l)
    BY <1>2, MergeIs
  <2> DEFINE M == Merge
  <2>2. m = Merged(M, l)[d]
    BY <2>1
  <2> HIDE DEF M, m
  <2>3. m = IF Found(l, d) = {}
            THEN [how |-> "apart", list |-> l]
            ELSE IF ~Adjacent(l[i], d)
            THEN [how |-> "double_free", list |-> l]
            ELSE IF M[r][found].how = "apart"
            THEN [how |-> "merged", list |-> Insert(found, M[r][found].list)]
            ELSE M[r][found]
    BY <1>1, <2>2, Zenon DEF Merged
  <2>4. QED
    BY <2>3 DEF M
<1> HIDE DEF m
<1>4. CASE Found(l, d) = {}
  <2>1. m.how = "apart" /\ m.list = l
    BY <1>3, <1>4
  <2>2. ASSUME NEW n \in DOMAIN l PROVE Gap(l[n], d)
    <3>1. ~Adjacent(l[n], d) /\ Clear(l[n], d)
      BY <1>1, <1>4 DEF Found
    <3>2. /\ l[n].address \in Nat /\ l[n].pages \in Nat /\ EndOf(l[n]) = l[n].address + l[n].pages
          /\ d.address \in Nat /\ d.pages \in Nat /\ EndOf(d) = d.address + d.pages
      BY <1>1, <1>2, ChunkNat
    <3>3. QED
      BY <3>1, <3>2 DEF Gap, Clear, Adjacent
  <2>3. QED
    BY <2>1, <2>2 DEF MergeOutcome, m
<1>5. CASE Found(l, d) # {}
  <2>1. i \in DOMAIN l /\ (Adjacent(l[i], d) \/ l[i].address = d.address)
    <3>1. Found(l, d) \in SUBSET Nat
      BY <1>2 DEF Found
    <3>2. i \in Found(l, d)
      BY <1>5, <3>1, EarliestIs
    <3> HIDE DEF i
    <3>3. QED
      BY <3>2 DEF Found
  <2> HIDE DEF i
  <2>2. l[i] \in Chunk /\ l[i].pages > 0 /\ Clear(l[i], d)
    BY <1>1, <1>2, <2>1
  <2>3. Adjacent(l[i], d)
    <3>1. /\ l[i].address \in Nat /\ l[i].pages \in Nat /\ EndOf(l[i]) = l[i].address + l[i].pages
          /\ d.address \in Nat /\ d.pages \in Nat /\ EndOf(d) = d.address + d.pages
      BY <1>1, <2>2, ChunkNat
    <3>2. l[i].address # d.address
      BY <1>1, <2>2, <3>1 DEF Clear
    <3>3. QED
      BY <2>1, <3>2
  <2>4. /\ Spaced(r) /\ Sorted(r) /\ Len(r) = Len(l) - 1
        /\ FreeIn(l) = FreeIn(r) \cup Span(l[i])
        /\ \A j \in DOMAIN r : Gap(r[j], l[i])
        /\ \A j \in DOMAIN r : \E n \in DOMAIN l : r[j] = l[n]
    BY <1>1, <2>1, RemoveKeeps
  <2>5. /\ found \in Chunk /\ found.pages > 0
        /\ Span(found) = Span(l[i]) \cup Span(d)
        /\ \A e \in Chunk : e.pages > 0 /\ Gap(e, l[i]) /\ Clear(e, d) => Clear(e, found)
    BY <1>1, <2>2, <2>3, JoinIs
  <2> HIDE DEF r, found
  <2>6. \A j \in DOMAIN r : Clear(r[j], found)
    <3> SUFFICES ASSUME NEW j \in DOMAIN r PROVE Clear(r[j], found)
      OBVIOUS
    <3>1. PICK n \in DOMAIN l : r[j] = l[n]
      BY <2>4
    <3>2. l[n] \in Chunk /\ l[n].pages > 0 /\ Clear(l[n], d)
      BY <1>1, <1>2
    <3>3. Gap(r[j], l[i])
      BY <2>4
    <3>4. QED
      BY <2>5, <3>1, <3>2, <3>3
  <2>7. Released(r, found) /\ Len(r) < Len(l)
    BY <1>2, <2>4, <2>5, <2>6 DEF Released
  <2>8. MergeOutcome(r, found, rest)
    BY <2>7
  <2> HIDE DEF rest
  <2>9. CASE rest.how = "apart"
    <3>1. rest.list = r /\ \A j \in DOMAIN r : Gap(r[j], found)
      BY <2>8, <2>9 DEF MergeOutcome
    <3>2. m.how = "merged" /\ m.list = Insert(found, r)
      BY <1>3, <1>5, <2>3, <2>9, <3>1
    <3>3. /\ Spaced(Insert(found, r)) /\ Sorted(Insert(found, r))
          /\ FreeIn(Insert(found, r)) = FreeIn(r) \cup Span(found)
      BY <2>4, <2>5, <3>1, InsertKeeps
    <3>4. FreeIn(m.list) = FreeIn(l) \cup Span(d)
      BY <2>4, <2>5, <3>2, <3>3
    <3>5. QED
      BY <3>2, <3>3, <3>4 DEF MergeOutcome, m
  <2>10. CASE rest.how # "apart"
    <3>1. m = rest
      BY <1>3, <1>5, <2>3, <2>10
    <3>2. /\ rest.how = "merged" /\ Spaced(rest.list) /\ Sorted(rest.list)
          /\ FreeIn(rest.list) = FreeIn(r) \cup Span(found)
      BY <2>8, <2>10 DEF MergeOutcome
    <3>3. FreeIn(rest.list) = FreeIn(l) \cup Span(d)
      BY <2>4, <2>5, <3>2
    <3>4. MergeOutcome(l, d, m)
      BY <3>1, <3>2, <3>3 DEF MergeOutcome
    <3>5. QED
      BY <3>4 DEF m
  <2>11. QED
    BY <2>9, <2>10
<1>6. QED
  BY <1>4, <1>5

LEMMA MergeRight ==
  ASSUME NEW l, NEW d, Released(l, d)
  PROVE  MergeOutcome(l, d, TryMerge(l, d))
<1> DEFINE S == {n \in Nat : \E r, e : Released(r, e) /\ Len(r) = n /\ ~MergeOutcome(r, e, Merge[r][e])}
<1>1. S = {}
  <2> SUFFICES ASSUME S # {} PROVE FALSE
    OBVIOUS
  <2>1. S \in SUBSET Nat
    OBVIOUS
  <2>2. PICK n \in S : \A j \in S : n <= j
    <3> HIDE DEF S
    <3> QED
      BY <2>1, Least
  <2>3. PICK r, e : Released(r, e) /\ Len(r) = n /\ ~MergeOutcome(r, e, Merge[r][e])
    OBVIOUS
  <2>4. ASSUME NEW q, NEW f, Released(q, f), Len(q) < Len(r)
        PROVE  MergeOutcome(q, f, Merge[q][f])
    <3>1. q \in Seq(Chunk)
      BY <2>4 DEF Released, Spaced
    <3>2. Len(q) \in Nat /\ n \in Nat
      BY <3>1
    <3>3. ~(n <= Len(q))
      BY <2>3, <2>4, <3>2
    <3>4. Len(q) \notin S
      BY <2>2, <3>3
    <3>5. QED
      BY <2>4, <3>2, <3>4
  <2>5. MergeOutcome(r, e, Merge[r][e])
    BY <2>3, <2>4, MergeStep
  <2>6. QED
    BY <2>3, <2>5
<1>2. Len(l) \in Nat
  <2>1. l \in Seq(Chunk)
    BY DEF Released, Spaced
  <2>2. QED
    BY <2>1
<1>3. Len(l) \notin S
  BY <1>1
<1>4. QED
  BY <1>2, <1>3 DEF TryMerge

\* A run taken from the head of the list.
LEMMA TakeKeeps ==
  ASSUME NEW l, Spaced(l), Sorted(l), NEW n \in Nat \ {0}, HasRoom(l, n),
         NEW r, r = [address |-> Head(l).address, pages |-> n]
  PROVE  /\ Spaced(Take(l, n)) /\ Sorted(Take(l, n))
         /\ r \in Chunk /\ Span(r) \subseteq FreeIn(l)
         /\ FreeIn(Take(l, n)) = FreeIn(l) \ Span(r)
<1> DEFINE h    == l[1]
           t    == RemoveAt(l, 1)
           rest == [address |-> h.address + n, pages |-> h.pages - n]
<1>1. /\ l \in Seq(Chunk) /\ l # <<>> /\ Head(l) = h /\ h.pages >= n
      /\ 1 \in DOMAIN l
  BY DEF Spaced, HasRoom
<1>2. h \in Chunk
  BY <1>1
<1>3. h.address \in Nat /\ h.pages \in Nat /\ EndOf(h) = h.address + h.pages
  BY <1>2, ChunkNat
<1>4. Tail(l) = t
  BY <1>1, TailRemoves
<1>5. /\ Spaced(t) /\ Sorted(t)
      /\ FreeIn(l) = FreeIn(t) \cup Span(h)
      /\ \A j \in DOMAIN t : Gap(t[j], h)
  BY <1>1, RemoveKeeps
<1>6. \A j \in DOMAIN t : t[j] \in Chunk
  BY <1>5 DEF Spaced
<1>7. r.address = h.address /\ r.pages = n /\ EndOf(r) = h.address + n /\ r \in Chunk
  BY <1>1, <1>3 DEF EndOf, Chunk
<1> HIDE DEF h, t
<1>8. \A x : x \in Span(h) <=> x \in Nat /\ h.address <= x /\ x < h.address + h.pages
  BY <1>3, Pages
<1>9. \A x : x \in Span(r) <=> x \in Nat /\ h.address <= x /\ x < h.address + n
  BY <1>7, Pages, ChunkNat
<1>10. Span(r) \subseteq Span(h)
  BY <1>1, <1>3, <1>8, <1>9
<1>11. FreeIn(t) \cap Span(h) = {}
  <2> SUFFICES ASSUME NEW x \in FreeIn(t), x \in Span(h) PROVE FALSE
    OBVIOUS
  <2>1. PICK j \in DOMAIN t : x \in Span(t[j])
    BY InFree
  <2>2. Gap(t[j], h) /\ t[j].address \in Nat /\ t[j].pages \in Nat /\ EndOf(t[j]) \in Nat
    BY <1>5, <1>6, ChunkNat
  <2>3. x \in Nat /\ t[j].address <= x /\ x < EndOf(t[j])
    BY <2>1, <2>2, Pages
  <2>4. QED
    BY <1>3, <1>8, <2>2, <2>3 DEF Gap
<1>12. CASE h.pages = n
  <2>1. Take(l, n) = t
    BY <1>1, <1>4, <1>12 DEF Take
  <2>2. Span(r) = Span(h)
    BY <1>8, <1>9, <1>12
  <2>3. QED
    BY <1>5, <1>7, <1>11, <2>1, <2>2
<1>13. CASE h.pages # n
  <2>1. Take(l, n) = Insert(rest, t)
    BY <1>1, <1>4, <1>13 DEF Take
  <2>2. /\ rest.address = h.address + n /\ rest.pages = h.pages - n
        /\ rest \in Chunk /\ rest.pages > 0
    BY <1>1, <1>3, <1>13 DEF Chunk
  <2> HIDE DEF rest
  <2>3. EndOf(rest) = h.address + h.pages
    BY <1>1, <1>3, <2>2 DEF EndOf
  <2>4. ASSUME NEW j \in DOMAIN t PROVE Gap(t[j], rest)
    <3>1. /\ Gap(t[j], h) /\ t[j].address \in Nat /\ t[j].pages \in Nat
          /\ EndOf(t[j]) = t[j].address + t[j].pages
      BY <1>5, <1>6, ChunkNat
    <3>2. QED
      BY <1>1, <1>3, <2>2, <2>3, <3>1 DEF Gap
  <2>5. /\ Spaced(Insert(rest, t)) /\ Sorted(Insert(rest, t))
        /\ FreeIn(Insert(rest, t)) = FreeIn(t) \cup Span(rest)
    BY <1>5, <2>2, <2>4, InsertKeeps
  <2>6. \A x : x \in Span(rest) <=> x \in Nat /\ h.address + n <= x /\ x < h.address + h.pages
    BY <2>2, <2>3, Pages, ChunkNat
  <2>7. Span(rest) = Span(h) \ Span(r)
    BY <1>1, <1>3, <1>8, <1>9, <2>6
  <2>8. FreeIn(t) \cup Span(rest) = FreeIn(l) \ Span(r)
    BY <1>5, <1>10, <1>11, <2>7
  <2>9. QED
    BY <1>5, <1>7, <1>10, <2>1, <2>5, <2>8
<1>14. QED
  BY <1>12, <1>13

\* A run of free pages is part of one chunk, so one that does not fit in the
\* head fits nowhere.
LEMMA NoRoom ==
  ASSUME NEW l, Spaced(l), Sorted(l), NEW r \in Chunk, r.pages > 0, ~HasRoom(l, r.pages)
  PROVE  ~(Span(r) \subseteq FreeIn(l))
<1> SUFFICES ASSUME Span(r) \subseteq FreeIn(l) PROVE FALSE
  OBVIOUS
<1>1. /\ l \in Seq(Chunk) /\ DOMAIN l = 1 .. Len(l) /\ Len(l) \in Nat
      /\ \A i \in DOMAIN l : l[i] \in Chunk
  BY DEF Spaced
<1>2. r.address \in Nat /\ r.pages \in Nat /\ EndOf(r) = r.address + r.pages
  BY ChunkNat
<1>3. \A x : x \in Span(r) <=> x \in Nat /\ r.address <= x /\ x < EndOf(r)
  BY <1>2, Pages
<1>4. r.address \in FreeIn(l)
  BY <1>2, <1>3
<1>5. PICK i \in DOMAIN l : r.address \in Span(l[i])
  BY <1>4, InFree
<1>6. l[i].address \in Nat /\ l[i].pages \in Nat /\ EndOf(l[i]) = l[i].address + l[i].pages
  BY <1>1, ChunkNat
<1>7. l[i].address <= r.address /\ r.address < EndOf(l[i])
  BY <1>5, <1>6, Pages
<1>8. EndOf(r) <= EndOf(l[i])
  <2> SUFFICES ASSUME EndOf(l[i]) < EndOf(r) PROVE FALSE
    BY <1>2, <1>6
  <2>1. EndOf(l[i]) \in Span(r)
    BY <1>2, <1>3, <1>6, <1>7
  <2>2. PICK j \in DOMAIN l : EndOf(l[i]) \in Span(l[j])
    BY <2>1, InFree
  <2>3. l[j].address \in Nat /\ l[j].pages \in Nat /\ EndOf(l[j]) = l[j].address + l[j].pages
    BY <1>1, ChunkNat
  <2>4. l[j].address <= EndOf(l[i]) /\ EndOf(l[i]) < EndOf(l[j])
    BY <2>2, <2>3, Pages
  <2>5. i # j
    BY <1>6, <2>4
  <2>6. Gap(l[i], l[j])
    BY <2>5 DEF Spaced
  <2>7. QED
    BY <1>6, <2>3, <2>4, <2>6 DEF Gap
<1>9. l[i].pages >= r.pages
  BY <1>2, <1>6, <1>7, <1>8
<1>10. l # <<>> /\ 1 \in DOMAIN l /\ Head(l) = l[1]
  BY <1>1
<1>11. l[1].pages >= l[i].pages /\ l[1].pages \in Nat
  <2>1. l[1].pages \in Nat
    BY <1>1, <1>10, ChunkNat
  <2>2. CASE i = 1
    BY <1>6, <2>2
  <2>3. CASE i # 1
    BY <1>1, <1>10, <2>1, <2>3 DEF Sorted
  <2>4. QED
    BY <2>1, <2>2, <2>3
<1>12. HasRoom(l, r.pages)
  BY <1>2, <1>6, <1>9, <1>10, <1>11 DEF HasRoom
<1>13. QED
  BY <1>12

-----------------------------------------------------------------------------
(* The pages of a region.                                                   *)

LEMMA RunIs ==
  ASSUME NEW r \in Run
  PROVE  /\ r \in Chunk /\ r.pages > 0 /\ r.pages \in Nat /\ r.address \in Nat
         /\ r.address \in VremapRegion /\ r.pages \in 1 .. VremapPages
         /\ EndOf(r) = r.address + r.pages
         /\ r = [address |-> r.address, pages |-> r.pages]
<1>1. Base \in Nat /\ VremapPages \in Nat
  BY VremapAssumption
<1>2. r.address \in VremapRegion /\ r.pages \in 1 .. VremapPages
      /\ r = [address |-> r.address, pages |-> r.pages]
  BY DEF Run
<1>3. r.address \in Nat /\ r.pages \in Nat /\ r.pages > 0
  BY <1>1, <1>2 DEF VremapRegion
<1>4. QED
  BY <1>2, <1>3 DEF Chunk, EndOf

LEMMA SpanSize ==
  ASSUME NEW c \in Chunk
  PROVE  IsFiniteSet(Span(c)) /\ Cardinality(Span(c)) = c.pages
<1>1. c.address \in Nat /\ c.pages \in Nat /\ EndOf(c) = c.address + c.pages
  BY ChunkNat
<1>2. c.address \in Int /\ EndOf(c) - 1 \in Int
  BY <1>1
<1>3. /\ IsFiniteSet(c.address .. (EndOf(c) - 1))
      /\ Cardinality(c.address .. (EndOf(c) - 1)) =
           IF c.address > EndOf(c) - 1 THEN 0 ELSE (EndOf(c) - 1) - c.address + 1
  BY <1>2, FS_Interval
<1>4. QED
  BY <1>1, <1>3 DEF Span

LEMMA RegionSize == IsFiniteSet(VremapRegion) /\ Cardinality(VremapRegion) = VremapPages
<1>1. Base \in Nat /\ VremapPages \in Nat /\ VremapPages > 0
  BY VremapAssumption
<1>2. Base \in Int /\ Base + VremapPages - 1 \in Int
  BY <1>1
<1>3. /\ IsFiniteSet(Base .. (Base + VremapPages - 1))
      /\ Cardinality(Base .. (Base + VremapPages - 1)) =
           IF Base > Base + VremapPages - 1 THEN 0 ELSE (Base + VremapPages - 1) - Base + 1
  BY <1>2, FS_Interval
<1>4. QED
  BY <1>1, <1>3 DEF VremapRegion

LEMMA InHeld ==
  ASSUME NEW s
  PROVE  \A x : x \in HeldPages(s) <=> \E r \in s : x \in Span(r)
BY DEF HeldPages

\* No page is in two runs clear of each other.
LEMMA ClearSpans ==
  ASSUME NEW c \in Chunk, NEW d \in Chunk, Clear(c, d)
  PROVE  Span(c) \cap Span(d) = {}
<1>1. /\ c.address \in Nat /\ c.pages \in Nat /\ EndOf(c) = c.address + c.pages
      /\ d.address \in Nat /\ d.pages \in Nat /\ EndOf(d) = d.address + d.pages
  BY ChunkNat
<1>2. \A x : /\ x \in Span(c) <=> x \in Nat /\ c.address <= x /\ x < EndOf(c)
             /\ x \in Span(d) <=> x \in Nat /\ d.address <= x /\ x < EndOf(d)
  BY <1>1, Pages
<1>3. QED
  BY <1>1, <1>2 DEF Clear

\* The books, as a relation between the list of chunks and the rest.
Books(l, h, o) ==
  /\ h \subseteq Run
  /\ \A r, s \in h : r # s => Clear(r, s)
  /\ VremapRegion = FreeIn(l) \cup o \cup HeldPages(h)
  /\ FreeIn(l) \cap HeldPages(h) = {}
  /\ o \cap FreeIn(l) = {}
  /\ o \cap HeldPages(h) = {}

RunsCounted(l, b) == b \in Int /\ b + Cardinality(FreeIn(l)) = VremapPages

LEMMA BooksInv ==
  /\ PagesInv <=> Books(chunks, held, lost)
  /\ CountInv <=> RunsCounted(chunks, busy)
BY DEF PagesInv, CountInv, Books, RunsCounted

\* Free pages become a caller's.
LEMMA BooksGive ==
  ASSUME NEW l, NEW h, NEW o, NEW m, NEW r \in Run, Books(l, h, o),
         Span(r) \subseteq FreeIn(l), FreeIn(m) = FreeIn(l) \ Span(r)
  PROVE  Books(m, h \cup {r}, o)
<1>1. /\ h \subseteq Run
      /\ \A p, s \in h : p # s => Clear(p, s)
      /\ VremapRegion = FreeIn(l) \cup o \cup HeldPages(h)
      /\ FreeIn(l) \cap HeldPages(h) = {}
      /\ o \cap FreeIn(l) = {}
      /\ o \cap HeldPages(h) = {}
  BY DEF Books
<1>2. HeldPages(h \cup {r}) = HeldPages(h) \cup Span(r)
  BY DEF HeldPages
<1>3. ASSUME NEW s \in h PROVE Clear(s, r) /\ Clear(r, s)
  <2>1. s \in Chunk /\ s.pages > 0 /\ r \in Chunk /\ r.pages > 0
    BY <1>1, RunIs
  <2>2. Span(s) \cap Span(r) = {} /\ Span(r) \cap Span(s) = {}
    BY <1>1, InHeld
  <2>3. QED
    BY <2>1, <2>2, Apart
<1>4. \A p, s \in h \cup {r} : p # s => Clear(p, s)
  BY <1>1, <1>3
<1>5. QED
  BY <1>1, <1>2, <1>4 DEF Books

LEMMA HeldLess ==
  ASSUME NEW h, h \subseteq Run, \A p, s \in h : p # s => Clear(p, s), NEW r \in h
  PROVE  HeldPages(h) = HeldPages(h \ {r}) \cup Span(r) /\ HeldPages(h \ {r}) \cap Span(r) = {}
<1>1. HeldPages(h) = HeldPages(h \ {r}) \cup Span(r)
  BY DEF HeldPages
<1>2. ASSUME NEW x \in HeldPages(h \ {r}), x \in Span(r) PROVE FALSE
  <2>1. PICK s \in h \ {r} : x \in Span(s)
    BY InHeld
  <2>2. s \in Chunk /\ r \in Chunk /\ Clear(s, r)
    BY RunIs
  <2>3. QED
    BY <1>2, <2>1, <2>2, ClearSpans
<1>3. QED
  BY <1>1, <1>2

\* A caller's pages become free.
LEMMA BooksFree ==
  ASSUME NEW l, NEW h, NEW o, NEW m, NEW r \in h, Books(l, h, o),
         FreeIn(m) = FreeIn(l) \cup Span(r)
  PROVE  Books(m, h \ {r}, o)
<1>1. h \subseteq Run /\ \A p, s \in h : p # s => Clear(p, s)
  BY DEF Books
<1>2. HeldPages(h) = HeldPages(h \ {r}) \cup Span(r) /\ HeldPages(h \ {r}) \cap Span(r) = {}
  BY <1>1, HeldLess
<1>3. /\ VremapRegion = FreeIn(l) \cup o \cup HeldPages(h)
      /\ FreeIn(l) \cap HeldPages(h) = {}
      /\ o \cap FreeIn(l) = {}
      /\ o \cap HeldPages(h) = {}
  BY DEF Books
<1>4. /\ VremapRegion = FreeIn(m) \cup o \cup HeldPages(h \ {r})
      /\ FreeIn(m) \cap HeldPages(h \ {r}) = {}
      /\ o \cap FreeIn(m) = {}
      /\ o \cap HeldPages(h \ {r}) = {}
  BY <1>2, <1>3
<1>5. QED
  BY <1>1, <1>4 DEF Books

\* A caller's pages are lost.
LEMMA BooksLose ==
  ASSUME NEW l, NEW h, NEW o, NEW r \in h, Books(l, h, o)
  PROVE  Books(l, h \ {r}, o \cup Span(r))
<1>1. h \subseteq Run /\ \A p, s \in h : p # s => Clear(p, s)
  BY DEF Books
<1>2. HeldPages(h) = HeldPages(h \ {r}) \cup Span(r) /\ HeldPages(h \ {r}) \cap Span(r) = {}
  BY <1>1, HeldLess
<1>3. /\ VremapRegion = FreeIn(l) \cup o \cup HeldPages(h)
      /\ FreeIn(l) \cap HeldPages(h) = {}
      /\ o \cap FreeIn(l) = {}
      /\ o \cap HeldPages(h) = {}
  BY DEF Books
<1>4. /\ VremapRegion = FreeIn(l) \cup (o \cup Span(r)) \cup HeldPages(h \ {r})
      /\ FreeIn(l) \cap HeldPages(h \ {r}) = {}
      /\ (o \cup Span(r)) \cap FreeIn(l) = {}
      /\ (o \cup Span(r)) \cap HeldPages(h \ {r}) = {}
  BY <1>2, <1>3
<1>5. QED
  BY <1>1, <1>4 DEF Books

\* What a caller has may be released.
LEMMA HeldReleased ==
  ASSUME NEW l, NEW h, NEW o, Spaced(l), Sorted(l), Books(l, h, o), NEW r \in h
  PROVE  Released(l, r)
<1>1. r \in Run
  BY DEF Books
<1>2. r \in Chunk /\ r.pages > 0
  BY <1>1, RunIs
<1>3. ASSUME NEW i \in DOMAIN l PROVE Clear(l[i], r)
  <2>1. l[i] \in Chunk /\ l[i].pages > 0
    BY DEF Spaced
  <2>2. Span(l[i]) \subseteq FreeIn(l) /\ Span(r) \subseteq HeldPages(h)
    BY InFree, InHeld
  <2>3. Span(l[i]) \cap Span(r) = {}
    BY <2>2 DEF Books
  <2>4. QED
    BY <1>2, <2>1, <2>3, Apart
<1>4. QED
  BY <1>2, <1>3 DEF Released

LEMMA CountGive ==
  ASSUME NEW l, NEW m, NEW b, NEW h, NEW o, NEW r \in Run, Books(l, h, o), RunsCounted(l, b),
         Span(r) \subseteq FreeIn(l), FreeIn(m) = FreeIn(l) \ Span(r)
  PROVE  RunsCounted(m, b + r.pages)
<1>1. IsFiniteSet(FreeIn(l))
  <2>1. FreeIn(l) \in SUBSET VremapRegion
    BY DEF Books
  <2>2. QED
    BY <2>1, RegionSize, FS_Subset
<1>2. r \in Chunk /\ r.pages \in Nat
  BY RunIs
<1>3. Cardinality(Span(r)) = r.pages
  BY <1>2, SpanSize
<1>4. FreeIn(l) \cap Span(r) = Span(r)
  OBVIOUS
<1>5. Cardinality(FreeIn(l) \ Span(r)) = Cardinality(FreeIn(l)) - Cardinality(FreeIn(l) \cap Span(r))
  BY <1>1, FS_Difference
<1>6. Cardinality(FreeIn(l)) \in Nat
  BY <1>1, FS_CardinalityType
<1>7. Cardinality(FreeIn(m)) = Cardinality(FreeIn(l)) - r.pages
  BY <1>3, <1>4, <1>5
<1>8. QED
  BY <1>2, <1>6, <1>7, VremapAssumption DEF RunsCounted

LEMMA CountFree ==
  ASSUME NEW l, NEW m, NEW b, NEW h, NEW o, NEW r \in h, Books(l, h, o), RunsCounted(l, b),
         FreeIn(m) = FreeIn(l) \cup Span(r)
  PROVE  RunsCounted(m, b - r.pages)
<1>1. IsFiniteSet(FreeIn(l))
  <2>1. FreeIn(l) \in SUBSET VremapRegion
    BY DEF Books
  <2>2. QED
    BY <2>1, RegionSize, FS_Subset
<1>2. r \in Chunk /\ r.pages \in Nat
  <2>1. r \in Run
    BY DEF Books
  <2>2. QED
    BY <2>1, RunIs
<1>3. IsFiniteSet(Span(r)) /\ Cardinality(Span(r)) = r.pages
  BY <1>2, SpanSize
<1>4. FreeIn(l) \cap Span(r) = {}
  <2>1. Span(r) \subseteq HeldPages(h)
    BY InHeld
  <2>2. QED
    BY <2>1 DEF Books
<1>5. Cardinality(FreeIn(l) \cup Span(r)) =
        Cardinality(FreeIn(l)) + Cardinality(Span(r)) - Cardinality(FreeIn(l) \cap Span(r))
  BY <1>1, <1>3, FS_Union
<1>6. Cardinality(FreeIn(l)) \in Nat /\ Cardinality({}) = 0
  BY <1>1, FS_CardinalityType, FS_EmptySet
<1>7. Cardinality(FreeIn(m)) = Cardinality(FreeIn(l)) + r.pages
  <2>1. Cardinality(FreeIn(l) \cap Span(r)) = 0
    BY <1>4, <1>6
  <2>2. Cardinality(FreeIn(m)) = Cardinality(FreeIn(l) \cup Span(r))
    OBVIOUS
  <2>3. Cardinality(FreeIn(m)) = Cardinality(FreeIn(l)) + r.pages - 0
    BY <1>3, <1>5, <2>1, <2>2
  <2>4. QED
    BY <1>2, <1>6, <2>3
<1>8. QED
  BY <1>2, <1>6, <1>7, VremapAssumption DEF RunsCounted

-----------------------------------------------------------------------------
(* The steps of the region.                                                 *)

LEMMA VremapStarts == VremapInit => VremapInv
<1> SUFFICES ASSUME VremapInit PROVE VremapInv
  OBVIOUS
<1> DEFINE all == [address |-> Base, pages |-> VremapPages]
<1>1. Base \in Nat /\ VremapPages \in Nat /\ VremapPages > 0
  BY VremapAssumption
<1>2. all \in Chunk /\ all.pages > 0
  BY <1>1 DEF Chunk
<1>3. /\ chunks = <<all>> /\ busy = 0 /\ held = {} /\ lost = {} /\ failure = "none"
  BY DEF VremapInit
<1>4. Span(all) = VremapRegion
  BY <1>1 DEF Span, EndOf, VremapRegion
<1> HIDE DEF all
<1>5. chunks \in Seq(Chunk) /\ DOMAIN chunks = {1} /\ chunks[1] = all
  BY <1>2, <1>3
<1>6. Spaced(chunks) /\ Sorted(chunks)
  BY <1>2, <1>5 DEF Spaced, Sorted
<1>7. FreeIn(chunks) = VremapRegion
  BY <1>4, <1>5 DEF FreeIn
<1>8. HeldPages(held) = {}
  BY <1>3 DEF HeldPages
<1>9. PagesInv
  BY <1>3, <1>7, <1>8 DEF PagesInv
<1>10. CountInv
  BY <1>1, <1>3, <1>7, RegionSize DEF CountInv
<1>11. QED
  BY <1>3, <1>6, <1>9, <1>10 DEF VremapInv, ListInv

\* A run given is of free pages, and taken from them.
LEMMA EnsureGives ==
  ASSUME VremapInv, NEW n \in 1 .. VremapPages, Ensure(n), HasRoom(chunks, n)
  PROVE  \E r \in Run :
           /\ r.pages = n /\ held' = held \cup {r}
           /\ Span(r) \subseteq FreeIn(chunks)
           /\ FreeIn(chunks') = FreeIn(chunks) \ Span(r)
           /\ Spaced(chunks') /\ Sorted(chunks')
<1> DEFINE r == [address |-> Head(chunks).address, pages |-> n]
<1>1. Spaced(chunks) /\ Sorted(chunks) /\ Books(chunks, held, lost)
  BY BooksInv DEF VremapInv, ListInv
<1>2. n \in Nat \ {0}
  BY VremapAssumption
<1>3. chunks' = Take(chunks, n) /\ held' = held \cup {r}
  BY DEF Ensure
<1>4. r.pages = n /\ r.address = Head(chunks).address
  OBVIOUS
<1>5. /\ Spaced(Take(chunks, n)) /\ Sorted(Take(chunks, n))
      /\ r \in Chunk /\ Span(r) \subseteq FreeIn(chunks)
      /\ FreeIn(Take(chunks, n)) = FreeIn(chunks) \ Span(r)
  BY <1>1, <1>2, TakeKeeps
<1>6. r \in Run
  <2>1. r.address \in Span(r)
    <3>1. r.address \in Nat /\ r.pages \in Nat /\ EndOf(r) = r.address + r.pages
      BY <1>5, ChunkNat
    <3> HIDE DEF r
    <3>2. QED
      BY <1>2, <1>4, <3>1, Pages
  <2>2. r.address \in VremapRegion
    BY <1>1, <1>5, <2>1 DEF Books
  <2>3. QED
    BY <2>2 DEF Run
<1> HIDE DEF r
<1>7. QED
  BY <1>3, <1>4, <1>5, <1>6

\* A run released is merged or listed, if it is not lost.
LEMMA ReleaseFrees ==
  ASSUME VremapInv, NEW r \in held, Release(r)
  PROVE  /\ failure' = "none"
         /\ held' = held \ {r}
         /\ \/ /\ Spaced(chunks') /\ Sorted(chunks')
               /\ FreeIn(chunks') = FreeIn(chunks) \cup Span(r)
               /\ busy' = busy - r.pages /\ lost' = lost
               /\ ret' = [how |-> "freed", pages |-> r.pages]
            \/ /\ MayFail
               /\ lost' = lost \cup Span(r) /\ chunks' = chunks /\ busy' = busy
               /\ ret' = [how |-> "lost", pages |-> r.pages]
<1> DEFINE m == TryMerge(chunks, r)
<1>1. Spaced(chunks) /\ Sorted(chunks) /\ Books(chunks, held, lost) /\ failure = "none"
  BY BooksInv DEF VremapInv, ListInv
<1>2. Released(chunks, r)
  BY <1>1, HeldReleased
<1>3. MergeOutcome(chunks, r, m)
  BY <1>2, MergeRight
<1> HIDE DEF m
<1>4. m.how # "double_free"
  BY <1>3 DEF MergeOutcome
<1>5. /\ held' = held \ {r}
      /\ \/ /\ chunks' = IF m.how = "apart" THEN Insert(r, chunks) ELSE m.list
            /\ busy' = busy - r.pages
            /\ ret' = [how |-> "freed", pages |-> r.pages]
            /\ lost' = lost /\ failure' = failure
         \/ /\ MayFail
            /\ lost' = lost \cup Span(r)
            /\ ret' = [how |-> "lost", pages |-> r.pages]
            /\ chunks' = chunks /\ busy' = busy /\ failure' = failure
  BY <1>4 DEF Release, m
<1>6. CASE chunks' = IF m.how = "apart" THEN Insert(r, chunks) ELSE m.list
  <2>1. Spaced(chunks') /\ Sorted(chunks') /\ FreeIn(chunks') = FreeIn(chunks) \cup Span(r)
    <3>1. CASE m.how = "apart"
      <4>1. r \in Chunk /\ r.pages > 0
        BY <1>2 DEF Released
      <4>2. \A i \in DOMAIN chunks : Gap(chunks[i], r)
        BY <1>3, <3>1 DEF MergeOutcome
      <4>3. /\ Spaced(Insert(r, chunks)) /\ Sorted(Insert(r, chunks))
            /\ FreeIn(Insert(r, chunks)) = FreeIn(chunks) \cup Span(r)
        BY <1>1, <4>1, <4>2, InsertKeeps
      <4>4. chunks' = Insert(r, chunks)
        BY <1>6, <3>1
      <4>5. QED
        BY <4>3, <4>4
    <3>2. CASE m.how # "apart"
      <4>1. chunks' = m.list /\ m.how = "merged"
        BY <1>3, <1>6, <3>2 DEF MergeOutcome
      <4>2. Spaced(m.list) /\ Sorted(m.list) /\ FreeIn(m.list) = FreeIn(chunks) \cup Span(r)
        BY <1>3, <4>1 DEF MergeOutcome
      <4>3. QED
        BY <4>1, <4>2
    <3>3. QED
      BY <3>1, <3>2
  <2>2. QED
    BY <1>1, <1>5, <2>1
<1>7. QED
  BY <1>1, <1>5, <1>6

LEMMA VremapSteps == VremapInv /\ [VremapNext]_vremapVars => VremapInv'
<1> SUFFICES ASSUME VremapInv, [VremapNext]_vremapVars PROVE VremapInv'
  OBVIOUS
<1>1. /\ Spaced(chunks) /\ Sorted(chunks) /\ failure = "none"
      /\ Books(chunks, held, lost) /\ RunsCounted(chunks, busy)
  BY BooksInv DEF VremapInv, ListInv
<1>2. SUFFICES /\ Spaced(chunks') /\ Sorted(chunks') /\ failure' = "none"
               /\ Books(chunks', held', lost') /\ RunsCounted(chunks', busy')
  BY DEF VremapInv, ListInv, PagesInv, CountInv, Books, RunsCounted
<1>3. ASSUME NEW n \in 1 .. VremapPages, Ensure(n)
      PROVE  /\ Spaced(chunks') /\ Sorted(chunks') /\ failure' = "none"
             /\ Books(chunks', held', lost') /\ RunsCounted(chunks', busy')
  <2>1. lost' = lost /\ failure' = failure
    BY <1>3 DEF Ensure
  <2>2. CASE HasRoom(chunks, n)
    <3>1. PICK r \in Run :
            /\ r.pages = n /\ held' = held \cup {r}
            /\ Span(r) \subseteq FreeIn(chunks)
            /\ FreeIn(chunks') = FreeIn(chunks) \ Span(r)
            /\ Spaced(chunks') /\ Sorted(chunks')
      BY <1>3, <2>2, EnsureGives
    <3>2. busy' = busy + r.pages
      BY <1>3, <2>2, <3>1 DEF Ensure
    <3>3. Books(chunks', held \cup {r}, lost)
      BY <1>1, <3>1, BooksGive
    <3>4. RunsCounted(chunks', busy + r.pages)
      BY <1>1, <3>1, CountGive
    <3>5. QED
      BY <1>1, <2>1, <3>1, <3>2, <3>3, <3>4
  <2>3. CASE ~HasRoom(chunks, n)
    <3>1. chunks' = chunks /\ held' = held /\ busy' = busy
      BY <1>3, <2>3 DEF Ensure
    <3>2. QED
      BY <1>1, <2>1, <3>1
  <2>4. QED
    BY <2>2, <2>3
<1>4. ASSUME NEW r \in held, Release(r)
      PROVE  /\ Spaced(chunks') /\ Sorted(chunks') /\ failure' = "none"
             /\ Books(chunks', held', lost') /\ RunsCounted(chunks', busy')
  <2>1. /\ failure' = "none"
        /\ held' = held \ {r}
        /\ \/ /\ Spaced(chunks') /\ Sorted(chunks')
              /\ FreeIn(chunks') = FreeIn(chunks) \cup Span(r)
              /\ busy' = busy - r.pages /\ lost' = lost
           \/ lost' = lost \cup Span(r) /\ chunks' = chunks /\ busy' = busy
    BY <1>4, ReleaseFrees
  <2>2. CASE /\ Spaced(chunks') /\ Sorted(chunks')
             /\ FreeIn(chunks') = FreeIn(chunks) \cup Span(r)
             /\ busy' = busy - r.pages /\ lost' = lost
    <3>1. Books(chunks', held \ {r}, lost)
      BY <1>1, <2>2, BooksFree
    <3>2. RunsCounted(chunks', busy - r.pages)
      BY <1>1, <2>2, CountFree
    <3>3. QED
      BY <2>1, <2>2, <3>1, <3>2
  <2>3. CASE lost' = lost \cup Span(r) /\ chunks' = chunks /\ busy' = busy
    <3>1. Books(chunks, held \ {r}, lost \cup Span(r))
      BY <1>1, BooksLose
    <3>2. QED
      BY <1>1, <2>1, <2>3, <3>1
  <2>4. QED
    BY <2>1, <2>2, <2>3
<1>5. CASE UNCHANGED vremapVars
  BY <1>1, <1>5 DEF vremapVars
<1>6. QED
  BY <1>3, <1>4, <1>5 DEF VremapNext

LEMMA VremapAlways == VremapSpec => []VremapInv
BY VremapStarts, VremapSteps, PTL DEF VremapSpec

-----------------------------------------------------------------------------
(* What vremap.c promises.                                                  *)

LEMMA FreePagesIs == FreePages = FreeIn(chunks)
BY DEF FreePages, FreeIn

\* Whatever the sequence of vm_region_vremap_ensure and _release, every page
\* of a region is free, held or lost, and in one place only; pages_busy counts
\* those that are not free, and no release meets the bug check.
THEOREM PagesAlwaysAccounted == VremapSpec => []PagesAccounted
<1>1. VremapInv => PagesAccounted
  <2> SUFFICES ASSUME VremapInv PROVE PagesAccounted
    OBVIOUS
  <2>1. failure = "none" /\ Spaced(chunks) /\ PagesInv /\ CountInv
    BY DEF VremapInv, ListInv
  <2>2. UNION {Span(r) : r \in held} = HeldPages(held)
    BY DEF HeldPages
  <2>3. ASSUME NEW i \in DOMAIN chunks, NEW r \in held PROVE Span(chunks[i]) \cap Span(r) = {}
    <3>1. Span(chunks[i]) \subseteq FreeIn(chunks) /\ Span(r) \subseteq HeldPages(held)
      BY InFree, InHeld
    <3>2. QED
      BY <2>1, <3>1 DEF PagesInv
  <2>4. ASSUME NEW i \in DOMAIN chunks, NEW j \in DOMAIN chunks, i # j
        PROVE  Span(chunks[i]) \cap Span(chunks[j]) = {}
    <3>1. chunks[i] \in Chunk /\ chunks[j] \in Chunk /\ Gap(chunks[i], chunks[j])
      BY <2>1, <2>4 DEF Spaced
    <3>2. Clear(chunks[i], chunks[j])
      BY <3>1, ChunkNat DEF Gap, Clear
    <3>3. QED
      BY <3>1, <3>2, ClearSpans
  <2>5. VremapRegion = FreePages \cup lost \cup UNION {Span(r) : r \in held}
    BY <2>1, <2>2, FreePagesIs DEF PagesInv
  <2>6. lost \cap FreePages = {}
    BY <2>1, FreePagesIs DEF PagesInv
  <2>7. busy + Cardinality(FreePages) = VremapPages
    BY <2>1, FreePagesIs DEF CountInv
  <2>8. QED
    BY <2>1, <2>3, <2>4, <2>5, <2>6, <2>7 DEF PagesAccounted
<1>2. QED
  BY <1>1, VremapAlways, PTL

LEMMA PromisePages ==
  ASSUME NEW c \in Chunk
  PROVE  Promise!PagesOf(c) = Span(c)
<1>1. c.address \in Nat /\ c.pages \in Nat
  BY DEF Chunk
<1>2. QED
  BY <1>1 DEF Promise!PagesOf, Span, EndOf

\* A run whose pages are all in the region is one that may be asked for.
LEMMA RunFits ==
  ASSUME NEW r \in Run, Span(r) \subseteq VremapRegion
  PROVE  EndOf(r) <= Base + VremapPages
<1>1. r \in Chunk /\ r.pages \in Nat /\ r.pages > 0 /\ r.address \in Nat /\ EndOf(r) = r.address + r.pages
  BY RunIs
<1>2. EndOf(r) - 1 \in Span(r)
  BY <1>1, Pages
<1>3. EndOf(r) - 1 \in Base .. (Base + VremapPages - 1)
  BY <1>2 DEF VremapRegion
<1>4. QED
  BY <1>1, <1>3, VremapAssumption

\* A refused caller asked for more pages than there are free in a row, and
\* what is freed is joined with what is free around it: the sorted list keeps
\* the promise of PageMap for every region and every sequence of calls.
THEOREM VremapImplementsPageMap == VremapSpec => ImplementsPageMap
<1> DEFINE Runs == {r \in Run : EndOf(r) <= Base + VremapPages}
<1>1. VremapInit => Promise!Init
  <2> SUFFICES ASSUME VremapInit PROVE Promise!Init
    OBVIOUS
  <2>1. held = {} /\ ret = [how |-> "none", pages |-> 0]
    BY DEF VremapInit
  <2>2. lost = {} /\ HeldPages(held) = {}
    BY <2>1 DEF VremapInit, HeldPages
  <2>3. VremapInv
    BY VremapStarts
  <2>4. FreePages = VremapRegion
    BY <2>2, <2>3, FreePagesIs DEF VremapInv, PagesInv
  <2>5. QED
    BY <2>1, <2>4 DEF Promise!Init
<1>2. VremapInv /\ [VremapNext]_vremapVars => [Promise!Next]_<<FreePages, held, ret>>
  <2> SUFFICES ASSUME VremapInv, [VremapNext]_vremapVars
               PROVE  Promise!Next \/ UNCHANGED <<FreePages, held, ret>>
    BY Zenon
  <2>1. /\ Spaced(chunks) /\ Sorted(chunks)
        /\ Books(chunks, held, lost)
    BY BooksInv DEF VremapInv, ListInv
  <2>2. FreePages = FreeIn(chunks) /\ FreePages' = FreeIn(chunks')
    BY DEF FreePages, FreeIn
  <2>3. ASSUME NEW n \in 1 .. VremapPages, Ensure(n) PROVE Promise!Next
    <3>1. CASE HasRoom(chunks, n)
      <4>1. PICK r \in Run :
              /\ r.pages = n /\ held' = held \cup {r}
              /\ Span(r) \subseteq FreeIn(chunks)
              /\ FreeIn(chunks') = FreeIn(chunks) \ Span(r)
        BY <2>3, <3>1, EnsureGives
      <4>2. r \in Runs
        <5>1. Span(r) \subseteq VremapRegion
          BY <2>1, <4>1 DEF Books
        <5>2. QED
          BY <5>1, RunFits
      <4>3. ret' = [how |-> "given", pages |-> r.pages]
        BY <2>3, <3>1, <4>1 DEF Ensure
      <4>4. Promise!PagesOf(r) = Span(r)
        BY RunIs, PromisePages
      <4>5. Promise!Give(r)
        BY <2>2, <4>1, <4>3, <4>4 DEF Promise!Give
      <4>6. QED
        BY <4>2, <4>5 DEF Promise!Next
    <3>2. CASE ~HasRoom(chunks, n)
      <4>1. /\ ret' = [how |-> "refused", pages |-> n]
            /\ chunks' = chunks /\ held' = held
        BY <2>3, <3>2 DEF Ensure
      <4>2. Promise!Fits(n) = {}
        <5> SUFFICES ASSUME NEW r \in Runs, r.pages = n, Promise!PagesOf(r) \subseteq FreePages
                     PROVE  FALSE
          BY DEF Promise!Fits
        <5>1. r \in Run /\ r \in Chunk /\ r.pages > 0
          BY RunIs
        <5>2. Span(r) \subseteq FreeIn(chunks)
          BY <2>2, <5>1, PromisePages
        <5>3. QED
          BY <2>1, <3>2, <5>1, <5>2, NoRoom
      <4>3. n \in {r.pages : r \in Runs}
        <5> DEFINE q == [address |-> Base, pages |-> n]
        <5>1. Base \in Nat /\ VremapPages \in Nat /\ n \in Nat /\ n <= VremapPages
          BY VremapAssumption
        <5>2. Base \in VremapRegion
          BY <5>1 DEF VremapRegion
        <5>3. q \in Run /\ q.pages = n
          BY <5>2 DEF Run
        <5>4. EndOf(q) <= Base + VremapPages
          BY <5>1 DEF EndOf
        <5>5. q \in Runs
          BY <5>3, <5>4
        <5> HIDE DEF q, Runs
        <5>6. QED
          BY <5>3, <5>5
      <4>4. Promise!Refuse(n)
        BY <2>2, <4>1, <4>2 DEF Promise!Refuse
      <4>5. QED
        BY <4>3, <4>4 DEF Promise!Next
    <3>3. QED
      BY <3>1, <3>2
  <2>4. ASSUME NEW r \in held, Release(r) PROVE Promise!Next
    <3>1. /\ held' = held \ {r}
          /\ \/ /\ FreeIn(chunks') = FreeIn(chunks) \cup Span(r)
                /\ ret' = [how |-> "freed", pages |-> r.pages]
             \/ /\ MayFail /\ chunks' = chunks
                /\ ret' = [how |-> "lost", pages |-> r.pages]
      BY <2>4, ReleaseFrees
    <3>2. r \in Run
      BY <2>1 DEF Books
    <3>3. Promise!PagesOf(r) = Span(r)
      BY <3>2, RunIs, PromisePages
    <3>4. r \in Runs
      <4>1. Span(r) \subseteq VremapRegion
        BY <2>1, InHeld DEF Books
      <4>2. QED
        BY <3>2, <4>1, RunFits
    <3>5. Promise!TakeBack(r)
      BY <2>2, <3>1, <3>3 DEF Promise!TakeBack
    <3>6. QED
      BY <3>4, <3>5 DEF Promise!Next
  <2>5. CASE UNCHANGED vremapVars
    BY <2>2, <2>5 DEF vremapVars
  <2>6. QED
    BY <2>3, <2>4, <2>5 DEF VremapNext
<1>3. QED
  BY <1>1, <1>2, VremapAlways, PTL DEF VremapSpec, ImplementsPageMap, Promise!Spec
=============================================================================
