--------------------------- MODULE MsgQueue_proofs ---------------------------
(***************************************************************************)
(* References to bodies and the free lists of the tables, for any number   *)
(* of tasks, bodies and messages and tables of any size.                   *)
(***************************************************************************)
EXTENDS MsgQueue, FiniteSetTheorems, SequenceTheorems, FunctionTheorems,
        WellFoundedInduction, TLAPS

\* What a message in a table is told by, wherever it is mapped.
Kept(slot) == DOMAIN slot = {"body", "ro", "virt"} /\ slot.body \in Bodies
Free(slot) == DOMAIN slot = {"next"} /\ slot.next \in Ids \cup {NoId}

QueuesOK == incoming \in [Tasks -> Seq(Message)]
TablesOK ==
  /\ pending = [t \in Tasks |-> pending[t]]
  /\ \A t \in Tasks :
       /\ pending[t] = [i \in Ids |-> pending[t][i]]
       /\ \A i \in Ids : Kept(pending[t][i]) \/ Free(pending[t][i])
  /\ last_free \in [Tasks -> Ids \cup {NoId}]
BodiesOK == body \in [Bodies -> [count : Nat, size : Nat, header : Headers \cup {Memory.header}]]
TypeInv  == QueuesOK /\ TablesOK /\ BodiesOK

\* References, as functions of the queues and tables.
Positions(q, b) == {i \in DOMAIN q : q[i].body = b}
Slots(p, b)     == {i \in Ids : IsMessage(p[i]) /\ p[i].body = b}
Pairs(F)        == UNION {{t} \X F[t] : t \in Tasks}
QueueCount(I, b) == Cardinality(Pairs([t \in Tasks |-> Positions(I[t], b)]))
TableCount(P, b) == Cardinality(Pairs([t \in Tasks |-> Slots(P[t], b)]))
One(b, c)        == IF b = c THEN 1 ELSE 0

\* A table whose free slots are one list, in another form than FreeListSound.
FreeOf(p) == {i \in Ids : ~IsMessage(p[i])}
IsList(f, n, p, first) ==
  /\ n = Cardinality(FreeOf(p))
  /\ f \in [1..n -> FreeOf(p)]
  /\ \A i, j \in 1..n : i # j => f[i] # f[j]
  /\ first = IF n = 0 THEN NoId ELSE f[1]
  /\ \A i \in 1..n : p[f[i]].next = IF i = n THEN NoId ELSE f[i + 1]
OneList(p, first) == \E n \in Nat : \E f \in [1..n -> FreeOf(p)] : IsList(f, n, p, first)

FreeInv  == \A t \in Tasks : OneList(pending[t], last_free[t])
CountInv == \A b \in Bodies : body[b].count = QueueCount(incoming, b) + TableCount(pending, b)
MsgInv   == TypeInv /\ FreeInv /\ CountInv

-----------------------------------------------------------------------------
(* Lemmas.                                                                  *)

\* A message or a link is told by its fields.
LEMMA SlotKinds ==
  ASSUME NEW slot
  PROVE  /\ Kept(slot) => IsMessage(slot)
         /\ Free(slot) => ~IsMessage(slot)
         /\ slot \in Message => Kept(slot)
BY DEF Kept, Free, IsMessage, Message

LEMMA Least ==
  ASSUME NEW S \in SUBSET Nat, S # {}
  PROVE  Earliest(S) \in S /\ \A n \in S : Earliest(S) <= n
<1> DEFINE R == OpToRel(<, Nat)
<1>1. \E m \in S : \A n \in S : <<n, m>> \notin R
  <2>1. IsWellFoundedOn(R, Nat)
    BY NatLessThanWellFounded
  <2> HIDE DEF R
  <2> QED
    BY <2>1, WFMin
<1>2. ASSUME NEW n \in S, NEW m \in S, n < m PROVE <<n, m>> \in R
  BY <1>2 DEF OpToRel
<1> HIDE DEF R
<1>3. \A n \in S, m \in S : n < m => <<n, m>> \in R
  BY <1>2
<1>4. \E m \in S : \A n \in S : m <= n
  <2>1. PICK m \in S : \A n \in S : ~(n < m)
    BY <1>1, <1>3
  <2>2. \A n \in S : n \in Nat
    OBVIOUS
  <2>3. \A n \in S : m <= n
    BY <2>1, <2>2
  <2>4. QED
    BY <2>3
<1>5. QED
  BY <1>4 DEF Earliest

\* One task's part of all references.
LEMMA Split ==
  ASSUME IsFiniteSet(Tasks), NEW F, \A u \in Tasks : IsFiniteSet(F[u]), NEW t \in Tasks
  PROVE  LET rest == UNION {{u} \X F[u] : u \in Tasks \ {t}} IN
         /\ IsFiniteSet(rest) /\ Cardinality(rest) \in Nat
         /\ Cardinality(F[t]) \in Nat
         /\ Cardinality(Pairs(F)) = Cardinality(rest) + Cardinality(F[t])
<1> DEFINE rest == UNION {{u} \X F[u] : u \in Tasks \ {t}}
           mine == {t} \X F[t]
<1>1. IsFiniteSet(rest)
  <2> DEFINE S == {{u} \X F[u] : u \in Tasks \ {t}}
             f == [u \in Tasks \ {t} |-> {u} \X F[u]]
  <2>1. IsFiniteSet(Tasks \ {t})
    BY FS_RemoveElement
  <2>2. f \in Surjection(Tasks \ {t}, S)
    BY DEF Surjection
  <2>3. IsFiniteSet(S)
    <3> HIDE DEF f, S
    <3> QED
      BY <2>1, <2>2, FS_Surjection
  <2>4. \A x \in S : IsFiniteSet(x)
    <3> SUFFICES ASSUME NEW u \in Tasks \ {t} PROVE IsFiniteSet({u} \X F[u])
      OBVIOUS
    <3>1. IsFiniteSet({u}) /\ IsFiniteSet(F[u])
      BY FS_Singleton
    <3>2. QED
      BY <3>1, FS_Product
  <2>5. QED
    <3> HIDE DEF S
    <3>1. IsFiniteSet(UNION S)
      BY <2>3, <2>4, FS_UNION
    <3>2. QED
      BY <3>1 DEF S
<1>2. IsFiniteSet(mine) /\ Cardinality(mine) = Cardinality(F[t]) /\ Cardinality(F[t]) \in Nat
  <2>1. IsFiniteSet({t}) /\ Cardinality({t}) = 1 /\ IsFiniteSet(F[t])
    BY FS_Singleton
  <2>2. IsFiniteSet(mine) /\ Cardinality(mine) = 1 * Cardinality(F[t])
    BY <2>1, FS_Product
  <2>3. Cardinality(F[t]) \in Nat
    BY <2>1, FS_CardinalityType
  <2>4. QED
    BY <2>2, <2>3
<1>3. Pairs(F) = rest \cup mine
  BY DEF Pairs
<1>4. rest \cap mine = {}
  OBVIOUS
<1>5. Cardinality({}) = 0
  BY FS_EmptySet
<1> HIDE DEF rest, mine
<1>6. Cardinality(rest \cup mine) = Cardinality(rest) + Cardinality(mine) - Cardinality(rest \cap mine)
  BY <1>1, <1>2, FS_Union
<1>7. Cardinality(rest) \in Nat
  BY <1>1, FS_CardinalityType
<1>8. Cardinality(Pairs(F)) = Cardinality(rest) + Cardinality(F[t])
  <2>1. Cardinality(rest \cap mine) = 0
    BY <1>4, <1>5
  <2>2. Cardinality(rest \cup mine) = Cardinality(rest) + Cardinality(F[t])
    BY <1>2, <1>6, <1>7, <2>1
  <2>3. QED
    BY <1>3, <2>2
<1>9. QED
  BY <1>1, <1>2, <1>7, <1>8 DEF rest

\* When the references of one task change, all change by as many.
LEMMA Changed ==
  ASSUME IsFiniteSet(Tasks), NEW F, NEW G, NEW t \in Tasks,
         \A u \in Tasks : IsFiniteSet(F[u]), \A u \in Tasks : IsFiniteSet(G[u]),
         \A u \in Tasks : u # t => G[u] = F[u]
  PROVE  /\ Cardinality(Pairs(F)) \in Nat /\ Cardinality(Pairs(G)) \in Nat
         /\ Cardinality(F[t]) \in Nat /\ Cardinality(G[t]) \in Nat
         /\ Cardinality(F[t]) <= Cardinality(Pairs(F))
         /\ Cardinality(Pairs(G)) = Cardinality(Pairs(F)) + Cardinality(G[t]) - Cardinality(F[t])
<1> DEFINE restF == UNION {{u} \X F[u] : u \in Tasks \ {t}}
           restG == UNION {{u} \X G[u] : u \in Tasks \ {t}}
<1>1. restF = restG
  OBVIOUS
<1>2. /\ Cardinality(restF) \in Nat /\ Cardinality(F[t]) \in Nat
      /\ Cardinality(Pairs(F)) = Cardinality(restF) + Cardinality(F[t])
  BY Split
<1>3. /\ Cardinality(restG) \in Nat /\ Cardinality(G[t]) \in Nat
      /\ Cardinality(Pairs(G)) = Cardinality(restG) + Cardinality(G[t])
  BY Split
<1> HIDE DEF restF, restG
<1>4. QED
  BY <1>1, <1>2, <1>3

LEMMA SomePositions ==
  ASSUME NEW q \in Seq(Message), NEW b
  PROVE  IsFiniteSet(Positions(q, b)) /\ Positions(q, b) \in SUBSET (1..Len(q))
<1>1. Len(q) \in Nat /\ DOMAIN q = 1..Len(q)
  OBVIOUS
<1>2. IsFiniteSet(1..Len(q))
  BY <1>1, FS_Interval
<1>3. Positions(q, b) \in SUBSET (1..Len(q))
  BY <1>1 DEF Positions
<1>4. QED
  BY <1>2, <1>3, FS_Subset

\* A message more, at the end.
LEMMA Appended ==
  ASSUME NEW q \in Seq(Message), NEW m \in Message, NEW b
  PROVE  LET r == Append(q, m) IN
         /\ r \in Seq(Message)
         /\ Cardinality(Positions(r, b)) =
              Cardinality(Positions(q, b)) + (IF m.body = b THEN 1 ELSE 0)
<1> DEFINE r == Append(q, m)
<1>1. /\ Len(q) \in Nat /\ DOMAIN q = 1..Len(q)
      /\ r \in Seq(Message) /\ Len(r) = Len(q) + 1 /\ DOMAIN r = 1..(Len(q) + 1)
      /\ \A j \in 1..Len(q) : r[j] = q[j]
      /\ r[Len(q) + 1] = m
  BY AppendProperties
<1> HIDE DEF r
<1>2. Len(q) + 1 \notin Positions(q, b) /\ IsFiniteSet(Positions(q, b))
  <2>1. \A i \in Positions(q, b) : i \in 1..Len(q)
    BY SomePositions
  <2>2. QED
    BY <1>1, <2>1, SomePositions
<1>3. CASE m.body = b
  <2>1. Positions(r, b) = Positions(q, b) \cup {Len(q) + 1}
    BY <1>1, <1>3 DEF Positions
  <2>2. Cardinality(Positions(r, b)) = Cardinality(Positions(q, b)) + 1
    BY <1>2, <2>1, FS_AddElement
  <2>3. QED
    BY <1>1, <1>3, <2>2 DEF r
<1>4. CASE m.body # b
  <2>1. Positions(r, b) = Positions(q, b)
    BY <1>1, <1>4 DEF Positions
  <2>2. Cardinality(Positions(q, b)) \in Nat
    BY <1>2, FS_CardinalityType
  <2>3. Cardinality(Positions(r, b)) = Cardinality(Positions(q, b)) + 0
    BY <2>1, <2>2
  <2>4. QED
    BY <1>1, <1>4, <2>3 DEF r
<1>5. QED
  BY <1>3, <1>4

LEMMA Removed ==
  ASSUME NEW q \in Seq(Message), NEW i \in 1..Len(q)
  PROVE  LET r == RemoveAt(q, i) IN
         /\ r \in Seq(Message) /\ Len(r) = Len(q) - 1
         /\ \A j \in 1..Len(r) : r[j] = q[IF j < i THEN j ELSE j + 1]
<1> DEFINE a == SubSeq(q, 1, i - 1)
           b == SubSeq(q, i + 1, Len(q))
<1>1. Len(q) \in Nat /\ \A j \in 1..Len(q) : q[j] \in Message
  OBVIOUS
<1>2. /\ a \in Seq(Message) /\ Len(a) = i - 1
      /\ \A j \in 1..(i - 1) : a[j] = q[j]
  <2>1. \A j \in 1..(i - 1) : q[j] \in Message
    BY <1>1
  <2>2. QED
    BY <1>1, <2>1, SubSeqProperties
<1>3. /\ b \in Seq(Message) /\ Len(b) = Len(q) - i
      /\ \A j \in 1..(Len(q) - i) : b[j] = q[i + j]
  <2>1. \A j \in (i + 1)..Len(q) : q[j] \in Message
    BY <1>1
  <2>2. QED
    BY <1>1, <2>1, SubSeqProperties
<1>4. RemoveAt(q, i) = a \o b
  BY DEF RemoveAt
<1> HIDE DEF a, b
<1>5. /\ a \o b \in Seq(Message) /\ Len(a \o b) = Len(a) + Len(b)
      /\ \A j \in 1..(Len(a) + Len(b)) : (a \o b)[j] = IF j <= Len(a) THEN a[j] ELSE b[j - Len(a)]
  BY <1>2, <1>3, ConcatProperties
<1> DEFINE r == a \o b
<1> HIDE DEF r
<1>6. /\ r \in Seq(Message) /\ Len(r) = Len(q) - 1
      /\ \A j \in 1..(Len(q) - 1) : r[j] = IF j <= i - 1 THEN a[j] ELSE b[j - (i - 1)]
  BY <1>1, <1>2, <1>3, <1>5 DEF r
<1>7. ASSUME NEW j \in 1..Len(r) PROVE r[j] = q[IF j < i THEN j ELSE j + 1]
  <2>1. CASE j < i
    BY <1>1, <1>2, <1>6, <2>1
  <2>2. CASE j >= i
    <3>1. j - (i - 1) \in 1..(Len(q) - i) /\ i + (j - (i - 1)) = j + 1 /\ ~(j <= i - 1)
      BY <1>1, <1>6, <2>2
    <3>2. r[j] = b[j - (i - 1)]
      BY <1>1, <1>6, <3>1
    <3>3. b[j - (i - 1)] = q[i + (j - (i - 1))]
      BY <1>3, <3>1
    <3>4. QED
      BY <2>2, <3>1, <3>2, <3>3, <1>1, <1>6
  <2>3. QED
    BY <2>1, <2>2, <1>1, <1>6
<1>8. QED
  BY <1>4, <1>6, <1>7 DEF r

\* A message less, wherever it was.
LEMMA Taken ==
  ASSUME NEW q \in Seq(Message), NEW i \in 1..Len(q), NEW b
  PROVE  LET r == RemoveAt(q, i) IN
         /\ r \in Seq(Message)
         /\ Cardinality(Positions(r, b)) =
              Cardinality(Positions(q, b)) - (IF q[i].body = b THEN 1 ELSE 0)
<1> DEFINE r == RemoveAt(q, i)
           S == Positions(q, b) \ {i}
           f == [j \in S |-> IF j < i THEN j ELSE j - 1]
<1>1. /\ Len(q) \in Nat /\ DOMAIN q = 1..Len(q)
      /\ r \in Seq(Message) /\ Len(r) = Len(q) - 1 /\ DOMAIN r = 1..(Len(q) - 1)
      /\ \A j \in 1..(Len(q) - 1) : r[j] = q[IF j < i THEN j ELSE j + 1]
  <2>1. Len(q) \in Nat /\ DOMAIN q = 1..Len(q)
    OBVIOUS
  <2>2. /\ r \in Seq(Message) /\ Len(r) = Len(q) - 1
        /\ \A j \in 1..Len(r) : r[j] = q[IF j < i THEN j ELSE j + 1]
    BY Removed
  <2> HIDE DEF r
  <2>3. DOMAIN r = 1..Len(r)
    BY <2>2
  <2>4. QED
    BY <2>1, <2>2, <2>3
<1> HIDE DEF r
<1>2. IsFiniteSet(Positions(q, b)) /\ \A j \in Positions(q, b) : j \in 1..Len(q)
  BY SomePositions
<1>3. f \in [S -> Positions(r, b)]
  <2> SUFFICES ASSUME NEW j \in S PROVE (IF j < i THEN j ELSE j - 1) \in Positions(r, b)
    OBVIOUS
  <2>1. j \in 1..Len(q) /\ j # i /\ q[j].body = b
    BY <1>2 DEF Positions
  <2>2. CASE j < i
    <3>1. j \in 1..(Len(q) - 1) /\ r[j] = q[j]
      BY <1>1, <2>1, <2>2
    <3>2. QED
      BY <1>1, <2>1, <2>2, <3>1 DEF Positions
  <2>3. CASE ~(j < i)
    <3>1. j - 1 \in 1..(Len(q) - 1) /\ ~(j - 1 < i) /\ (j - 1) + 1 = j
      BY <1>1, <2>1, <2>3
    <3>2. r[j - 1] = q[j]
      BY <1>1, <3>1
    <3>3. QED
      BY <1>1, <2>1, <2>3, <3>1, <3>2 DEF Positions
  <2>4. QED
    BY <2>2, <2>3
<1>4. \A j, k \in S : f[j] = f[k] => j = k
  <2> SUFFICES ASSUME NEW j \in S, NEW k \in S, f[j] = f[k] PROVE j = k
    OBVIOUS
  <2>1. j \in 1..Len(q) /\ k \in 1..Len(q) /\ j # i /\ k # i
    BY <1>2
  <2>2. (IF j < i THEN j ELSE j - 1) = (IF k < i THEN k ELSE k - 1)
    OBVIOUS
  <2>3. QED
    BY <1>1, <2>1, <2>2
<1>5. \A k \in Positions(r, b) : \E j \in S : f[j] = k
  <2> SUFFICES ASSUME NEW k \in Positions(r, b) PROVE \E j \in S : f[j] = k
    OBVIOUS
  <2>1. k \in 1..(Len(q) - 1) /\ r[k].body = b
    BY <1>1 DEF Positions
  <2>2. CASE k < i
    <3>1. k \in S
      BY <1>1, <2>1, <2>2 DEF Positions
    <3>2. f[k] = k
      BY <2>2, <3>1
    <3>3. QED
      BY <3>1, <3>2
  <2>3. CASE ~(k < i)
    <3>1. k + 1 \in S /\ ~(k + 1 < i) /\ (k + 1) - 1 = k
      BY <1>1, <2>1, <2>3 DEF Positions
    <3>2. f[k + 1] = k
      BY <3>1
    <3>3. QED
      BY <3>1, <3>2
  <2>4. QED
    BY <2>2, <2>3
<1>6. IsFiniteSet(S) /\ Cardinality(S) = Cardinality(Positions(q, b)) - (IF q[i].body = b THEN 1 ELSE 0)
  <2>1. i \in Positions(q, b) <=> q[i].body = b
    BY <1>1 DEF Positions
  <2>2. Cardinality(Positions(q, b)) \in Nat
    BY <1>2, FS_CardinalityType
  <2>3. QED
    BY <1>2, <2>1, <2>2, FS_RemoveElement
<1> HIDE DEF f, S
<1>7. f \in Bijection(S, Positions(r, b))
  BY <1>3, <1>4, <1>5, Fun_IsBij
<1>8. Cardinality(Positions(r, b)) = Cardinality(S)
  BY <1>6, <1>7, FS_Bijection DEF ExistsBijection
<1>9. QED
  BY <1>1, <1>6, <1>8 DEF r

\* Slots of a table, one of which changes.
LEMMA SlotSets ==
  ASSUME MsgQueueAssumption, NEW p, NEW b
  PROVE  IsFiniteSet(Slots(p, b)) /\ Slots(p, b) \in SUBSET Ids
<1>1. IsFiniteSet(Ids)
  BY FS_Interval DEF Ids, MsgQueueAssumption
<1>2. Slots(p, b) \in SUBSET Ids
  BY DEF Slots
<1>3. QED
  BY <1>1, <1>2, FS_Subset

LEMMA SlotTaken ==
  ASSUME MsgQueueAssumption, NEW p, p = [i \in Ids |-> p[i]], NEW id \in Ids, ~IsMessage(p[id]),
         NEW m, IsMessage(m), NEW b
  PROVE  Cardinality(Slots([p EXCEPT ![id] = m], b)) =
           Cardinality(Slots(p, b)) + (IF m.body = b THEN 1 ELSE 0)
<1> DEFINE r == [p EXCEPT ![id] = m]
<1>1. r = [i \in Ids |-> IF i = id THEN m ELSE p[i]]
  OBVIOUS
<1> HIDE DEF r
<1>2. r[id] = m /\ \A i \in Ids : i # id => r[i] = p[i]
  BY <1>1
<1>3. IsFiniteSet(Slots(p, b)) /\ id \notin Slots(p, b)
  <2>1. id \notin Slots(p, b)
    BY DEF Slots
  <2>2. QED
    BY <2>1, SlotSets
<1>4. Cardinality(Slots(p, b)) \in Nat
  BY <1>3, FS_CardinalityType
<1>5. Slots(r, b) = Slots(p, b) \cup (IF m.body = b THEN {id} ELSE {})
  BY <1>2 DEF Slots
<1>6. CASE m.body = b
  <2>1. Slots(r, b) = Slots(p, b) \cup {id}
    BY <1>5, <1>6
  <2>2. Cardinality(Slots(r, b)) = Cardinality(Slots(p, b)) + 1
    BY <1>3, <2>1, FS_AddElement
  <2>3. QED
    BY <1>6, <2>2 DEF r
<1>7. CASE m.body # b
  <2>1. Slots(r, b) = Slots(p, b)
    BY <1>5, <1>7
  <2>2. Cardinality(Slots(r, b)) = Cardinality(Slots(p, b)) + 0
    BY <1>4, <2>1
  <2>3. QED
    BY <1>7, <2>2 DEF r
<1>8. QED
  BY <1>6, <1>7

LEMMA SlotFreed ==
  ASSUME MsgQueueAssumption, NEW p, p = [i \in Ids |-> p[i]], NEW id \in Ids, IsMessage(p[id]),
         NEW m, ~IsMessage(m), NEW b
  PROVE  Cardinality(Slots([p EXCEPT ![id] = m], b)) =
           Cardinality(Slots(p, b)) - (IF p[id].body = b THEN 1 ELSE 0)
<1> DEFINE r == [p EXCEPT ![id] = m]
<1>1. r = [i \in Ids |-> IF i = id THEN m ELSE p[i]]
  OBVIOUS
<1> HIDE DEF r
<1>2. r[id] = m /\ \A i \in Ids : i # id => r[i] = p[i]
  BY <1>1
<1>3. IsFiniteSet(Slots(p, b)) /\ (id \in Slots(p, b) <=> p[id].body = b)
  <2>1. id \in Slots(p, b) <=> p[id].body = b
    BY DEF Slots
  <2>2. QED
    BY <2>1, SlotSets
<1>4. Cardinality(Slots(p, b)) \in Nat
  BY <1>3, FS_CardinalityType
<1>5. Slots(r, b) = Slots(p, b) \ {id}
  BY <1>2 DEF Slots
<1>6. Cardinality(Slots(r, b)) = IF id \in Slots(p, b) THEN Cardinality(Slots(p, b)) - 1
                                 ELSE Cardinality(Slots(p, b))
  BY <1>3, <1>5, FS_RemoveElement
<1>7. Cardinality(Slots(r, b)) = Cardinality(Slots(p, b)) - (IF p[id].body = b THEN 1 ELSE 0)
  BY <1>3, <1>4, <1>6
<1>8. QED
  BY <1>7 DEF r

\* How the references to a body change with the queue or the table of a task.
LEMMA QueueChange ==
  ASSUME IsFiniteSet(Tasks), NEW I \in [Tasks -> Seq(Message)], NEW J \in [Tasks -> Seq(Message)],
         NEW t \in Tasks, \A u \in Tasks : u # t => J[u] = I[u], NEW b
  PROVE  /\ QueueCount(I, b) \in Nat /\ QueueCount(J, b) \in Nat
         /\ Cardinality(Positions(I[t], b)) \in Nat /\ Cardinality(Positions(J[t], b)) \in Nat
         /\ Cardinality(Positions(I[t], b)) <= QueueCount(I, b)
         /\ QueueCount(J, b) = QueueCount(I, b) + Cardinality(Positions(J[t], b))
                                 - Cardinality(Positions(I[t], b))
<1> DEFINE F == [u \in Tasks |-> Positions(I[u], b)]
           G == [u \in Tasks |-> Positions(J[u], b)]
<1>1. \A u \in Tasks : IsFiniteSet(F[u]) /\ IsFiniteSet(G[u])
  BY SomePositions
<1>2. \A u \in Tasks : u # t => G[u] = F[u]
  OBVIOUS
<1>3. F[t] = Positions(I[t], b) /\ G[t] = Positions(J[t], b)
  OBVIOUS
<1>4. QueueCount(I, b) = Cardinality(Pairs(F)) /\ QueueCount(J, b) = Cardinality(Pairs(G))
  BY DEF QueueCount
<1> HIDE DEF F, G
<1>5. /\ Cardinality(Pairs(F)) \in Nat /\ Cardinality(Pairs(G)) \in Nat
      /\ Cardinality(F[t]) \in Nat /\ Cardinality(G[t]) \in Nat
      /\ Cardinality(F[t]) <= Cardinality(Pairs(F))
      /\ Cardinality(Pairs(G)) = Cardinality(Pairs(F)) + Cardinality(G[t]) - Cardinality(F[t])
  BY <1>1, <1>2, Changed
<1>6. QED
  BY <1>3, <1>4, <1>5

LEMMA TableChange ==
  ASSUME IsFiniteSet(Tasks), MsgQueueAssumption, NEW P, NEW R,
         NEW t \in Tasks, \A u \in Tasks : u # t => R[u] = P[u], NEW b
  PROVE  /\ TableCount(P, b) \in Nat /\ TableCount(R, b) \in Nat
         /\ Cardinality(Slots(P[t], b)) \in Nat /\ Cardinality(Slots(R[t], b)) \in Nat
         /\ Cardinality(Slots(P[t], b)) <= TableCount(P, b)
         /\ TableCount(R, b) = TableCount(P, b) + Cardinality(Slots(R[t], b))
                                 - Cardinality(Slots(P[t], b))
<1> DEFINE F == [u \in Tasks |-> Slots(P[u], b)]
           G == [u \in Tasks |-> Slots(R[u], b)]
<1>1. \A u \in Tasks : IsFiniteSet(F[u]) /\ IsFiniteSet(G[u])
  BY SlotSets
<1>2. \A u \in Tasks : u # t => G[u] = F[u]
  OBVIOUS
<1>3. F[t] = Slots(P[t], b) /\ G[t] = Slots(R[t], b)
  OBVIOUS
<1>4. TableCount(P, b) = Cardinality(Pairs(F)) /\ TableCount(R, b) = Cardinality(Pairs(G))
  BY DEF TableCount
<1> HIDE DEF F, G
<1>5. /\ Cardinality(Pairs(F)) \in Nat /\ Cardinality(Pairs(G)) \in Nat
      /\ Cardinality(F[t]) \in Nat /\ Cardinality(G[t]) \in Nat
      /\ Cardinality(F[t]) <= Cardinality(Pairs(F))
      /\ Cardinality(Pairs(G)) = Cardinality(Pairs(F)) + Cardinality(G[t]) - Cardinality(F[t])
  BY <1>1, <1>2, Changed
<1>6. QED
  BY <1>3, <1>4, <1>5

\* Two tables, or two families of queues, differ for task t alone; and what
\* that means for the references to b.
OnlyAt(t, P, R) == \A u \in Tasks : u # t => R[u] = P[u]
QueueMoves(I, J, t, b) ==
  /\ QueueCount(I, b) \in Nat /\ QueueCount(J, b) \in Nat
  /\ Cardinality(Positions(I[t], b)) \in Nat /\ Cardinality(Positions(J[t], b)) \in Nat
  /\ Cardinality(Positions(I[t], b)) <= QueueCount(I, b)
  /\ QueueCount(J, b) = QueueCount(I, b) + Cardinality(Positions(J[t], b))
                          - Cardinality(Positions(I[t], b))
TableMoves(P, R, t, b) ==
  /\ TableCount(P, b) \in Nat /\ TableCount(R, b) \in Nat
  /\ Cardinality(Slots(P[t], b)) \in Nat /\ Cardinality(Slots(R[t], b)) \in Nat
  /\ Cardinality(Slots(P[t], b)) <= TableCount(P, b)
  /\ TableCount(R, b) = TableCount(P, b) + Cardinality(Slots(R[t], b))
                          - Cardinality(Slots(P[t], b))

LEMMA QueueMoved ==
  ASSUME IsFiniteSet(Tasks), NEW I \in [Tasks -> Seq(Message)], NEW J \in [Tasks -> Seq(Message)],
         NEW t \in Tasks, OnlyAt(t, I, J), NEW b
  PROVE  QueueMoves(I, J, t, b)
BY QueueChange DEF OnlyAt, QueueMoves

LEMMA TableMoved ==
  ASSUME IsFiniteSet(Tasks), MsgQueueAssumption, NEW P, NEW R,
         NEW t \in Tasks, OnlyAt(t, P, R), NEW b
  PROVE  TableMoves(P, R, t, b)
BY TableChange DEF OnlyAt, TableMoves

-----------------------------------------------------------------------------
(* The free list.                                                           *)

LEMMA FreeSet ==
  ASSUME MsgQueueAssumption, NEW p
  PROVE  IsFiniteSet(FreeOf(p)) /\ Cardinality(FreeOf(p)) \in Nat /\ NoId \notin FreeOf(p)
<1>1. IsFiniteSet(Ids)
  BY FS_Interval DEF Ids, MsgQueueAssumption
<1>2. FreeOf(p) \in SUBSET Ids
  BY DEF FreeOf
<1>3. IsFiniteSet(FreeOf(p))
  BY <1>1, <1>2, FS_Subset
<1>4. NoId \notin FreeOf(p)
  BY <1>2 DEF NoId, Ids, MsgQueueAssumption
<1>5. QED
  BY <1>3, <1>4, FS_CardinalityType

\* The two forms say the same.
LEMMA ListForm ==
  ASSUME MsgQueueAssumption, NEW p, NEW first, OneList(p, first)
  PROVE  \E list \in SetToSeqs(FreeOf(p)) :
           LET ends == Append(list, NoId) IN
             /\ first = ends[1]
             /\ \A i \in DOMAIN list : p[list[i]].next = ends[i + 1]
<1>1. PICK n \in Nat : \E f \in [1..n -> FreeOf(p)] : IsList(f, n, p, first)
  BY DEF OneList
<1>2. PICK f \in [1..n -> FreeOf(p)] : IsList(f, n, p, first)
  BY <1>1
<1>3. f \in SetToSeqs(FreeOf(p))
  BY <1>2 DEF IsList, SetToSeqs
<1> DEFINE S == FreeOf(p) \cup {NoId}
<1>4. f \in Seq(S) /\ Len(f) = n /\ DOMAIN f = 1..n
  OBVIOUS
<1>5. /\ Append(f, NoId)[n + 1] = NoId
      /\ \A i \in 1..n : Append(f, NoId)[i] = f[i]
  <2>1. NoId \in S
    OBVIOUS
  <2> HIDE DEF S
  <2>2. QED
    BY <1>4, <2>1, AppendProperties
<1>6. first = Append(f, NoId)[1]
  <2>1. CASE n = 0
    BY <1>2, <1>5, <2>1 DEF IsList
  <2>2. CASE n # 0
    BY <1>2, <1>5, <2>2 DEF IsList
  <2>3. QED
    BY <2>1, <2>2
<1>7. ASSUME NEW i \in 1..n PROVE p[f[i]].next = Append(f, NoId)[i + 1]
  <2>1. CASE i = n
    BY <1>2, <1>5, <2>1 DEF IsList
  <2>2. CASE i # n
    <3>1. i + 1 \in 1..n
      BY <2>2
    <3>2. QED
      BY <1>2, <1>5, <2>2, <3>1 DEF IsList
  <2>3. QED
    BY <2>1, <2>2
<1>8. QED
  BY <1>3, <1>4, <1>6, <1>7

\* __msgq_alloc_id: the slot taken was free.
LEMMA ListTaken ==
  ASSUME MsgQueueAssumption, NEW p, p = [i \in Ids |-> p[i]], NEW first, OneList(p, first),
         first # NoId, NEW m, IsMessage(m)
  PROVE  /\ first \in Ids /\ ~IsMessage(p[first])
         /\ OneList([p EXCEPT ![first] = m], p[first].next)
<1>1. PICK n \in Nat : \E f \in [1..n -> FreeOf(p)] : IsList(f, n, p, first)
  BY DEF OneList
<1>2. PICK f \in [1..n -> FreeOf(p)] : IsList(f, n, p, first)
  BY <1>1
<1>3. n # 0 /\ first = f[1] /\ 1 \in 1..n /\ first \in FreeOf(p)
  BY <1>2 DEF IsList
<1>4. first \in Ids /\ ~IsMessage(p[first])
  BY <1>3 DEF FreeOf
<1> DEFINE r == [p EXCEPT ![first] = m]
           g == [i \in 1..(n - 1) |-> f[i + 1]]
<1>5. r[first] = m /\ \A i \in Ids : i # first => r[i] = p[i]
  BY <1>4
<1> HIDE DEF r
<1>6. FreeOf(r) = FreeOf(p) \ {first}
  BY <1>5 DEF FreeOf
<1>7. Cardinality(FreeOf(r)) = n - 1
  <2>1. IsFiniteSet(FreeOf(p)) /\ n = Cardinality(FreeOf(p))
    BY <1>2, FreeSet DEF IsList
  <2>2. QED
    BY <1>3, <1>6, <2>1, FS_RemoveElement
<1>8. \A i \in 1..(n - 1) : i + 1 \in 1..n /\ f[i + 1] # f[1] /\ f[i + 1] \in FreeOf(r)
  <2> SUFFICES ASSUME NEW i \in 1..(n - 1)
               PROVE  i + 1 \in 1..n /\ f[i + 1] # f[1] /\ f[i + 1] \in FreeOf(r)
    OBVIOUS
  <2>1. i + 1 \in 1..n /\ i + 1 # 1
    OBVIOUS
  <2>2. f[i + 1] # f[1]
    BY <1>2, <1>3, <2>1 DEF IsList
  <2>3. f[i + 1] \in FreeOf(p)
    BY <2>1
  <2>4. QED
    BY <1>3, <1>6, <2>1, <2>2, <2>3
<1>9. IsList(g, n - 1, r, p[first].next)
  <2>1. g \in [1..(n - 1) -> FreeOf(r)]
    BY <1>8
  <2>2. \A i, j \in 1..(n - 1) : i # j => g[i] # g[j]
    <3> SUFFICES ASSUME NEW i \in 1..(n - 1), NEW j \in 1..(n - 1), i # j PROVE f[i + 1] # f[j + 1]
      OBVIOUS
    <3>1. i + 1 \in 1..n /\ j + 1 \in 1..n /\ i + 1 # j + 1
      OBVIOUS
    <3>2. QED
      BY <1>2, <3>1 DEF IsList
  <2>3. p[first].next = IF n - 1 = 0 THEN NoId ELSE g[1]
    <3>1. p[first].next = IF 1 = n THEN NoId ELSE f[1 + 1]
      BY <1>2, <1>3 DEF IsList
    <3>2. n # 1 => g[1] = f[1 + 1]
      BY <1>3
    <3>3. QED
      BY <1>3, <3>1, <3>2
  <2>4. ASSUME NEW i \in 1..(n - 1) PROVE r[g[i]].next = IF i = n - 1 THEN NoId ELSE g[i + 1]
    <3>1. g[i] = f[i + 1] /\ i + 1 \in 1..n
      BY <1>8
    <3>2. r[g[i]] = p[f[i + 1]]
      BY <1>3, <1>5, <1>8, <3>1 DEF FreeOf
    <3>3. p[f[i + 1]].next = IF i + 1 = n THEN NoId ELSE f[(i + 1) + 1]
      BY <1>2, <3>1 DEF IsList
    <3>4. i # n - 1 => g[i + 1] = f[(i + 1) + 1]
      OBVIOUS
    <3>5. (i + 1 = n) <=> (i = n - 1)
      OBVIOUS
    <3>6. QED
      BY <3>2, <3>3, <3>4, <3>5
  <2> HIDE DEF g
  <2>5. QED
    BY <1>7, <2>1, <2>2, <2>3, <2>4 DEF IsList
<1>10. n - 1 \in Nat /\ g \in [1..(n - 1) -> FreeOf(r)]
  BY <1>3, <1>8
<1> HIDE DEF g
<1>11. OneList(r, p[first].next)
  BY <1>9, <1>10 DEF OneList
<1>12. QED
  BY <1>4, <1>11 DEF r

\* __msgq_release_id: the slot becomes the first.
LEMMA ListGiven ==
  ASSUME MsgQueueAssumption, NEW p, p = [i \in Ids |-> p[i]], NEW first, OneList(p, first),
         NEW id \in Ids, IsMessage(p[id]), NEW m, ~IsMessage(m), m.next = first
  PROVE  OneList([p EXCEPT ![id] = m], id)
<1>1. PICK n \in Nat : \E f \in [1..n -> FreeOf(p)] : IsList(f, n, p, first)
  BY DEF OneList
<1>2. PICK f \in [1..n -> FreeOf(p)] : IsList(f, n, p, first)
  BY <1>1
<1> DEFINE r == [p EXCEPT ![id] = m]
           g == [i \in 1..(n + 1) |-> IF i = 1 THEN id ELSE f[i - 1]]
<1>3. r[id] = m /\ \A i \in Ids : i # id => r[i] = p[i]
  OBVIOUS
<1> HIDE DEF r
<1>4. FreeOf(r) = FreeOf(p) \cup {id} /\ id \notin FreeOf(p)
  BY <1>3 DEF FreeOf
<1>5. Cardinality(FreeOf(r)) = n + 1
  <2>1. IsFiniteSet(FreeOf(p)) /\ n = Cardinality(FreeOf(p))
    BY <1>2, FreeSet DEF IsList
  <2>2. QED
    BY <1>4, <2>1, FS_AddElement
<1>6. \A i \in 1..(n + 1) : i # 1 => i - 1 \in 1..n /\ f[i - 1] \in FreeOf(p) /\ f[i - 1] # id
  BY <1>4
<1>7. IsList(g, n + 1, r, id)
  <2>1. g \in [1..(n + 1) -> FreeOf(r)]
    BY <1>4, <1>6
  <2>2. \A i, j \in 1..(n + 1) : i # j => g[i] # g[j]
    <3> SUFFICES ASSUME NEW i \in 1..(n + 1), NEW j \in 1..(n + 1), i # j PROVE g[i] # g[j]
      OBVIOUS
    <3>1. CASE i = 1
      BY <1>6, <3>1
    <3>2. CASE j = 1
      BY <1>6, <3>2
    <3>3. CASE i # 1 /\ j # 1
      <4>1. i - 1 \in 1..n /\ j - 1 \in 1..n /\ i - 1 # j - 1
        BY <3>3
      <4>2. f[i - 1] # f[j - 1]
        BY <1>2, <4>1 DEF IsList
      <4>3. QED
        BY <3>3, <4>2
    <3>4. QED
      BY <3>1, <3>2, <3>3
  <2>3. id = IF n + 1 = 0 THEN NoId ELSE g[1]
    OBVIOUS
  <2>4. ASSUME NEW i \in 1..(n + 1) PROVE r[g[i]].next = IF i = n + 1 THEN NoId ELSE g[i + 1]
    <3>1. CASE i = 1
      <4>1. r[g[i]].next = first
        BY <1>3, <3>1
      <4>2. first = IF n = 0 THEN NoId ELSE f[1]
        BY <1>2 DEF IsList
      <4>3. n # 0 => g[i + 1] = f[1]
        BY <3>1
      <4>4. QED
        BY <3>1, <4>1, <4>2, <4>3
    <3>2. CASE i # 1
      <4>1. i - 1 \in 1..n /\ g[i] = f[i - 1] /\ r[f[i - 1]] = p[f[i - 1]]
        BY <1>3, <1>6, <3>2 DEF FreeOf
      <4>2. p[f[i - 1]].next = IF i - 1 = n THEN NoId ELSE f[(i - 1) + 1]
        BY <1>2, <4>1 DEF IsList
      <4>3. i # n + 1 => g[i + 1] = f[(i - 1) + 1]
        BY <3>2
      <4>4. (i - 1 = n) <=> (i = n + 1)
        BY <3>2
      <4>5. QED
        BY <4>1, <4>2, <4>3, <4>4
    <3>3. QED
      BY <3>1, <3>2
  <2> HIDE DEF g
  <2>5. QED
    BY <1>5, <2>1, <2>2, <2>3, <2>4 DEF IsList
<1>8. n + 1 \in Nat /\ g \in [1..(n + 1) -> FreeOf(r)]
  BY <1>4, <1>6
<1> HIDE DEF g
<1>9. OneList(r, id)
  BY <1>7, <1>8 DEF OneList
<1>10. QED
  BY <1>9 DEF r

\* Where a message is mapped makes no difference.
LEMMA ListSame ==
  ASSUME MsgQueueAssumption, NEW p, NEW r, NEW first, OneList(p, first), FreeOf(r) = FreeOf(p),
         \A i \in FreeOf(p) : r[i] = p[i]
  PROVE  OneList(r, first)
<1>1. PICK n \in Nat : \E f \in [1..n -> FreeOf(p)] : IsList(f, n, p, first)
  BY DEF OneList
<1>2. PICK f \in [1..n -> FreeOf(p)] : IsList(f, n, p, first)
  BY <1>1
<1>3. \A i \in 1..n : r[f[i]] = p[f[i]]
  OBVIOUS
<1>4. IsList(f, n, r, first)
  BY <1>2, <1>3 DEF IsList
<1>5. QED
  BY <1>4 DEF OneList

\* msgq_new
LEMMA ListNew ==
  ASSUME MsgQueueAssumption
  PROVE  /\ OneList(EmptyTable, 0)
         /\ EmptyTable = [i \in Ids |-> EmptyTable[i]]
         /\ \A i \in Ids : Free(EmptyTable[i])
         /\ \A b : Cardinality(Slots(EmptyTable, b)) = 0
<1>1. /\ EmptyTable = [i \in Ids |-> EmptyTable[i]]
      /\ \A i \in Ids : EmptyTable[i].next = IF i = PendingCount - 1 THEN NoId ELSE i + 1
      /\ \A i \in Ids : Free(EmptyTable[i])
  BY DEF EmptyTable, Free, Ids, MsgQueueAssumption
<1>2. \A i \in Ids : ~IsMessage(EmptyTable[i])
  BY <1>1, SlotKinds
<1>3. FreeOf(EmptyTable) = Ids
  BY <1>2 DEF FreeOf
<1>4. Cardinality(Ids) = PendingCount /\ PendingCount \in Nat /\ PendingCount > 0
  BY FS_Interval DEF Ids, MsgQueueAssumption
<1> DEFINE f == [i \in 1..PendingCount |-> i - 1]
<1>5. f \in [1..PendingCount -> FreeOf(EmptyTable)]
  BY <1>3, <1>4 DEF Ids
<1>6. ASSUME NEW i \in 1..PendingCount
      PROVE  EmptyTable[f[i]].next = IF i = PendingCount THEN NoId ELSE f[i + 1]
  <2>1. f[i] = i - 1 /\ i - 1 \in Ids
    BY <1>4 DEF Ids
  <2>2. EmptyTable[i - 1].next = IF i - 1 = PendingCount - 1 THEN NoId ELSE (i - 1) + 1
    BY <1>1, <2>1
  <2>3. i # PendingCount => f[i + 1] = (i - 1) + 1
    BY <1>4
  <2>4. (i - 1 = PendingCount - 1) <=> (i = PendingCount)
    BY <1>4
  <2>5. QED
    BY <2>1, <2>2, <2>3, <2>4
<1>7. \A i, j \in 1..PendingCount : i # j => f[i] # f[j]
  BY <1>4
<1>8. 0 = IF PendingCount = 0 THEN NoId ELSE f[1]
  BY <1>4
<1> HIDE DEF f
<1>9. IsList(f, PendingCount, EmptyTable, 0)
  BY <1>3, <1>4, <1>5, <1>6, <1>7, <1>8 DEF IsList
<1>10. OneList(EmptyTable, 0)
  BY <1>4, <1>5, <1>9 DEF OneList
<1>11. ASSUME NEW b PROVE Cardinality(Slots(EmptyTable, b)) = 0
  <2>1. Slots(EmptyTable, b) = {}
    BY <1>2 DEF Slots
  <2>2. QED
    BY <2>1, FS_EmptySet
<1>12. QED
  BY <1>1, <1>10, <1>11

-----------------------------------------------------------------------------
(* What the parts of the system calls do to the invariant.                  *)

\* A slot is taken for a message.
LEMMA Put ==
  ASSUME MsgQueueAssumption, IsFiniteSet(Tasks), TablesOK, FreeInv, NEW t \in Tasks,
         NEW m, Kept(m), PutMsg(t, m)
  PROVE  /\ TablesOK' /\ FreeInv'
         /\ \A b : /\ TableCount(pending, b) \in Nat
                  /\ TableCount(pending', b) = TableCount(pending, b) + One(m.body, b)
<1> DEFINE p == pending[t]
           k == last_free[t]
           r == [p EXCEPT ![k] = m]
<1>1. IsMessage(m) /\ p = [i \in Ids |-> p[i]] /\ OneList(p, k) /\ k # NoId
  BY SlotKinds DEF TablesOK, FreeInv, PutMsg
<1>2. k \in Ids /\ ~IsMessage(p[k]) /\ OneList(r, p[k].next)
  <2> HIDE DEF p, k, r
  <2>1. k \in Ids /\ ~IsMessage(p[k]) /\ OneList([p EXCEPT ![k] = m], p[k].next)
    BY <1>1, ListTaken
  <2>2. QED
    BY <2>1 DEF r
<1>3. /\ r = [i \in Ids |-> r[i]] /\ r[k] = m
      /\ \A i \in Ids : i # k => r[i] = p[i]
  BY <1>1, <1>2
<1>4. pending'[t] = r /\ \A u \in Tasks : u # t => pending'[u] = pending[u]
  BY DEF TablesOK, PutMsg
<1>5. pending' = [u \in Tasks |-> pending'[u]]
  BY DEF TablesOK, PutMsg
<1>6. Free(p[k])
  BY <1>2, SlotKinds DEF TablesOK
<1>7. /\ last_free' \in [Tasks -> Ids \cup {NoId}] /\ last_free'[t] = p[k].next
      /\ \A u \in Tasks : u # t => last_free'[u] = last_free[u]
  BY <1>6 DEF TablesOK, PutMsg, Free
<1> HIDE DEF p, k, r
<1>8. TablesOK'
  <2>1. ASSUME NEW u \in Tasks
        PROVE  /\ pending'[u] = [i \in Ids |-> pending'[u][i]]
               /\ \A i \in Ids : Kept(pending'[u][i]) \/ Free(pending'[u][i])
    <3>1. CASE u = t
      <4>1. \A i \in Ids : Kept(p[i]) \/ Free(p[i])
        BY DEF TablesOK, p
      <4>2. QED
        BY <1>3, <1>4, <3>1, <4>1
    <3>2. CASE u # t
      BY <1>4, <3>2 DEF TablesOK
    <3>3. QED
      BY <3>1, <3>2
  <2>2. QED
    BY <1>5, <1>7, <2>1 DEF TablesOK
<1>9. FreeInv'
  <2> SUFFICES ASSUME NEW u \in Tasks PROVE OneList(pending'[u], last_free'[u])
    BY DEF FreeInv
  <2>1. CASE u = t
    BY <1>2, <1>4, <1>7, <2>1
  <2>2. CASE u # t
    BY <1>4, <1>7, <2>2 DEF FreeInv
  <2>3. QED
    BY <2>1, <2>2
<1>10. ASSUME NEW b
       PROVE  /\ TableCount(pending, b) \in Nat
              /\ TableCount(pending', b) = TableCount(pending, b) + One(m.body, b)
  <2>1. /\ TableCount(pending, b) \in Nat /\ Cardinality(Slots(p, b)) \in Nat
        /\ TableCount(pending', b) = TableCount(pending, b) + Cardinality(Slots(pending'[t], b))
                                       - Cardinality(Slots(p, b))
    <3>1. \A u \in Tasks : u # t => pending'[u] = pending[u]
      BY <1>4
    <3>2. /\ TableCount(pending, b) \in Nat /\ Cardinality(Slots(pending[t], b)) \in Nat
          /\ TableCount(pending', b) = TableCount(pending, b) + Cardinality(Slots(pending'[t], b))
                                         - Cardinality(Slots(pending[t], b))
      <4>1. OnlyAt(t, pending, pending')
        BY <3>1 DEF OnlyAt
      <4>2. IsFiniteSet(Tasks) /\ MsgQueueAssumption
        BY DEF MsgQueueAssumption
      <4>3. TableMoves(pending, pending', t, b)
        BY <4>1, <4>2, TableMoved
      <4>4. QED
        BY <4>3 DEF TableMoves
    <3>3. QED
      BY <3>2 DEF p
  <2>2. Cardinality(Slots(r, b)) = Cardinality(Slots(p, b)) + (IF m.body = b THEN 1 ELSE 0)
    <3>1. Cardinality(Slots([p EXCEPT ![k] = m], b))
            = Cardinality(Slots(p, b)) + (IF m.body = b THEN 1 ELSE 0)
      BY <1>1, <1>2, SlotTaken
    <3>2. QED
      BY <3>1 DEF r
  <2>3. QED
    BY <1>4, <2>1, <2>2 DEF One
<1>11. QED
  BY <1>8, <1>9, <1>10

\* A message leaves its slot.
LEMMA Give ==
  ASSUME MsgQueueAssumption, IsFiniteSet(Tasks), TablesOK, FreeInv, NEW t \in Tasks,
         NEW id \in Ids, Has(t, id), ReleaseId(t, id)
  PROVE  /\ TablesOK' /\ FreeInv' /\ pending[t][id].body \in Bodies
         /\ \A b : /\ TableCount(pending, b) \in Nat
                  /\ TableCount(pending, b) >= One(pending[t][id].body, b)
                  /\ TableCount(pending', b) = TableCount(pending, b) - One(pending[t][id].body, b)
<1> DEFINE p == pending[t]
           m == [next |-> last_free[t]]
           r == [p EXCEPT ![id] = m]
<1>1. IsMessage(p[id]) /\ p = [i \in Ids |-> p[i]] /\ OneList(p, last_free[t])
  BY DEF TablesOK, FreeInv, Has
<1>2. Free(m) /\ ~IsMessage(m) /\ m.next = last_free[t]
  <2>1. Free(m) /\ m.next = last_free[t]
    BY DEF TablesOK, Free
  <2>2. QED
    BY <2>1, SlotKinds
<1>3. p[id].body \in Bodies
  BY <1>1, SlotKinds DEF TablesOK, Kept
<1>4. /\ r = [i \in Ids |-> r[i]] /\ r[id] = m
      /\ \A i \in Ids : i # id => r[i] = p[i]
  BY <1>1
<1>5. pending'[t] = r /\ \A u \in Tasks : u # t => pending'[u] = pending[u]
  BY DEF TablesOK, ReleaseId
<1>6. pending' = [u \in Tasks |-> pending'[u]]
  BY DEF TablesOK, ReleaseId
<1>7. /\ last_free' \in [Tasks -> Ids \cup {NoId}] /\ last_free'[t] = id
      /\ \A u \in Tasks : u # t => last_free'[u] = last_free[u]
  BY DEF TablesOK, ReleaseId
<1> HIDE DEF p, r, m
<1>8. TablesOK'
  <2>1. ASSUME NEW u \in Tasks
        PROVE  /\ pending'[u] = [i \in Ids |-> pending'[u][i]]
               /\ \A i \in Ids : Kept(pending'[u][i]) \/ Free(pending'[u][i])
    <3>1. CASE u = t
      <4>1. \A i \in Ids : Kept(p[i]) \/ Free(p[i])
        BY DEF TablesOK, p
      <4>2. QED
        BY <1>2, <1>4, <1>5, <3>1, <4>1
    <3>2. CASE u # t
      BY <1>5, <3>2 DEF TablesOK
    <3>3. QED
      BY <3>1, <3>2
  <2>2. QED
    BY <1>6, <1>7, <2>1 DEF TablesOK
<1>9. FreeInv'
  <2> SUFFICES ASSUME NEW u \in Tasks PROVE OneList(pending'[u], last_free'[u])
    BY DEF FreeInv
  <2>1. OneList(r, id)
    <3>1. OneList([p EXCEPT ![id] = m], id)
      BY <1>1, <1>2, ListGiven
    <3>2. QED
      BY <3>1 DEF r
  <2>2. CASE u = t
    BY <1>5, <1>7, <2>1, <2>2
  <2>3. CASE u # t
    BY <1>5, <1>7, <2>3 DEF FreeInv
  <2>4. QED
    BY <2>2, <2>3
<1>10. ASSUME NEW b
       PROVE  /\ TableCount(pending, b) \in Nat
              /\ TableCount(pending, b) >= One(p[id].body, b)
              /\ TableCount(pending', b) = TableCount(pending, b) - One(p[id].body, b)
  <2>1. /\ TableCount(pending, b) \in Nat /\ TableCount(pending', b) \in Nat
        /\ Cardinality(Slots(p, b)) \in Nat
        /\ Cardinality(Slots(p, b)) <= TableCount(pending, b)
        /\ TableCount(pending', b) = TableCount(pending, b) + Cardinality(Slots(pending'[t], b))
                                       - Cardinality(Slots(p, b))
    <3>1. \A u \in Tasks : u # t => pending'[u] = pending[u]
      BY <1>5
    <3>2. /\ TableCount(pending, b) \in Nat /\ TableCount(pending', b) \in Nat
          /\ Cardinality(Slots(pending[t], b)) \in Nat
          /\ Cardinality(Slots(pending[t], b)) <= TableCount(pending, b)
          /\ TableCount(pending', b) = TableCount(pending, b) + Cardinality(Slots(pending'[t], b))
                                         - Cardinality(Slots(pending[t], b))
      <4>1. OnlyAt(t, pending, pending')
        BY <3>1 DEF OnlyAt
      <4>2. IsFiniteSet(Tasks) /\ MsgQueueAssumption
        BY DEF MsgQueueAssumption
      <4>3. TableMoves(pending, pending', t, b)
        BY <4>1, <4>2, TableMoved
      <4>4. QED
        BY <4>3 DEF TableMoves
    <3>3. QED
      BY <3>2 DEF p
  <2>2. Cardinality(Slots(r, b)) = Cardinality(Slots(p, b)) - (IF p[id].body = b THEN 1 ELSE 0)
    <3>1. Cardinality(Slots([p EXCEPT ![id] = m], b))
            = Cardinality(Slots(p, b)) - (IF p[id].body = b THEN 1 ELSE 0)
      BY <1>1, <1>2, SlotFreed
    <3>2. QED
      BY <3>1 DEF r
  <2>3. QED
    BY <1>5, <2>1, <2>2 DEF One
<1>11. QED
  BY <1>3, <1>8, <1>9, <1>10 DEF p

\* A reference is queued.
LEMMA Delivered ==
  ASSUME IsFiniteSet(Tasks), QueuesOK, NEW u \in Tasks, NEW c \in Bodies, Deliver(u, c)
  PROVE  /\ QueuesOK'
         /\ \A b : /\ QueueCount(incoming, b) \in Nat
                  /\ QueueCount(incoming', b) = QueueCount(incoming, b) + One(c, b)
<1> DEFINE m == NewReference(c)
           q == incoming[u]
<1>1. m \in Message /\ m.body = c
  BY DEF NewReference, NewMessage, Message, NoVirt
<1>2. q \in Seq(Message)
  BY DEF QueuesOK
<1>3. /\ incoming'[u] = Append(q, m) /\ \A v \in Tasks : v # u => incoming'[v] = incoming[v]
      /\ incoming' = [v \in Tasks |-> incoming'[v]]
  BY DEF QueuesOK, Deliver
<1> HIDE DEF m, q
<1>4. QueuesOK'
  <2>1. \A v \in Tasks : incoming'[v] \in Seq(Message)
    <3>1. Append(q, m) \in Seq(Message)
      BY <1>1, <1>2
    <3>2. QED
      BY <1>3, <3>1 DEF QueuesOK
  <2>2. QED
    BY <1>3, <2>1 DEF QueuesOK
<1>5. ASSUME NEW b
      PROVE  /\ QueueCount(incoming, b) \in Nat
             /\ QueueCount(incoming', b) = QueueCount(incoming, b) + One(c, b)
  <2>1. incoming \in [Tasks -> Seq(Message)] /\ incoming' \in [Tasks -> Seq(Message)]
    BY <1>4 DEF QueuesOK
  <2>2. /\ QueueCount(incoming, b) \in Nat /\ Cardinality(Positions(q, b)) \in Nat
        /\ QueueCount(incoming', b) = QueueCount(incoming, b)
             + Cardinality(Positions(incoming'[u], b)) - Cardinality(Positions(q, b))
    BY <1>3, <2>1, QueueChange DEF q
  <2>3. Cardinality(Positions(Append(q, m), b)) =
          Cardinality(Positions(q, b)) + (IF m.body = b THEN 1 ELSE 0)
    BY <1>1, <1>2, Appended
  <2>4. QED
    BY <1>1, <1>3, <2>2, <2>3 DEF One
<1>6. QED
  BY <1>4, <1>5

\* A message leaves its queue.
Leaves(t, i) == incoming' = [incoming EXCEPT ![t] = RemoveAt(@, i)]

LEMMA Dequeued ==
  ASSUME IsFiniteSet(Tasks), QueuesOK, NEW t \in Tasks, NEW i \in 1..Len(incoming[t]), Leaves(t, i)
  PROVE  /\ QueuesOK' /\ incoming[t][i] \in Message
         /\ \A b : /\ QueueCount(incoming, b) \in Nat
                  /\ QueueCount(incoming, b) >= One(incoming[t][i].body, b)
                  /\ QueueCount(incoming', b) = QueueCount(incoming, b) - One(incoming[t][i].body, b)
<1> DEFINE q == incoming[t]
<1>1. q \in Seq(Message) /\ i \in 1..Len(q)
  BY DEF QueuesOK
<1>2. /\ incoming'[t] = RemoveAt(q, i) /\ \A v \in Tasks : v # t => incoming'[v] = incoming[v]
      /\ incoming' = [v \in Tasks |-> incoming'[v]]
  BY DEF QueuesOK, Leaves
<1> HIDE DEF q
<1>3. q[i] \in Message
  BY <1>1
<1>4. QueuesOK'
  <2>1. RemoveAt(q, i) \in Seq(Message)
    BY <1>1, Taken
  <2>2. \A v \in Tasks : incoming'[v] \in Seq(Message)
    BY <1>2, <2>1 DEF QueuesOK
  <2>3. QED
    BY <1>2, <2>2 DEF QueuesOK
<1>5. ASSUME NEW b
      PROVE  /\ QueueCount(incoming, b) \in Nat
             /\ QueueCount(incoming, b) >= One(q[i].body, b)
             /\ QueueCount(incoming', b) = QueueCount(incoming, b) - One(q[i].body, b)
  <2>1. incoming \in [Tasks -> Seq(Message)] /\ incoming' \in [Tasks -> Seq(Message)]
    BY <1>4 DEF QueuesOK
  <2>2. /\ QueueCount(incoming, b) \in Nat /\ QueueCount(incoming', b) \in Nat
        /\ Cardinality(Positions(q, b)) \in Nat
        /\ QueueCount(incoming', b) = QueueCount(incoming, b)
             + Cardinality(Positions(incoming'[t], b)) - Cardinality(Positions(q, b))
    <3>1. \A v \in Tasks : v # t => incoming'[v] = incoming[v]
      BY <1>2
    <3>2. /\ QueueCount(incoming, b) \in Nat /\ Cardinality(Positions(incoming[t], b)) \in Nat
          /\ QueueCount(incoming', b) = QueueCount(incoming, b)
               + Cardinality(Positions(incoming'[t], b)) - Cardinality(Positions(incoming[t], b))
      BY <2>1, <3>1, QueueChange
    <3>3. QueueCount(incoming', b) \in Nat
      BY <2>1, <3>1, QueueChange
    <3>4. QED
      BY <3>2, <3>3 DEF q
  <2>3. Cardinality(Positions(RemoveAt(q, i), b)) =
          Cardinality(Positions(q, b)) - (IF q[i].body = b THEN 1 ELSE 0)
    BY <1>1, Taken
  <2>4. QED
    BY <1>2, <2>2, <2>3 DEF One
<1>6. QED
  BY <1>3, <1>4, <1>5 DEF q

\* A reference is closed: its body is freed when there is no other.
LEMMA Dropped ==
  ASSUME BodiesOK, NEW c \in Bodies, body[c].count > 0, body' = Closed(body, c)
  PROVE  /\ BodiesOK'
         /\ \A b \in Bodies : body'[b].count = body[b].count - One(c, b)
<1> DEFINE H == Headers \cup {Memory.header}
<1>1. body \in [Bodies -> [count : Nat, size : Nat, header : H]]
  BY DEF BodiesOK
<1>2. Memory \in [count : Nat, size : Nat, header : H] /\ Memory.count = 0
  BY DEF Memory
<1> HIDE DEF H
<1>3. CASE body[c].count = 1
  <2>1. body' = [body EXCEPT ![c] = Memory]
    BY <1>3 DEF Closed, Destroyed
  <2>2. body' \in [Bodies -> [count : Nat, size : Nat, header : H]]
    BY <1>1, <1>2, <2>1
  <2>3. \A b \in Bodies : body'[b].count = body[b].count - One(c, b)
    BY <1>1, <1>2, <1>3, <2>1 DEF One
  <2>4. QED
    BY <2>2, <2>3 DEF BodiesOK, H
<1>4. CASE body[c].count # 1
  <2>1. body' = [body EXCEPT ![c].count = @ - 1]
    BY <1>4 DEF Closed
  <2>2. body[c].count - 1 \in Nat
    BY <1>1
  <2>3. body' \in [Bodies -> [count : Nat, size : Nat, header : H]]
    BY <1>1, <2>1, <2>2
  <2>4. \A b \in Bodies : body'[b].count = body[b].count - One(c, b)
    BY <1>1, <2>1 DEF One
  <2>5. QED
    BY <2>3, <2>4 DEF BodiesOK, H
<1>5. QED
  BY <1>3, <1>4

\* Counts are those of messages.
LEMMA Whole ==
  ASSUME MsgQueueAssumption, IsFiniteSet(Tasks), QueuesOK, NEW b
  PROVE  QueueCount(incoming, b) \in Nat /\ TableCount(pending, b) \in Nat
<1>1. CASE Tasks = {}
  <2>1. Pairs([t \in Tasks |-> Positions(incoming[t], b)]) = {}
    BY <1>1 DEF Pairs
  <2>2. Pairs([t \in Tasks |-> Slots(pending[t], b)]) = {}
    BY <1>1 DEF Pairs
  <2>3. QED
    BY <2>1, <2>2, FS_EmptySet DEF QueueCount, TableCount
<1>2. CASE Tasks # {}
  <2>1. PICK t \in Tasks : TRUE
    BY <1>2
  <2>2. incoming \in [Tasks -> Seq(Message)]
    BY DEF QueuesOK
  <2>3. QueueCount(incoming, b) \in Nat
    BY <2>1, <2>2, QueueChange
  <2>4. TableCount(pending, b) \in Nat
    BY <2>1, TableChange
  <2>5. QED
    BY <2>3, <2>4
<1>3. QED
  BY <1>1, <1>2

-----------------------------------------------------------------------------
(* The invariant holds at first and after each step.                        *)

LEMMA AtFirst ==
  ASSUME MsgQueueAssumption, Init PROVE MsgInv
<1>1. QueuesOK
  BY DEF Init, QueuesOK
<1>2. /\ pending = [t \in Tasks |-> EmptyTable] /\ last_free = [t \in Tasks |-> 0]
      /\ incoming = [t \in Tasks |-> <<>>] /\ body = [b \in Bodies |-> Memory]
  BY DEF Init
<1>3. TablesOK
  <2>1. 0 \in Ids
    BY DEF Ids, MsgQueueAssumption
  <2>2. QED
    BY <1>2, <2>1, ListNew DEF TablesOK
<1>4. FreeInv
  BY <1>2, ListNew DEF FreeInv
<1>5. BodiesOK
  BY <1>2 DEF BodiesOK, Memory
<1>6. CountInv
  <2> SUFFICES ASSUME NEW b \in Bodies
               PROVE  body[b].count = QueueCount(incoming, b) + TableCount(pending, b)
    BY DEF CountInv
  <2>1. body[b].count = 0
    BY <1>2 DEF Memory
  <2>2. QueueCount(incoming, b) = 0
    <3>1. \A t \in Tasks : Positions(incoming[t], b) = {}
      BY <1>2 DEF Positions
    <3>2. Pairs([t \in Tasks |-> Positions(incoming[t], b)]) = {}
      BY <3>1 DEF Pairs
    <3>3. QED
      BY <3>2, FS_EmptySet DEF QueueCount
  <2>3. TableCount(pending, b) = 0
    <3>1. \A i \in Ids : ~IsMessage(EmptyTable[i])
      BY ListNew, SlotKinds
    <3>2. \A t \in Tasks : Slots(pending[t], b) = {}
      BY <1>2, <3>1 DEF Slots
    <3>3. Pairs([t \in Tasks |-> Slots(pending[t], b)]) = {}
      BY <3>2 DEF Pairs
    <3>4. QED
      BY <3>3, FS_EmptySet DEF TableCount
  <2>4. QED
    BY <2>1, <2>2, <2>3
<1>7. QED
  BY <1>1, <1>3, <1>4, <1>5, <1>6 DEF MsgInv, TypeInv

LEMMA Unchanged ==
  ASSUME MsgInv, UNCHANGED <<incoming, pending, last_free, body>> PROVE MsgInv'
BY DEF MsgInv, TypeInv, QueuesOK, TablesOK, BodiesOK, FreeInv, CountInv

LEMMA KeptByRequest ==
  ASSUME MsgQueueAssumption, IsFiniteSet(Tasks), MsgInv,
         NEW t \in Tasks, NEW b \in Bodies, NEW size \in Sizes, Request(t, b, size)
  PROVE  MsgInv'
<1>1. Kept(NewMessage(b)) /\ NewMessage(b).body = b
  BY DEF NewMessage, Kept
<1>2. PutMsg(t, NewMessage(b)) /\ TablesOK /\ FreeInv /\ QueuesOK /\ BodiesOK /\ CountInv
  BY DEF Request, MsgInv, TypeInv
<1>3. /\ TablesOK' /\ FreeInv'
      /\ \A c : TableCount(pending', c) = TableCount(pending, c) + One(b, c)
  BY <1>1, <1>2, Put
<1>4. /\ BodiesOK'
      /\ \A c \in Bodies : body'[c].count = body[c].count + One(b, c)
  <2> DEFINE H == Headers \cup {Memory.header}
             new == NewBody(size, Memory.header)
  <2>1. new \in [count : Nat, size : Nat, header : H] /\ new.count = 1
    BY DEF NewBody, MsgQueueAssumption
  <2>2. body' = [body EXCEPT ![b] = new] /\ body[b].count = 0
    BY DEF Request, Memory
  <2>3. body \in [Bodies -> [count : Nat, size : Nat, header : H]]
    BY <1>2 DEF BodiesOK
  <2> HIDE DEF H, new
  <2>4. body' \in [Bodies -> [count : Nat, size : Nat, header : H]]
    BY <2>1, <2>2, <2>3
  <2>5. \A c \in Bodies : body'[c].count = body[c].count + One(b, c)
    BY <2>1, <2>2, <2>3 DEF One
  <2>6. QED
    BY <2>4, <2>5 DEF BodiesOK, H
<1>5. incoming' = incoming /\ QueuesOK'
  BY <1>2 DEF Request, QueuesOK
<1>6. CountInv'
  <2> SUFFICES ASSUME NEW c \in Bodies
               PROVE  body'[c].count = QueueCount(incoming', c) + TableCount(pending', c)
    BY DEF CountInv
  <2>1. QueueCount(incoming, c) \in Nat /\ TableCount(pending, c) \in Nat
    BY <1>2, Whole
  <2>2. body[c].count = QueueCount(incoming, c) + TableCount(pending, c)
    BY <1>2 DEF CountInv
  <2>3. One(b, c) \in Nat
    BY DEF One
  <2>4. QED
    BY <1>3, <1>4, <1>5, <2>1, <2>2, <2>3
<1>7. QED
  BY <1>3, <1>4, <1>5, <1>6 DEF MsgInv, TypeInv

\* Map and Unmap, of a message that is pending.
LEMMA Moved ==
  ASSUME MsgQueueAssumption, MsgInv, NEW t \in Tasks, NEW id \in Ids, Has(t, id),
         NEW v, pending' = [pending EXCEPT ![t][id].virt = v],
         UNCHANGED <<incoming, last_free, body>>
  PROVE  MsgInv'
<1> DEFINE m == [pending[t][id] EXCEPT !.virt = v]
<1>1. /\ TablesOK /\ FreeInv /\ QueuesOK /\ BodiesOK /\ CountInv
      /\ Kept(pending[t][id])
  <2>1. TablesOK /\ FreeInv /\ QueuesOK /\ BodiesOK /\ CountInv
    BY DEF MsgInv, TypeInv
  <2>2. QED
    BY <2>1, SlotKinds DEF TablesOK, Has
<1>2. Kept(m) /\ m.body = pending[t][id].body
  BY <1>1 DEF Kept
<1>3. IsMessage(m)
  BY <1>2, SlotKinds
<1>4. pending' = [pending EXCEPT ![t][id] = m]
  OBVIOUS
<1> HIDE DEF m
<1>5. /\ pending' = [u \in Tasks |-> pending'[u]]
      /\ \A u \in Tasks : pending'[u] = [i \in Ids |-> pending'[u][i]]
      /\ pending'[t][id] = m
      /\ \A u \in Tasks, i \in Ids : (u # t \/ i # id) => pending'[u][i] = pending[u][i]
  <2>1. /\ pending' = [u \in Tasks |-> pending'[u]]
        /\ pending'[t] = [pending[t] EXCEPT ![id] = m]
        /\ \A u \in Tasks : u # t => pending'[u] = pending[u]
    BY <1>1, <1>4 DEF TablesOK
  <2>2. \A u \in Tasks : pending[u] = [i \in Ids |-> pending[u][i]]
    BY <1>1 DEF TablesOK
  <2>3. /\ pending'[t] = [i \in Ids |-> pending'[t][i]] /\ pending'[t][id] = m
        /\ \A i \in Ids : i # id => pending'[t][i] = pending[t][i]
    BY <2>1, <2>2
  <2>4. QED
    BY <2>1, <2>2, <2>3
<1>6. TablesOK'
  <2>1. \A u \in Tasks : \A i \in Ids : Kept(pending'[u][i]) \/ Free(pending'[u][i])
    BY <1>1, <1>2, <1>5 DEF TablesOK
  <2>2. last_free' \in [Tasks -> Ids \cup {NoId}]
    BY <1>1 DEF TablesOK
  <2>3. QED
    BY <1>5, <2>1, <2>2 DEF TablesOK
<1>7. \A u \in Tasks, i \in Ids :
        /\ IsMessage(pending'[u][i]) <=> IsMessage(pending[u][i])
        /\ IsMessage(pending[u][i]) => pending'[u][i].body = pending[u][i].body
        /\ ~IsMessage(pending[u][i]) => pending'[u][i] = pending[u][i]
  BY <1>2, <1>3, <1>5 DEF Has
<1>8. FreeInv'
  <2> SUFFICES ASSUME NEW u \in Tasks PROVE OneList(pending'[u], last_free'[u])
    BY DEF FreeInv
  <2>1. OneList(pending[u], last_free'[u])
    BY <1>1 DEF FreeInv
  <2>2. FreeOf(pending'[u]) = FreeOf(pending[u])
    BY <1>7 DEF FreeOf
  <2>3. \A i \in FreeOf(pending[u]) : pending'[u][i] = pending[u][i]
    BY <1>7 DEF FreeOf
  <2> DEFINE p == pending[u]
             r == pending'[u]
             first == last_free'[u]
  <2>4. OneList(p, first) /\ FreeOf(r) = FreeOf(p) /\ \A i \in FreeOf(p) : r[i] = p[i]
    BY <2>1, <2>2, <2>3
  <2>5. MsgQueueAssumption
    BY <1>1
  <2> HIDE DEF p, r, first
  <2>6. OneList(r, first)
    BY <2>4, <2>5, ListSame, Zenon
  <2>7. QED
    BY <2>6 DEF r, first
<1>9. CountInv'
  <2> SUFFICES ASSUME NEW b \in Bodies
               PROVE  body'[b].count = QueueCount(incoming', b) + TableCount(pending', b)
    BY DEF CountInv
  <2>1. \A u \in Tasks : Slots(pending'[u], b) = Slots(pending[u], b)
    BY <1>7 DEF Slots
  <2>2. TableCount(pending', b) = TableCount(pending, b)
    <3>1. [u \in Tasks |-> Slots(pending'[u], b)] = [u \in Tasks |-> Slots(pending[u], b)]
      BY <2>1
    <3>2. QED
      BY <3>1 DEF TableCount
  <2>3. QED
    BY <1>1, <2>2 DEF CountInv
<1>10. QED
  BY <1>1, <1>6, <1>8, <1>9 DEF MsgInv, TypeInv, QueuesOK, BodiesOK

LEMMA KeptByMap ==
  ASSUME MsgQueueAssumption, MsgInv, NEW t \in Tasks, NEW id \in Ids, Map(t, id)
  PROVE  MsgInv'
<1>1. Has(t, id) /\ UNCHANGED <<incoming, last_free, body>>
  BY DEF Map
<1>2. pending' = [pending EXCEPT ![t][id].virt = Head(chunks[t]).address]
  BY DEF Map, Remapped
<1>3. QED
  BY <1>1, <1>2, Moved

LEMMA KeptByUnmap ==
  ASSUME MsgQueueAssumption, MsgInv, NEW t \in Tasks, NEW id \in Ids, Unmap(t, id)
  PROVE  MsgInv'
<1>1. Has(t, id) /\ UNCHANGED <<incoming, last_free, body>>
  BY DEF Unmap
<1>2. pending' = pending \/ pending' = [pending EXCEPT ![t][id].virt = NoVirt]
  BY DEF Unmap
<1>3. CASE pending' = pending
  BY <1>1, <1>3, Unchanged
<1>4. CASE pending' = [pending EXCEPT ![t][id].virt = NoVirt]
  BY <1>1, <1>4, Moved
<1>5. QED
  BY <1>2, <1>3, <1>4

LEMMA KeptBySend ==
  ASSUME MsgQueueAssumption, IsFiniteSet(Tasks), MsgInv,
         NEW t \in Tasks, NEW id \in Ids, NEW u \in Tasks, Send(t, id, u)
  PROVE  MsgInv'
<1> DEFINE c == pending[t][id].body
<1>1. TablesOK /\ FreeInv /\ QueuesOK /\ BodiesOK /\ CountInv
  BY DEF MsgInv, TypeInv
<1>2. c \in Bodies /\ Deliver(u, c) /\ body' = Opened(c) /\ UNCHANGED <<pending, last_free>>
  <2>1. Has(t, id) /\ Deliver(u, c) /\ body' = Opened(c) /\ UNCHANGED <<pending, last_free>>
    BY DEF Send
  <2>2. QED
    BY <1>1, <2>1, SlotKinds DEF TablesOK, Has, Kept
<1> HIDE DEF c
<1>3. /\ QueuesOK'
      /\ \A b : QueueCount(incoming', b) = QueueCount(incoming, b) + One(c, b)
  BY <1>1, <1>2, Delivered
<1>4. /\ BodiesOK'
      /\ \A b \in Bodies : body'[b].count = body[b].count + One(c, b)
  <2> DEFINE H == Headers \cup {Memory.header}
  <2>1. body \in [Bodies -> [count : Nat, size : Nat, header : H]]
    BY <1>1 DEF BodiesOK
  <2>2. body' = [body EXCEPT ![c].count = @ + 1]
    BY <1>2 DEF Opened
  <2> HIDE DEF H
  <2>3. body' \in [Bodies -> [count : Nat, size : Nat, header : H]]
    BY <1>2, <2>1, <2>2
  <2>4. \A b \in Bodies : body'[b].count = body[b].count + One(c, b)
    BY <1>2, <2>1, <2>2 DEF One
  <2>5. QED
    BY <2>3, <2>4 DEF BodiesOK, H
<1>5. CountInv'
  <2> SUFFICES ASSUME NEW b \in Bodies
               PROVE  body'[b].count = QueueCount(incoming', b) + TableCount(pending', b)
    BY DEF CountInv
  <2>1. QueueCount(incoming, b) \in Nat /\ TableCount(pending, b) \in Nat
    BY <1>1, Whole
  <2>2. body[b].count = QueueCount(incoming, b) + TableCount(pending, b)
    BY <1>1 DEF CountInv
  <2>3. One(c, b) \in Nat
    BY DEF One
  <2>4. QED
    BY <1>2, <1>3, <1>4, <2>1, <2>2, <2>3
<1>6. QED
  BY <1>1, <1>2, <1>3, <1>4, <1>5 DEF MsgInv, TypeInv, TablesOK, FreeInv

LEMMA KeptByRelease ==
  ASSUME MsgQueueAssumption, IsFiniteSet(Tasks), MsgInv,
         NEW t \in Tasks, NEW id \in Ids, Release(t, id)
  PROVE  MsgInv'
<1> DEFINE c == pending[t][id].body
<1>1. TablesOK /\ FreeInv /\ QueuesOK /\ BodiesOK /\ CountInv
  BY DEF MsgInv, TypeInv
<1>2. Has(t, id) /\ ReleaseId(t, id) /\ body' = Closed(body, c) /\ incoming' = incoming
  BY DEF Release
<1>3. /\ TablesOK' /\ FreeInv' /\ c \in Bodies
      /\ \A b : /\ TableCount(pending, b) \in Nat
               /\ TableCount(pending, b) >= One(c, b)
               /\ TableCount(pending', b) = TableCount(pending, b) - One(c, b)
  BY <1>1, <1>2, Give
<1> HIDE DEF c
<1>4. ASSUME NEW b \in Bodies
      PROVE  /\ QueueCount(incoming, b) \in Nat /\ TableCount(pending, b) \in Nat
             /\ body[b].count = QueueCount(incoming, b) + TableCount(pending, b)
  BY <1>1, Whole DEF CountInv
<1>5. body[c].count > 0
  <2>1. One(c, c) = 1
    BY DEF One
  <2>2. QED
    BY <1>3, <1>4, <2>1
<1>6. BodiesOK' /\ \A b \in Bodies : body'[b].count = body[b].count - One(c, b)
  BY <1>1, <1>2, <1>3, <1>5, Dropped
<1>7. CountInv'
  <2> SUFFICES ASSUME NEW b \in Bodies
               PROVE  body'[b].count = QueueCount(incoming', b) + TableCount(pending', b)
    BY DEF CountInv
  <2>1. One(c, b) \in Nat
    BY DEF One
  <2>2. QED
    BY <1>2, <1>3, <1>4, <1>6, <2>1
<1>8. QED
  BY <1>1, <1>2, <1>3, <1>6, <1>7 DEF MsgInv, TypeInv, QueuesOK

LEMMA KeptByWriteMicro ==
  ASSUME MsgInv, NEW t \in Tasks, NEW id \in Ids, NEW h \in Headers, WriteMicro(t, id, h)
  PROVE  MsgInv'
<1> DEFINE c == pending[t][id].body
           H == Headers \cup {Memory.header}
<1>1. TablesOK /\ FreeInv /\ QueuesOK /\ BodiesOK /\ CountInv
  BY DEF MsgInv, TypeInv
<1>2. c \in Bodies
  <2>1. Has(t, id)
    BY DEF WriteMicro
  <2>2. QED
    BY <1>1, <2>1, SlotKinds DEF TablesOK, Has, Kept
<1>3. body' = [body EXCEPT ![c].header = h] /\ UNCHANGED <<incoming, pending, last_free>>
  BY DEF WriteMicro, queueVars
<1>4. body \in [Bodies -> [count : Nat, size : Nat, header : H]] /\ h \in H
  BY <1>1 DEF BodiesOK
<1> HIDE DEF c, H
<1>5. /\ body' \in [Bodies -> [count : Nat, size : Nat, header : H]]
      /\ \A b \in Bodies : body'[b].count = body[b].count
  BY <1>2, <1>3, <1>4
<1>6. BodiesOK' /\ CountInv'
  BY <1>1, <1>3, <1>5 DEF BodiesOK, CountInv, H
<1>7. QED
  BY <1>1, <1>3, <1>6 DEF MsgInv, TypeInv, QueuesOK, TablesOK, FreeInv

LEMMA KeptByWrite ==
  ASSUME MsgQueueAssumption, IsFiniteSet(Tasks), MsgInv,
         NEW t \in Tasks, NEW u \in Tasks, NEW c \in Bodies, NEW h \in Headers, Write(t, u, c, h)
  PROVE  MsgInv'
<1> DEFINE H == Headers \cup {Memory.header}
           new == NewBody(0, h)
<1>1. TablesOK /\ FreeInv /\ QueuesOK /\ BodiesOK /\ CountInv
  BY DEF MsgInv, TypeInv
<1>2. /\ Deliver(u, c) /\ UNCHANGED <<pending, last_free>>
      /\ body' = [body EXCEPT ![c] = new] /\ body[c].count = 0
  BY DEF Write, Memory
<1>3. /\ QueuesOK'
      /\ \A b : QueueCount(incoming', b) = QueueCount(incoming, b) + One(c, b)
  BY <1>1, <1>2, Delivered
<1>4. new \in [count : Nat, size : Nat, header : H] /\ new.count = 1
  BY DEF NewBody
<1>5. body \in [Bodies -> [count : Nat, size : Nat, header : H]]
  BY <1>1 DEF BodiesOK
<1> HIDE DEF H, new
<1>6. /\ body' \in [Bodies -> [count : Nat, size : Nat, header : H]]
      /\ \A b \in Bodies : body'[b].count = body[b].count + One(c, b)
  <2>1. body' \in [Bodies -> [count : Nat, size : Nat, header : H]]
    BY <1>2, <1>4, <1>5
  <2>2. \A b \in Bodies : body'[b].count = body[b].count + One(c, b)
    BY <1>2, <1>4, <1>5 DEF One
  <2>3. QED
    BY <2>1, <2>2
<1>7. CountInv'
  <2> SUFFICES ASSUME NEW b \in Bodies
               PROVE  body'[b].count = QueueCount(incoming', b) + TableCount(pending', b)
    BY DEF CountInv
  <2>1. QueueCount(incoming, b) \in Nat /\ TableCount(pending, b) \in Nat
    BY <1>1, Whole
  <2>2. body[b].count = QueueCount(incoming, b) + TableCount(pending, b)
    BY <1>1 DEF CountInv
  <2>3. One(c, b) \in Nat
    BY DEF One
  <2>4. QED
    BY <1>2, <1>3, <1>6, <2>1, <2>2, <2>3
<1>8. BodiesOK'
  BY <1>6 DEF BodiesOK, H
<1>9. QED
  BY <1>1, <1>2, <1>3, <1>7, <1>8 DEF MsgInv, TypeInv, TablesOK, FreeInv

\* A message that is received leaves the queue for the table, or is read and released.
LEMMA KeptByTakeFirst ==
  ASSUME MsgQueueAssumption, IsFiniteSet(Tasks), MsgInv,
         NEW t \in Tasks, NEW c, Matches(t, c.filter) # {}, TakeFirst(t, c)
  PROVE  MsgInv'
<1> DEFINE i == Earliest(Matches(t, c.filter))
           m == incoming[t][i]
<1>1. TablesOK /\ FreeInv /\ QueuesOK /\ BodiesOK /\ CountInv
  BY DEF MsgInv, TypeInv
<1>2. i \in 1..Len(incoming[t])
  <2>1. Matches(t, c.filter) \in SUBSET (1..Len(incoming[t])) /\ Len(incoming[t]) \in Nat
    BY <1>1 DEF Matches, QueuesOK
  <2>2. Matches(t, c.filter) \in SUBSET Nat
    BY <2>1
  <2>3. i \in Matches(t, c.filter)
    BY <2>2, Least
  <2>4. QED
    BY <2>1, <2>3
<1>3. /\ Leaves(t, i)
      /\ IF c.read THEN body' = Closed(body, m.body) /\ UNCHANGED <<pending, last_free>>
                   ELSE PutMsg(t, m) /\ UNCHANGED body
  BY DEF TakeFirst, Leaves
<1> HIDE DEF i
<1>4. /\ QueuesOK' /\ m \in Message
      /\ \A b : /\ QueueCount(incoming, b) \in Nat
               /\ QueueCount(incoming, b) >= One(m.body, b)
               /\ QueueCount(incoming', b) = QueueCount(incoming, b) - One(m.body, b)
  BY <1>1, <1>2, <1>3, Dequeued
<1> HIDE DEF m
<1>5. ASSUME NEW b \in Bodies
      PROVE  /\ QueueCount(incoming, b) \in Nat /\ TableCount(pending, b) \in Nat
             /\ body[b].count = QueueCount(incoming, b) + TableCount(pending, b)
  BY <1>1, Whole DEF CountInv
<1>6. CASE c.read
  <2>1. m.body \in Bodies
    BY <1>4 DEF Message
  <2>2. body[m.body].count > 0
    <3>1. One(m.body, m.body) = 1
      BY DEF One
    <3>2. QED
      BY <1>4, <1>5, <2>1, <3>1
  <2>3. BodiesOK' /\ \A b \in Bodies : body'[b].count = body[b].count - One(m.body, b)
    BY <1>1, <1>3, <1>6, <2>1, <2>2, Dropped
  <2>4. pending' = pending /\ last_free' = last_free
    BY <1>3, <1>6
  <2>5. CountInv'
    <3> SUFFICES ASSUME NEW b \in Bodies
                 PROVE  body'[b].count = QueueCount(incoming', b) + TableCount(pending', b)
      BY DEF CountInv
    <3>1. One(m.body, b) \in Nat
      BY DEF One
    <3>2. QED
      BY <1>4, <1>5, <2>3, <2>4, <3>1
  <2>6. QED
    BY <1>1, <1>4, <2>3, <2>4, <2>5 DEF MsgInv, TypeInv, TablesOK, FreeInv
<1>7. CASE ~c.read
  <2>1. Kept(m) /\ PutMsg(t, m) /\ body' = body
    BY <1>3, <1>4, <1>7, SlotKinds
  <2>2. /\ TablesOK' /\ FreeInv'
        /\ \A b : TableCount(pending', b) = TableCount(pending, b) + One(m.body, b)
    BY <1>1, <2>1, Put
  <2>3. CountInv'
    <3> SUFFICES ASSUME NEW b \in Bodies
                 PROVE  body'[b].count = QueueCount(incoming', b) + TableCount(pending', b)
      BY DEF CountInv
    <3>1. One(m.body, b) \in Nat
      BY DEF One
    <3>2. QED
      BY <1>4, <1>5, <2>1, <2>2, <3>1
  <2>4. QED
    BY <1>1, <1>4, <2>1, <2>2, <2>3 DEF MsgInv, TypeInv, BodiesOK
<1>8. QED
  BY <1>6, <1>7

LEMMA KeptByReceive ==
  ASSUME MsgQueueAssumption, IsFiniteSet(Tasks), MsgInv,
         NEW t \in Tasks, NEW c, NEW nonblock, Receive(t, c, nonblock)
  PROVE  MsgInv'
<1>1. CASE UNCHANGED <<incoming, pending, last_free, body>>
  BY <1>1, Unchanged
<1>2. CASE Matches(t, c.filter) # {} /\ TakeFirst(t, c)
  BY <1>2, KeptByTakeFirst
<1>3. \/ UNCHANGED <<incoming, pending, last_free, body>>
      \/ Matches(t, c.filter) # {} /\ TakeFirst(t, c)
  BY DEF Receive
<1>4. QED
  BY <1>1, <1>2, <1>3

\* msgq_destroy closes as many references to a body as it finds.
LEMMA KeptByExit ==
  ASSUME MsgQueueAssumption, IsFiniteSet(Tasks), MsgInv, NEW t \in Tasks, Exit(t)
  PROVE  MsgInv'
<1> DEFINE H == Headers \cup {Memory.header}
<1>1. TablesOK /\ FreeInv /\ QueuesOK /\ BodiesOK /\ CountInv
  BY DEF MsgInv, TypeInv
<1>2. /\ incoming' = [incoming EXCEPT ![t] = <<>>]
      /\ pending' = [pending EXCEPT ![t] = EmptyTable]
      /\ last_free' = [last_free EXCEPT ![t] = 0]
  BY DEF Exit
<1>3. /\ incoming \in [Tasks -> Seq(Message)] /\ incoming' \in [Tasks -> Seq(Message)]
      /\ incoming'[t] = <<>> /\ \A u \in Tasks : u # t => incoming'[u] = incoming[u]
  BY <1>1, <1>2 DEF QueuesOK
<1>4. /\ pending' = [u \in Tasks |-> pending'[u]]
      /\ pending'[t] = EmptyTable /\ \A u \in Tasks : u # t => pending'[u] = pending[u]
  BY <1>1, <1>2 DEF TablesOK
<1>5. TablesOK'
  <2>1. last_free' \in [Tasks -> Ids \cup {NoId}]
    BY <1>1, <1>2 DEF TablesOK, Ids, MsgQueueAssumption
  <2>2. ASSUME NEW u \in Tasks
        PROVE  /\ pending'[u] = [i \in Ids |-> pending'[u][i]]
               /\ \A i \in Ids : Kept(pending'[u][i]) \/ Free(pending'[u][i])
    <3>1. CASE u = t
      BY <1>4, <3>1, ListNew
    <3>2. CASE u # t
      BY <1>1, <1>4, <3>2 DEF TablesOK
    <3>3. QED
      BY <3>1, <3>2
  <2>3. QED
    BY <1>4, <2>1, <2>2 DEF TablesOK
<1>6. FreeInv'
  <2> SUFFICES ASSUME NEW u \in Tasks PROVE OneList(pending'[u], last_free'[u])
    BY DEF FreeInv
  <2>1. CASE u = t
    <3>1. last_free'[u] = 0 /\ pending'[u] = EmptyTable
      BY <1>1, <1>2, <1>4, <2>1 DEF TablesOK
    <3>2. QED
      BY <3>1, ListNew
  <2>2. CASE u # t
    <3>1. last_free'[u] = last_free[u] /\ pending'[u] = pending[u]
      BY <1>1, <1>2, <1>4, <2>2 DEF TablesOK
    <3>2. QED
      BY <1>1, <3>1 DEF FreeInv
  <2>3. QED
    BY <2>1, <2>2
<1>7. ASSUME NEW b \in Bodies
      PROVE  /\ RefsOf(t, b) \in Nat /\ body[b].count \in Nat /\ RefsOf(t, b) <= body[b].count
             /\ QueueCount(incoming', b) + TableCount(pending', b) = body[b].count - RefsOf(t, b)
  <2>1. /\ QueueCount(incoming, b) \in Nat /\ Cardinality(Positions(incoming[t], b)) \in Nat
        /\ Cardinality(Positions(incoming[t], b)) <= QueueCount(incoming, b)
        /\ QueueCount(incoming', b) = QueueCount(incoming, b)
             + Cardinality(Positions(incoming'[t], b)) - Cardinality(Positions(incoming[t], b))
    <3>1. \A u \in Tasks : u # t => incoming'[u] = incoming[u]
      BY <1>3
    <3>2. incoming \in [Tasks -> Seq(Message)] /\ incoming' \in [Tasks -> Seq(Message)]
      BY <1>3
    <3>3. /\ QueueCount(incoming, b) \in Nat /\ Cardinality(Positions(incoming[t], b)) \in Nat
          /\ Cardinality(Positions(incoming[t], b)) <= QueueCount(incoming, b)
      BY <3>1, <3>2, QueueChange
    <3>4. QueueCount(incoming', b) = QueueCount(incoming, b)
            + Cardinality(Positions(incoming'[t], b)) - Cardinality(Positions(incoming[t], b))
      <4>1. OnlyAt(t, incoming, incoming')
        BY <3>1 DEF OnlyAt
      <4>2. IsFiniteSet(Tasks)
        BY DEF MsgQueueAssumption
      <4>3. QueueMoves(incoming, incoming', t, b)
        BY <3>2, <4>1, <4>2, QueueMoved
      <4>4. QED
        BY <4>3 DEF QueueMoves
    <3>5. QED
      BY <3>3, <3>4
  <2>2. /\ TableCount(pending, b) \in Nat /\ Cardinality(Slots(pending[t], b)) \in Nat
        /\ Cardinality(Slots(pending[t], b)) <= TableCount(pending, b)
        /\ TableCount(pending', b) = TableCount(pending, b)
             + Cardinality(Slots(pending'[t], b)) - Cardinality(Slots(pending[t], b))
    <3>1. \A u \in Tasks : u # t => pending'[u] = pending[u]
      BY <1>4
    <3>2. QED
      <4>1. OnlyAt(t, pending, pending')
        BY <3>1 DEF OnlyAt
      <4>2. IsFiniteSet(Tasks) /\ MsgQueueAssumption
        BY DEF MsgQueueAssumption
      <4>3. TableMoves(pending, pending', t, b)
        BY <4>1, <4>2, TableMoved
      <4>4. QED
        BY <4>3 DEF TableMoves
  <2>3. Cardinality(Positions(incoming'[t], b)) = 0
    <3>1. Positions(incoming'[t], b) = {}
      BY <1>3 DEF Positions
    <3>2. QED
      BY <3>1, FS_EmptySet
  <2>4. Cardinality(Slots(pending'[t], b)) = 0
    BY <1>4, ListNew
  <2>5. RefsOf(t, b) = Cardinality(Positions(incoming[t], b)) + Cardinality(Slots(pending[t], b))
    <3>1. InQueue(t, b) = Positions(incoming[t], b) /\ InTable(t, b) = Slots(pending[t], b)
      BY DEF InQueue, InTable, Positions, Slots, Has
    <3>2. QED
      BY <3>1 DEF RefsOf
  <2>6. body[b].count = QueueCount(incoming, b) + TableCount(pending, b)
    BY <1>1 DEF CountInv
  <2>7. QED
    BY <2>1, <2>2, <2>3, <2>4, <2>5, <2>6
<1>8. body \in [Bodies -> [count : Nat, size : Nat, header : H]]
  BY <1>1 DEF BodiesOK
<1>9. Memory \in [count : Nat, size : Nat, header : H] /\ Memory.count = 0
  BY DEF Memory
<1>10. body' = [b \in Bodies |->
         IF body[b].count > 0 /\ body[b].count = RefsOf(t, b) THEN Memory
         ELSE [body[b] EXCEPT !.count = @ - RefsOf(t, b)]]
  BY DEF Exit
<1> HIDE DEF H
<1>11. ASSUME NEW b \in Bodies
       PROVE  /\ body'[b] \in [count : Nat, size : Nat, header : H]
              /\ body'[b].count = body[b].count - RefsOf(t, b)
  <2>1. CASE body[b].count > 0 /\ body[b].count = RefsOf(t, b)
    <3>1. body'[b] = Memory
      BY <1>10, <2>1
    <3>2. QED
      BY <1>7, <1>9, <2>1, <3>1
  <2>2. CASE ~(body[b].count > 0 /\ body[b].count = RefsOf(t, b))
    <3>1. body'[b] = [body[b] EXCEPT !.count = @ - RefsOf(t, b)]
      BY <1>10, <2>2
    <3>2. body[b].count - RefsOf(t, b) \in Nat
      BY <1>7
    <3>3. QED
      BY <1>8, <3>1, <3>2
  <2>3. QED
    BY <2>1, <2>2
<1>12. BodiesOK'
  <2>1. body' \in [Bodies -> [count : Nat, size : Nat, header : H]]
    BY <1>10, <1>11
  <2>2. QED
    BY <2>1 DEF BodiesOK, H
<1>13. CountInv'
  BY <1>7, <1>11 DEF CountInv
<1>14. QED
  BY <1>3, <1>5, <1>6, <1>12, <1>13 DEF MsgInv, TypeInv, QueuesOK

LEMMA KeptByStep ==
  ASSUME MsgQueueAssumption, IsFiniteSet(Tasks), MsgInv, NEW t \in Tasks, Step(t)
  PROVE  MsgInv'
<1>1. CASE SysMsgRequest(t)
  <2>1. CASE \E b \in Bodies, size \in Sizes : Request(t, b, size)
    BY <2>1, KeptByRequest
  <2>2. CASE \E b \in Bodies : RequestFails(t, b)
    <3>1. UNCHANGED <<incoming, pending, last_free, body>>
      BY <2>2 DEF RequestFails, queueVars
    <3>2. QED
      BY <3>1, Unchanged
  <2>3. QED
    BY <1>1, <2>1, <2>2 DEF SysMsgRequest
<1>2. CASE SysMsgUnmap(t)
  BY <1>2, KeptByUnmap DEF SysMsgUnmap
<1>3. CASE SysMsgMap(t)
  BY <1>3, KeptByMap DEF SysMsgMap
<1>4. CASE SysMsgSend(t)
  BY <1>4, KeptBySend DEF SysMsgSend, MsgQueueAssumption
<1>5. CASE SysMsgRelease(t)
  BY <1>5, KeptByRelease DEF SysMsgRelease
<1>6. CASE SysMsgWriteMicro(t)
  BY <1>6, KeptByWriteMicro DEF SysMsgWriteMicro
<1>7. CASE \E u \in Recipients, b \in Bodies, h \in Headers : Write(t, u, b, h)
  BY <1>7, KeptByWrite DEF MsgQueueAssumption
<1>8. CASE Recv(t)
  BY <1>8, KeptByReceive DEF Recv
<1>9. CASE RecvAgain(t)
  BY <1>9, KeptByReceive DEF RecvAgain
<1>10. CASE EventWait(t)
  <2>1. UNCHANGED <<incoming, pending, last_free, body>>
    BY <1>10 DEF EventWait, queueVars
  <2>2. QED
    BY <2>1, Unchanged
<1>11. CASE Exit(t)
  BY <1>11, KeptByExit
<1>12. CASE Spawn(t)
  <2>1. UNCHANGED <<incoming, pending, last_free, body>>
    BY <1>12 DEF Spawn
  <2>2. QED
    BY <2>1, Unchanged
<1>13. QED
  BY <1>1, <1>2, <1>3, <1>4, <1>5, <1>6, <1>7, <1>8, <1>9, <1>10, <1>11, <1>12 DEF Step

LEMMA MsgInvAlways ==
  ASSUME MsgQueueAssumption, IsFiniteSet(Tasks) PROVE Spec => []MsgInv
<1>1. Init => MsgInv
  BY AtFirst
<1>2. MsgInv /\ [Next]_vars => MsgInv'
  <2> SUFFICES ASSUME MsgInv, [Next]_vars PROVE MsgInv'
    OBVIOUS
  <2>1. CASE Next
    BY <2>1, KeptByStep DEF Next
  <2>2. CASE UNCHANGED vars
    <3>1. UNCHANGED <<incoming, pending, last_free, body>>
      BY <2>2 DEF vars, queueVars
    <3>2. QED
      BY <3>1, Unchanged
  <2>3. QED
    BY <2>1, <2>2
<1>3. QED
  BY <1>1, <1>2, PTL DEF Spec

-----------------------------------------------------------------------------
(* The free slots of each table are one list from mq_last_free_msg to -1,   *)
(* whatever is requested, received and released, in any order and number:   *)
(* __msgq_alloc_id never hands out a slot in use and loses none.            *)
THEOREM FreeListAlwaysSound ==
  ASSUME IsFiniteSet(Tasks) PROVE Spec => []FreeListSound
<1>1. MsgInv => FreeListSound
  <2> SUFFICES ASSUME MsgInv, NEW t \in Tasks
               PROVE  \E list \in SetToSeqs(FreeIds(t)) :
                        LET ends == Append(list, NoId) IN
                          /\ last_free[t] = ends[1]
                          /\ \A i \in DOMAIN list : pending[t][list[i]].next = ends[i + 1]
    BY DEF FreeListSound
  <2>1. OneList(pending[t], last_free[t])
    BY DEF MsgInv, FreeInv
  <2>2. FreeIds(t) = FreeOf(pending[t])
    BY DEF FreeIds, FreeOf
  <2>3. QED
    BY <2>1, <2>2, ListForm, MsgQueueAssumption
<1>2. Spec => []MsgInv
  BY MsgInvAlways, MsgQueueAssumption
<1>3. QED
  BY <1>1, <1>2, PTL

(* A body's object counts the messages that refer to it, in all queues and  *)
(* tables of all tasks: neither a release nor the exit of a sender frees a  *)
(* body that another task still refers to.                                  *)
THEOREM RefcountAlwaysExact ==
  ASSUME IsFiniteSet(Tasks) PROVE Spec => []RefcountExact
<1>1. MsgInv => RefcountExact
  <2> SUFFICES ASSUME MsgInv, NEW b \in Bodies PROVE body[b].count = Refs(b)
    BY DEF RefcountExact
  <2>1. body[b].count = QueueCount(incoming, b) + TableCount(pending, b)
    BY DEF MsgInv, CountInv
  <2>2. \A t \in Tasks : /\ InQueue(t, b) = Positions(incoming[t], b)
                        /\ InTable(t, b) = Slots(pending[t], b)
    BY DEF InQueue, InTable, Positions, Slots, Has
  <2>3. /\ UNION {{t} \X InQueue(t, b) : t \in Tasks}
             = Pairs([t \in Tasks |-> Positions(incoming[t], b)])
        /\ UNION {{t} \X InTable(t, b) : t \in Tasks}
             = Pairs([t \in Tasks |-> Slots(pending[t], b)])
    BY <2>2 DEF Pairs
  <2>4. QED
    BY <2>1, <2>3 DEF Refs, QueueCount, TableCount
<1>2. Spec => []MsgInv
  BY MsgInvAlways, MsgQueueAssumption
<1>3. QED
  BY <1>1, <1>2, PTL

-----------------------------------------------------------------------------
(* What a step may do to a queue.                                           *)

\* A task that waits asks for something.
WaitInv ==
  /\ alive \in [Tasks -> BOOLEAN]
  /\ pc \in [Tasks -> {"user", "window", "asleep", "retry"}]
  /\ call = [t \in Tasks |-> call[t]]
  /\ \A t \in Tasks : pc[t] # "user" => call[t].filter \in Filters

LEMMA WaitReceive ==
  ASSUME WaitInv, NEW t \in Tasks, NEW c, c.filter \in Filters, NEW nonblock, Receive(t, c, nonblock)
  PROVE  WaitInv'
<1>1. alive' = alive
  BY DEF Receive
<1>2. CASE UNCHANGED <<pc, call>>
  BY <1>1, <1>2 DEF WaitInv
<1>3. CASE \E waits \in BOOLEAN :
             /\ pc' = [pc EXCEPT ![t] = IF waits THEN "window" ELSE "user"]
             /\ call' = [call EXCEPT ![t] = IF waits THEN c ELSE NoCall]
  <2>1. PICK waits \in BOOLEAN :
             /\ pc' = [pc EXCEPT ![t] = IF waits THEN "window" ELSE "user"]
             /\ call' = [call EXCEPT ![t] = IF waits THEN c ELSE NoCall]
    BY <1>3
  <2>2. /\ pc' \in [Tasks -> {"user", "window", "asleep", "retry"}]
        /\ call' = [u \in Tasks |-> call'[u]]
    BY <2>1 DEF WaitInv
  <2>3. ASSUME NEW u \in Tasks, pc'[u] # "user" PROVE call'[u].filter \in Filters
    <3>1. CASE u = t
      <4>1. waits
        BY <2>1, <2>3, <3>1 DEF WaitInv
      <4>2. call'[u] = c
        BY <2>1, <3>1, <4>1 DEF WaitInv
      <4>3. QED
        BY <4>2
    <3>2. CASE u # t
      BY <2>1, <2>3, <3>2 DEF WaitInv
    <3>3. QED
      BY <3>1, <3>2
  <2>4. QED
    BY <1>1, <2>2, <2>3 DEF WaitInv
<1>4. QED
  BY <1>2, <1>3 DEF Receive

LEMMA WaitStep ==
  ASSUME MsgQueueAssumption, WaitInv, NEW t \in Tasks, Step(t)
  PROVE  WaitInv'
<1>1. CASE UNCHANGED <<alive, pc, call>>
  BY <1>1 DEF WaitInv
<1>2. CASE \E u \in Tasks : Signal(u) /\ UNCHANGED <<alive, call>>
  <2>1. PICK u \in Tasks : Signal(u) /\ UNCHANGED <<alive, call>>
    BY <1>2
  <2>2. /\ pc' \in [Tasks -> {"user", "window", "asleep", "retry"}]
        /\ \A v \in Tasks : pc'[v] # "user" => pc[v] # "user"
    BY <2>1 DEF Signal, WaitInv
  <2>3. QED
    BY <2>1, <2>2 DEF WaitInv
<1>3. CASE Recv(t)
  <2>1. PICK f \in Filters, read \in BOOLEAN, nonblock \in BOOLEAN :
          Receive(t, [filter |-> f, read |-> read], nonblock)
    BY <1>3 DEF Recv
  <2>2. [filter |-> f, read |-> read].filter \in Filters
    OBVIOUS
  <2>3. QED
    BY <2>1, <2>2, WaitReceive
<1>4. CASE RecvAgain(t)
  <2>1. call[t].filter \in Filters /\ Receive(t, call[t], FALSE)
    BY <1>4 DEF RecvAgain, WaitInv
  <2>2. QED
    BY <2>1, WaitReceive
<1>5. CASE EventWait(t)
  BY <1>5 DEF EventWait, WaitInv, queueVars
<1>6. CASE Exit(t) \/ Spawn(t)
  BY <1>6 DEF Exit, Spawn, WaitInv
<1>7. SysMsgRequest(t) => UNCHANGED <<alive, pc, call>>
  BY DEF SysMsgRequest, Request, RequestFails, queueVars
<1>8. (SysMsgUnmap(t) \/ SysMsgMap(t)) => UNCHANGED <<alive, pc, call>>
  BY DEF SysMsgUnmap, SysMsgMap, Unmap, Map
<1>9. (SysMsgRelease(t) \/ SysMsgWriteMicro(t)) => UNCHANGED <<alive, pc, call>>
  BY DEF SysMsgRelease, SysMsgWriteMicro, Release, WriteMicro, queueVars
<1>10. SysMsgSend(t) => \E u \in Tasks : Signal(u) /\ UNCHANGED <<alive, call>>
  BY DEF SysMsgSend, Send, Deliver, MsgQueueAssumption
<1>11. (\E u \in Recipients, b \in Bodies, h \in Headers : Write(t, u, b, h))
         => \E u \in Tasks : Signal(u) /\ UNCHANGED <<alive, call>>
  BY DEF Write, Deliver, MsgQueueAssumption
<1>12. QED
  BY <1>1, <1>2, <1>3, <1>4, <1>5, <1>6, <1>7, <1>8, <1>9, <1>10, <1>11 DEF Step

\* The messages a receive may stop at are taken in their order.
First(t, f) ==
  /\ Matches(t, f) # {}
  /\ incoming' = [incoming EXCEPT ![t] = RemoveAt(@, Earliest(Matches(t, f)))]
Queued(t) ==
  \/ UNCHANGED incoming
  \/ \E u \in Tasks, b \in Bodies : Deliver(u, b)
  \/ \E f \in Filters : First(t, f)
  \/ incoming' = [incoming EXCEPT ![t] = <<>>] /\ ~alive'[t]

LEMMA QueueStep ==
  ASSUME MsgQueueAssumption, TablesOK, WaitInv, NEW t \in Tasks, Step(t)
  PROVE  Queued(t)
<1>1. ASSUME NEW c, c.filter \in Filters, NEW nonblock, Receive(t, c, nonblock) PROVE Queued(t)
  BY <1>1 DEF Receive, TakeFirst, Queued, First
<1>2. CASE Recv(t)
  <2>1. PICK f \in Filters, read \in BOOLEAN, nonblock \in BOOLEAN :
          Receive(t, [filter |-> f, read |-> read], nonblock)
    BY <1>2 DEF Recv
  <2>2. [filter |-> f, read |-> read].filter \in Filters
    OBVIOUS
  <2>3. QED
    BY <1>1, <2>1, <2>2
<1>3. CASE RecvAgain(t)
  <2>1. call[t].filter \in Filters /\ Receive(t, call[t], FALSE)
    BY <1>3 DEF RecvAgain, WaitInv
  <2>2. QED
    BY <1>1, <2>1
<1>4. CASE Exit(t)
  BY <1>4 DEF Exit, Queued, WaitInv
<1>5. CASE SysMsgSend(t)
  <2>1. PICK id \in Ids, u \in Recipients : Send(t, id, u)
    BY <1>5 DEF SysMsgSend
  <2>2. Has(t, id) /\ Deliver(u, pending[t][id].body) /\ u \in Tasks
    BY <2>1 DEF Send, MsgQueueAssumption
  <2>3. pending[t][id].body \in Bodies
    BY <2>2, SlotKinds DEF TablesOK, Has, Kept
  <2>4. QED
    BY <2>2, <2>3 DEF Queued
<1>6. CASE \E u \in Recipients, b \in Bodies, h \in Headers : Write(t, u, b, h)
  BY <1>6 DEF Write, Queued, MsgQueueAssumption
<1>7. SysMsgRequest(t) => UNCHANGED incoming
  BY DEF SysMsgRequest, Request, RequestFails, queueVars
<1>8. (SysMsgUnmap(t) \/ SysMsgMap(t)) => UNCHANGED incoming
  BY DEF SysMsgUnmap, SysMsgMap, Unmap, Map
<1>9. (SysMsgRelease(t) \/ SysMsgWriteMicro(t)) => UNCHANGED incoming
  BY DEF SysMsgRelease, SysMsgWriteMicro, Release, WriteMicro, queueVars
<1>10. (EventWait(t) \/ Spawn(t)) => UNCHANGED incoming
  BY DEF EventWait, Spawn, queueVars
<1>11. UNCHANGED incoming => Queued(t)
  BY DEF Queued
<1>12. QED
  BY <1>2, <1>3, <1>4, <1>5, <1>6, <1>7, <1>8, <1>9, <1>10, <1>11 DEF Step

\* A queue that is longer has been delivered to.
LEMMA Longer ==
  ASSUME QueuesOK, NEW s \in Tasks, Queued(s), NEW t \in Tasks,
         Len(incoming[t]) < Len(incoming'[t])
  PROVE  \E b \in Bodies : Deliver(t, b)
<1>1. incoming \in [Tasks -> Seq(Message)] /\ Len(incoming[t]) \in Nat
  BY DEF QueuesOK
<1>2. CASE \E u \in Tasks, b \in Bodies : Deliver(u, b)
  <2>1. PICK u \in Tasks, b \in Bodies : Deliver(u, b)
    BY <1>2
  <2>2. CASE u = t
    BY <2>1, <2>2
  <2>3. CASE u # t
    <3>1. incoming'[t] = incoming[t]
      BY <1>1, <2>1, <2>3 DEF Deliver
    <3>2. QED
      BY <1>1, <3>1
  <2>4. QED
    BY <2>2, <2>3
<1>3. CASE \E f \in Filters : First(s, f)
  <2>1. PICK f \in Filters : First(s, f)
    BY <1>3
  <2> DEFINE i == Earliest(Matches(s, f))
  <2>2. CASE s = t
    <3>1. incoming[s] \in Seq(Message)
      BY <1>1
    <3>2. Matches(s, f) \in SUBSET (1..Len(incoming[s])) /\ Len(incoming[s]) \in Nat
      BY <3>1 DEF Matches
    <3>3. Matches(s, f) \in SUBSET Nat /\ Matches(s, f) # {}
      BY <2>1, <3>2 DEF First
    <3>4. i \in 1..Len(incoming[s])
      BY <3>2, <3>3, Least
    <3>5. incoming'[s] = RemoveAt(incoming[s], i)
      BY <1>1, <2>1 DEF First
    <3> HIDE DEF i
    <3>6. Len(RemoveAt(incoming[s], i)) = Len(incoming[s]) - 1
      BY <3>1, <3>4, Removed
    <3>7. QED
      BY <1>1, <2>2, <3>5, <3>6
  <2>3. CASE s # t
    <3>1. incoming'[t] = incoming[t]
      BY <1>1, <2>1, <2>3 DEF First
    <3>2. QED
      BY <1>1, <3>1
  <2>4. QED
    BY <2>2, <2>3
<1>4. CASE incoming' = [incoming EXCEPT ![s] = <<>>]
  <2>1. incoming'[t] = <<>> \/ incoming'[t] = incoming[t]
    BY <1>1, <1>4
  <2>2. QED
    BY <1>1, <2>1
<1>5. CASE UNCHANGED incoming
  BY <1>1, <1>5
<1>6. QED
  BY <1>2, <1>3, <1>4, <1>5 DEF Queued

\* A queue that is shorter has lost the first message its task would stop at.
LEMMA Shorter ==
  ASSUME QueuesOK, NEW s \in Tasks, Queued(s), NEW t \in Tasks,
         Len(incoming'[t]) < Len(incoming[t]), alive'[t]
  PROVE  \E i \in DOMAIN incoming[t], f \in Filters :
           /\ incoming'[t] = RemoveAt(incoming[t], i)
           /\ \A j \in 1..(i - 1) : j \in DOMAIN incoming[t] /\ ~Stops(incoming[t][j], f)
<1>1. incoming \in [Tasks -> Seq(Message)] /\ Len(incoming[t]) \in Nat
  BY DEF QueuesOK
<1>2. CASE \E u \in Tasks, b \in Bodies : Deliver(u, b)
  <2>1. PICK u \in Tasks, b \in Bodies : Deliver(u, b)
    BY <1>2
  <2>2. CASE u = t
    <3>1. incoming'[t] = Append(incoming[t], NewReference(b))
      BY <1>1, <2>1, <2>2 DEF Deliver
    <3>2. NewReference(b) \in Message
      BY DEF NewReference, NewMessage, Message, NoVirt
    <3>3. Len(Append(incoming[t], NewReference(b))) = Len(incoming[t]) + 1
      BY <1>1, <3>2, AppendProperties
    <3>4. QED
      BY <1>1, <3>1, <3>3
  <2>3. CASE u # t
    <3>1. incoming'[t] = incoming[t]
      BY <1>1, <2>1, <2>3 DEF Deliver
    <3>2. QED
      BY <1>1, <3>1
  <2>4. QED
    BY <2>2, <2>3
<1>3. CASE \E f \in Filters : First(s, f)
  <2>1. PICK f \in Filters : First(s, f)
    BY <1>3
  <2> DEFINE i == Earliest(Matches(s, f))
  <2>2. CASE s = t
    <3>1. incoming[s] \in Seq(Message)
      BY <1>1
    <3>2. /\ Matches(s, f) \in SUBSET (1..Len(incoming[s])) /\ Len(incoming[s]) \in Nat
          /\ DOMAIN incoming[s] = 1..Len(incoming[s])
      BY <3>1 DEF Matches
    <3>3. Matches(s, f) \in SUBSET Nat /\ Matches(s, f) # {}
      BY <2>1, <3>2 DEF First
    <3>4. i \in Matches(s, f) /\ \A n \in Matches(s, f) : i <= n
      BY <3>3, Least
    <3>5. incoming'[s] = RemoveAt(incoming[s], i)
      BY <1>1, <2>1 DEF First
    <3> HIDE DEF i
    <3>6. i \in 1..Len(incoming[s])
      BY <3>2, <3>4
    <3>7. ASSUME NEW j \in 1..(i - 1)
          PROVE  j \in DOMAIN incoming[s] /\ ~Stops(incoming[s][j], f)
      <4>1. j \in DOMAIN incoming[s] /\ ~(i <= j)
        BY <3>2, <3>6
      <4>2. j \notin Matches(s, f)
        BY <3>4, <4>1
      <4>3. QED
        BY <4>1, <4>2 DEF Matches
    <3>8. QED
      BY <2>2, <3>2, <3>5, <3>6, <3>7
  <2>3. CASE s # t
    <3>1. incoming'[t] = incoming[t]
      BY <1>1, <2>1, <2>3 DEF First
    <3>2. QED
      BY <1>1, <3>1
  <2>4. QED
    BY <2>2, <2>3
<1>4. CASE incoming' = [incoming EXCEPT ![s] = <<>>] /\ ~alive'[s]
  <2>1. s # t
    BY <1>4
  <2>2. incoming'[t] = incoming[t]
    BY <1>1, <1>4, <2>1
  <2>3. QED
    BY <1>1, <2>2
<1>5. CASE UNCHANGED incoming
  BY <1>1, <1>5
<1>6. QED
  BY <1>2, <1>3, <1>4, <1>5 DEF Queued

LEMMA WaitInvAlways ==
  ASSUME MsgQueueAssumption PROVE Spec => []WaitInv
<1>1. Init => WaitInv
  BY DEF Init, WaitInv
<1>2. WaitInv /\ [Next]_vars => WaitInv'
  <2> SUFFICES ASSUME WaitInv, [Next]_vars PROVE WaitInv'
    OBVIOUS
  <2>1. CASE Next
    BY <2>1, WaitStep DEF Next
  <2>2. CASE UNCHANGED vars
    BY <2>2 DEF vars, queueVars, WaitInv
  <2>3. QED
    BY <2>1, <2>2
<1>3. QED
  BY <1>1, <1>2, PTL DEF Spec

(* Whoever sends a message to a task that sleeps for one wakes it, in the   *)
(* step that queues it.                                                     *)
THEOREM SendAlwaysWakes ==
  ASSUME IsFiniteSet(Tasks) PROVE Spec => SendWakes
<1> DEFINE Wakes == \A t \in Tasks :
             pc[t] = "asleep" /\ Len(incoming[t]) < Len(incoming'[t]) => pc'[t] # "asleep"
<1>1. MsgInv /\ WaitInv /\ [Next]_vars => [Wakes]_vars
  <2> SUFFICES ASSUME MsgInv, WaitInv, Next, NEW t \in Tasks,
                      pc[t] = "asleep", Len(incoming[t]) < Len(incoming'[t])
               PROVE  pc'[t] # "asleep"
    OBVIOUS
  <2>1. PICK s \in Tasks : Step(s)
    BY DEF Next
  <2>2. QueuesOK /\ TablesOK
    BY DEF MsgInv, TypeInv
  <2>3. Queued(s)
    BY <2>1, <2>2, QueueStep, MsgQueueAssumption
  <2>4. PICK b \in Bodies : Deliver(t, b)
    BY <2>2, <2>3, Longer
  <2>5. QED
    BY <2>4 DEF Deliver, Signal, WaitInv
<1>2. Spec => []MsgInv /\ []WaitInv
  BY MsgInvAlways, WaitInvAlways, MsgQueueAssumption
<1>3. QED
  BY <1>1, <1>2, PTL DEF Spec, SendWakes

(* Messages leave a queue in their order, but for those that the receiver   *)
(* asked to pass over by type and link together.                            *)
THEOREM AlwaysInOrder ==
  ASSUME IsFiniteSet(Tasks) PROVE Spec => InOrder
<1> DEFINE Ordered == \A t \in Tasks :
             Len(incoming'[t]) < Len(incoming[t]) /\ alive'[t] =>
               \E i \in DOMAIN incoming[t], f \in Filters :
                 /\ incoming'[t] = RemoveAt(incoming[t], i)
                 /\ \A j \in 1..(i - 1) :
                      LET h == body[incoming[t][j].body].header IN
                        /\ f.type \notin {Wildcard, h.type}
                        /\ f.link \notin {Wildcard, h.link}
<1>1. MsgInv /\ WaitInv /\ [Next]_vars => [Ordered]_vars
  <2> SUFFICES ASSUME MsgInv, WaitInv, Next, NEW t \in Tasks,
                      Len(incoming'[t]) < Len(incoming[t]), alive'[t]
               PROVE  \E i \in DOMAIN incoming[t], f \in Filters :
                        /\ incoming'[t] = RemoveAt(incoming[t], i)
                        /\ \A j \in 1..(i - 1) :
                             LET h == body[incoming[t][j].body].header IN
                               /\ f.type \notin {Wildcard, h.type}
                               /\ f.link \notin {Wildcard, h.link}
    OBVIOUS
  <2>1. PICK s \in Tasks : Step(s)
    BY DEF Next
  <2>2. QueuesOK /\ TablesOK
    BY DEF MsgInv, TypeInv
  <2>3. Queued(s)
    BY <2>1, <2>2, QueueStep, MsgQueueAssumption
  <2>4. PICK i \in DOMAIN incoming[t], f \in Filters :
           /\ incoming'[t] = RemoveAt(incoming[t], i)
           /\ \A j \in 1..(i - 1) : j \in DOMAIN incoming[t] /\ ~Stops(incoming[t][j], f)
    BY <2>2, <2>3, Shorter
  <2>5. ASSUME NEW j \in 1..(i - 1)
        PROVE  LET h == body[incoming[t][j].body].header IN
                 /\ f.type \notin {Wildcard, h.type}
                 /\ f.link \notin {Wildcard, h.link}
    BY <2>4 DEF Stops
  <2>6. QED
    BY <2>4, <2>5
<1>2. Spec => []MsgInv /\ []WaitInv
  BY MsgInvAlways, WaitInvAlways, MsgQueueAssumption
<1>3. QED
  BY <1>1, <1>2, PTL DEF Spec, InOrder
=============================================================================
