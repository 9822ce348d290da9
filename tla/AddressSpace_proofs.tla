------------------------ MODULE AddressSpace_proofs ------------------------
EXTENDS AddressSpace, SequenceTheorems, FiniteSetTheorems, WellFoundedInduction, TLAPS

-----------------------------------------------------------------------------
(* The shape of the state while a call computes on it.                      *)

Fields == {"free", "mem", "ret", "failure", "new", "words", "space", "exec"}
SpaceFields == {"phase", "unmapped", "base", "top", "regions", "dir", "tables", "entry"}
RegionFields == {"start", "end", "type", "ops", "role", "phys", "pages"}
TableIndices == 0 .. (Pages - 1) \div PagesPerTable

SpaceShape(sp) == DOMAIN sp = SpaceFields /\ DOMAIN sp.tables = TableIndices
Shape(x) ==
  /\ DOMAIN x = Fields /\ x.ret \in {0, -1}
  /\ DOMAIN x.space = AllSpaces
  /\ \A s \in AllSpaces : SpaceShape(x.space[s])

-----------------------------------------------------------------------------
(* The ledger of pages.                                                     *)

\* Who has which page: its kind, two numbers that tell its owner, the page
DirOwn(sp) == IF sp.dir = 0 THEN {} ELSE {<<"dir", 0, 0, sp.dir>>}
TablesIn(sp) == {g \in DOMAIN sp.tables : sp.tables[g] # 0}
TableOwn(sp) == {<<"table", g, 0, sp.tables[g]>> : g \in TablesIn(sp)}
Anonymous(R) == {b \in DOMAIN R : R[b].ops = "anon"}
PagesHeld(b, r) == {<<"page", b, o, r.pages[o].phys>> : o \in DOMAIN r.pages}
PageOwn(R) == UNION {PagesHeld(b, R[b]) : b \in Anonymous(R)}
Own(sp) == DirOwn(sp) \cup TableOwn(sp) \cup PageOwn(sp.regions)
Holdings(x) == [s \in AllSpaces |-> Own(x.space[s])]

\* Every page is free, pending, or held by one space for one purpose.
Ledger(free, P, own) ==
  /\ free \subseteq Frames /\ P \subseteq Frames /\ free \cap P = {}
  /\ \A s \in AllSpaces : \A e \in own[s] : e[4] \in Frames /\ e[4] \notin free /\ e[4] \notin P
  /\ \A s, t \in AllSpaces : \A e \in own[s], d \in own[t] : e[4] = d[4] => s = t /\ e = d
  /\ \A f \in Frames : f \in free \/ f \in P \/ \E s \in AllSpaces : \E e \in own[s] : e[4] = f

Booked(x) == (x.failure = "none" /\ SegmentsFit) => Ledger(x.free, {}, Holdings(x))

-----------------------------------------------------------------------------
(* What a region is, what the regions of a space are.                       *)

RegionShape(r) ==
  /\ DOMAIN r = RegionFields
  /\ r.start \in Starts /\ r.end \in Word /\ (r.end + 1) % PageSize = 0
  /\ r.role = "DATASEG" => r.ops = "anon"

Disjoint(R) ==
  /\ DOMAIN R \subseteq Starts
  /\ \A b \in DOMAIN R : RegionShape(R[b]) /\ R[b].start = b
  /\ \A a, b \in DOMAIN R : a < b => R[a].end < R[b].start

\* r has n pages, none beyond the end of the address space.
HasPages(r, n) ==
  /\ DOMAIN r.pages = 0 .. n - 1 /\ n < Pages
  /\ r.start + n * PageSize <= Width /\ r.end = At(r.start + n * PageSize - 1)

\* What r maps lies between its start and its end.
Within(r) ==
  IF r.type = "RANGEMAP" THEN r.start <= r.end /\ r.end - r.start + 1 < Width /\ r.phys \in Int
  ELSE \A o \in DOMAIN r.pages : o \in Nat /\ r.start + o * PageSize <= r.end

Sized(r) ==
  IF r.ops = "anon" THEN r.type = "PAGEMAP" /\ \E n \in Nat : HasPages(r, n)
  ELSE /\ Within(r)
       /\ r.type = "PAGEMAP" /\ ~Persistent(r) => \A o \in DOMAIN r.pages : r.pages[o].phys \in Foreign

-----------------------------------------------------------------------------
(* What the page tables of a space say.                                     *)

PageNumber == 0 .. Pages - 1
Offset(r, p) == p - r.start \div PageSize
Backs(r, p) ==
  /\ r.start <= p * PageSize /\ p * PageSize <= r.end
  /\ r.type = "RANGEMAP" \/ Offset(r, p) \in DOMAIN r.pages
Wanted(r, p) ==
  IF r.type = "RANGEMAP" THEN [phys |-> r.phys + Offset(r, p), present |-> TRUE] ELSE r.pages[Offset(r, p)]

Agrees(sp) ==
  /\ DOMAIN sp.entry = PageNumber
  /\ \A p \in PageNumber, b \in DOMAIN sp.regions : Backs(sp.regions[b], p) =>
       sp.entry[p] = Wanted(sp.regions[b], p) /\ sp.tables[p \div PagesPerTable] # 0
  /\ \A p \in PageNumber : (\A b \in DOMAIN sp.regions : ~Backs(sp.regions[b], p)) => sp.entry[p] = NoEntry
Tabled(sp) == ~sp.unmapped => Agrees(sp)

Sound(x) ==
  /\ Shape(x) /\ Booked(x)
  /\ x.failure = "none" => \A s \in AllSpaces : Disjoint(x.space[s].regions)
  /\ (x.failure = "none" /\ SegmentsFit) =>
       \A s \in AllSpaces : \A b \in DOMAIN x.space[s].regions : Sized(x.space[s].regions[b])

\* What work on the page tables of s and contents of pages leaves alone.
Keeps(s, x, y) ==
  /\ Shape(y) /\ (y.failure = "none" => x.failure = "none") /\ y.new = x.new
  /\ \A t \in AllSpaces \ {s} : y.space[t] = x.space[t]
  /\ y.space[s].phase = x.space[s].phase /\ y.space[s].regions = x.space[s].regions
  /\ x.space[s].dir # 0 => y.space[s].dir = x.space[s].dir
  /\ x.space[s].unmapped => y.space[s].unmapped
  /\ Booked(x) => Booked(y)

\* What building s leaves alone: the other spaces and the regions s has, but
\* for those that have no address.
Grows(s, x, y) ==
  /\ Sound(y)
  /\ y.failure = "none" =>
       /\ x.failure = "none"
       /\ \A t \in AllSpaces \ {s} : y.space[t] = x.space[t]
       /\ y.space[s].phase = x.space[s].phase
       /\ x.space[s].dir # 0 => y.space[s].dir # 0
       /\ \A b \in DOMAIN x.space[s].regions : x.space[s].regions[b].start <= x.space[s].regions[b].end =>
            b \in DOMAIN y.space[s].regions /\ y.space[s].regions[b] = x.space[s].regions[b]
       /\ SegmentsFit /\ Tabled(x.space[s]) => Tabled(y.space[s])

LEMMA KeepsRefl ==
  ASSUME NEW s, NEW x, Shape(x)
  PROVE  Keeps(s, x, x)
BY DEF Keeps

LEMMA KeepsTrans ==
  ASSUME NEW s, NEW x, NEW y, NEW z, Keeps(s, x, y), Keeps(s, y, z)
  PROVE  Keeps(s, x, z)
BY DEF Keeps

LEMMA GrowsRefl ==
  ASSUME NEW s, NEW x, Sound(x)
  PROVE  Grows(s, x, x)
BY DEF Grows

LEMMA GrowsTrans ==
  ASSUME NEW s, NEW x, NEW y, NEW z, Grows(s, x, y), Grows(s, y, z)
  PROVE  Grows(s, x, z)
BY DEF Grows

LEMMA KeepsSound ==
  ASSUME NEW s \in AllSpaces, NEW x, NEW y, Sound(x), Keeps(s, x, y)
  PROVE  Sound(y)
<1>1. \A t \in AllSpaces : y.space[t].regions = x.space[t].regions
  BY DEF Keeps
<1>2. QED
  BY <1>1 DEF Sound, Keeps

-----------------------------------------------------------------------------
LEMMA Least ==
  ASSUME NEW S \in SUBSET Nat, S # {}
  PROVE  \E m \in S : \A n \in S : m <= n
<1> DEFINE R == OpToRel(<, Nat)
<1>1. \E m \in S : \A n \in S : <<n, m>> \notin R
  <2>1. IsWellFoundedOn(R, Nat)
    BY NatLessThanWellFounded, Zenon
  <2> HIDE DEF R
  <2> QED
    BY <2>1, WFMin
<1>2. ASSUME NEW n \in S, NEW m \in S, n < m PROVE <<n, m>> \in R
  BY <1>2 DEF OpToRel
<1> HIDE DEF R
<1>3. PICK m \in S : \A n \in S : <<n, m>> \notin R
  BY <1>1
<1>4. \A n \in S : ~(n < m)
  BY <1>2, <1>3
<1>5. \A n \in S : m <= n
  BY <1>4
<1>6. QED
  BY <1>5

\* The numbers up to n have what each has after the one before it.
LEMMA UpTo ==
  ASSUME NEW n \in Nat, NEW S, 0 \in S, \A i \in 1 .. n : i - 1 \in S => i \in S
  PROVE  \A i \in 0 .. n : i \in S
<1> DEFINE B == {i \in 0 .. n : i \notin S}
<1> SUFFICES ASSUME B # {} PROVE FALSE
  OBVIOUS
<1>1. B \in SUBSET Nat
  OBVIOUS
<1>2. PICK m \in B : \A i \in B : m <= i
  BY <1>1, Least
<1>3. m # 0 /\ m \in 1 .. n /\ m - 1 \in 0 .. n /\ ~(m <= m - 1)
  OBVIOUS
<1>4. m - 1 \in S
  BY <1>2, <1>3
<1> QED
  BY <1>3, <1>4

LEMMA FirstFreeIs ==
  ASSUME NEW x, x.free \subseteq Frames, x.free # {}
  PROVE  FirstFree(x) \in x.free /\ FirstFree(x) # 0
<1>1. x.free \in SUBSET Nat /\ 0 \notin x.free
  BY MachineAssumption
<1>2. \E f \in x.free : \A g \in x.free : f <= g
  BY <1>1, Least
<1>3. QED
  BY <1>1, <1>2 DEF FirstFree

LEMMA LedgerTaken ==
  ASSUME NEW free, NEW P, NEW own, Ledger(free, P, own), NEW s \in AllSpaces, NEW f \in free, NEW e, e[4] = f,
         NEW own2, own2[s] = own[s] \cup {e}, \A t \in AllSpaces : t # s => own2[t] = own[t]
  PROVE  Ledger(free \ {f}, P, own2)
<1>1. \A t \in AllSpaces : \A d \in own2[t] : d \in own[t] \/ (t = s /\ d = e)
  OBVIOUS
<1>2. \A t \in AllSpaces : \A d \in own[t] : d \in own2[t]
  OBVIOUS
<1>3. \A t \in AllSpaces : \A d \in own[t] : d[4] # e[4]
  BY DEF Ledger
<1>4. e \in own2[s]
  OBVIOUS
<1>5. \A t, u \in AllSpaces : \A c \in own2[t], d \in own2[u] : c[4] = d[4] => t = u /\ c = d
  BY <1>1, <1>3 DEF Ledger
<1>6. \A g \in Frames : g \in free \ {f} \/ g \in P \/ \E t \in AllSpaces : \E d \in own2[t] : d[4] = g
  BY <1>2, <1>4 DEF Ledger
<1>7. QED
  BY <1>1, <1>3, <1>5, <1>6 DEF Ledger

LEMMA TableOwnMore ==
  ASSUME NEW sp, NEW sq, NEW g \in DOMAIN sp.tables, sp.tables[g] = 0, NEW f, f # 0,
         sq.tables = [sp.tables EXCEPT ![g] = f]
  PROVE  TableOwn(sq) = TableOwn(sp) \cup {<<"table", g, 0, f>>}
<1>1. TablesIn(sq) = TablesIn(sp) \cup {g}
  BY DEF TablesIn
<1>2. sq.tables[g] = f /\ \A h \in TablesIn(sp) : sq.tables[h] = sp.tables[h]
  BY DEF TablesIn
<1>3. QED
  BY <1>1, <1>2 DEF TableOwn

LEMMA PrepareTableKeeps ==
  ASSUME NEW s \in AllSpaces, NEW x, Shape(x), NEW page \in 0 .. Pages - 1
  PROVE  Keeps(s, x, PrepareTable(x, s, page))
<1> DEFINE y == PrepareTable(x, s, page)
           g == page \div PagesPerTable
<1>1. g \in TableIndices
  BY MachineAssumption DEF TableIndices
<1>2. CASE x.space[s].tables[g] # 0
  BY <1>2 DEF PrepareTable, Keeps
<1>3. CASE x.space[s].tables[g] = 0 /\ x.free = {}
  <2>1. y = [x EXCEPT !.ret = -1]
    BY <1>3 DEF PrepareTable
  <2> HIDE DEF y
  <2>2. Shape(y) /\ y.free = x.free /\ y.space = x.space /\ y.failure = x.failure /\ y.new = x.new
    BY <2>1 DEF Shape, Fields
  <2>3. Keeps(s, x, y)
    BY <2>2 DEF Keeps, Booked, Holdings
  <2>4. QED
    BY <2>3 DEF y
<1>4. CASE x.space[s].tables[g] = 0 /\ x.free # {}
  <2> DEFINE f == FirstFree(x)
  <2>1. y = [x EXCEPT !.space[s].tables[g] = f, !.free = @ \ {f}]
    BY <1>4 DEF PrepareTable
  <2> HIDE DEF y, f
  <2>2. Shape(y) /\ y.failure = x.failure /\ y.new = x.new
    BY <2>1, <1>1 DEF Shape, SpaceShape, Fields, SpaceFields
  <2>3. /\ y.space[s].tables = [x.space[s].tables EXCEPT ![g] = f]
        /\ y.space[s].dir = x.space[s].dir /\ y.space[s].regions = x.space[s].regions
        /\ y.space[s].phase = x.space[s].phase
        /\ y.space[s].unmapped = x.space[s].unmapped
        /\ \A t \in AllSpaces : t # s => y.space[t] = x.space[t]
        /\ y.free = x.free \ {f}
    BY <2>1, <1>1 DEF Shape, SpaceShape, Fields, SpaceFields
  <2>4. ASSUME Booked(x) PROVE Booked(y)
    <3> SUFFICES ASSUME x.failure = "none", SegmentsFit PROVE Ledger(y.free, {}, Holdings(y))
      BY <2>2 DEF Booked
    <3>1. Ledger(x.free, {}, Holdings(x))
      BY <2>4 DEF Booked
    <3>2. f \in x.free /\ f # 0
      BY <1>4, <3>1, FirstFreeIs DEF Ledger, f
    <3> DEFINE e == <<"table", g, 0, f>>
    <3>3. TableOwn(y.space[s]) = TableOwn(x.space[s]) \cup {e}
      <4> DEFINE sp == x.space[s]
                 sq == y.space[s]
      <4>1. g \in DOMAIN sp.tables /\ sp.tables[g] = 0 /\ sq.tables = [sp.tables EXCEPT ![g] = f]
        BY <1>1, <1>4, <2>3 DEF Shape, SpaceShape
      <4> HIDE DEF sp, sq, g
      <4>2. TableOwn(sq) = TableOwn(sp) \cup {<<"table", g, 0, f>>}
        BY <3>2, <4>1, TableOwnMore
      <4>3. QED
        BY <4>2 DEF sp, sq
    <3>4. Own(y.space[s]) = Own(x.space[s]) \cup {e}
      BY <2>3, <3>3 DEF Own, DirOwn
    <3> DEFINE own == Holdings(x)
               own2 == Holdings(y)
               free == x.free
    <3>5. own2[s] = own[s] \cup {e} /\ \A t \in AllSpaces : t # s => own2[t] = own[t]
      BY <2>3, <3>4 DEF Holdings
    <3>6. e[4] = f /\ f \in free /\ Ledger(free, {}, own)
      BY <3>1, <3>2
    <3> HIDE DEF e, own, own2, free
    <3>7. Ledger(free \ {f}, {}, own2)
      BY <3>5, <3>6, LedgerTaken
    <3>8. QED
      BY <2>3, <3>7 DEF own2, free
  <2>5. Keeps(s, x, y)
    BY <2>2, <2>3, <2>4 DEF Keeps
  <2>6. QED
    BY <2>5 DEF y
<1>5. QED
  BY <1>2, <1>3, <1>4

-----------------------------------------------------------------------------
(* Loops.                                                                   *)

\* What a loop over e does to x, each named and with what it depends on.
StepOf(tag, x, e) ==
  CASE tag[1] = "entries" -> MapEntry(x, tag[2], (tag[3] + e - 1) % Pages, tag[4][e])
    [] tag[1] = "pages" -> MapIn(x, tag[2], tag[3], e)
    [] tag[1] = "alloc" -> AllocPage(x, e)
    [] tag[1] = "image" -> MapRequired(x, tag[2], e, e.phys)
    [] tag[1] = "io" -> MapIoRange(x, tag[2], e)
    [] tag[1] = "memory" -> MapMemory(x, e)
    [] tag[1] = "destroy" -> DestroyAt(x, tag[2], e)
    [] tag[1] = "copy" -> CopyPage(x, tag[2], tag[3], tag[4], e)
    [] tag[1] = "headers" -> LoadHeader(x, tag[2], tag[3], e)
    [] tag[1] = "relocations" -> Relocate1(x, tag[2], tag[3], e)

TurnOf(tag, x, e) == IF Going(x) THEN StepOf(tag, x, e) ELSE x

RunFrom(f, tag, x, seq, n) ==
  f = [i \in 0 .. n |-> IF i = 0 THEN x ELSE TurnOf(tag, f[i - 1], seq[i])]

LEMMA RunExists ==
  ASSUME NEW tag, NEW x, NEW seq, NEW n \in Nat
  PROVE  \E f : RunFrom(f, tag, x, seq, n)
<1> DEFINE S == {i \in Nat : \E f : RunFrom(f, tag, x, seq, i)}
<1>1. 0 \in S
  <2> DEFINE g == [i \in 0 .. 0 |-> x]
  <2>1. RunFrom(g, tag, x, seq, 0)
    BY DEF RunFrom
  <2>2. QED
    BY <2>1
<1>2. ASSUME NEW m \in 1 .. n, m - 1 \in S PROVE m \in S
  <2>1. PICK f : RunFrom(f, tag, x, seq, m - 1)
    BY <1>2
  <2> DEFINE g == [i \in 0 .. m |-> IF i = m THEN TurnOf(tag, f[m - 1], seq[m]) ELSE f[i]]
  <2> HIDE DEF S
  <2>2. \A i \in 0 .. m - 1 : f[i] = IF i = 0 THEN x ELSE TurnOf(tag, f[i - 1], seq[i])
    BY <2>1 DEF RunFrom
  <2>3. \A i \in 0 .. m : g[i] = IF i = 0 THEN x ELSE TurnOf(tag, g[i - 1], seq[i])
    <3> SUFFICES ASSUME NEW i \in 0 .. m
                 PROVE  g[i] = IF i = 0 THEN x ELSE TurnOf(tag, g[i - 1], seq[i])
      OBVIOUS
    <3>1. i # 0 => i - 1 \in 0 .. m - 1 /\ i - 1 # m
      OBVIOUS
    <3>2. i # 0 => g[i - 1] = f[i - 1]
      BY <3>1
    <3>3. CASE i = m
      BY <3>2, <3>3
    <3>4. CASE i # m
      <4>1. i \in 0 .. m - 1
        BY <3>4
      <4>2. g[i] = f[i]
        BY <3>4
      <4>3. QED
        BY <4>1, <4>2, <2>2, <3>2
    <3>5. QED
      BY <3>3, <3>4
  <2>4. g = [i \in 0 .. m |-> g[i]]
    OBVIOUS
  <2> HIDE DEF g
  <2>5. RunFrom(g, tag, x, seq, m)
    BY <2>3, <2>4 DEF RunFrom
  <2>6. QED
    BY <2>5 DEF S
<1> HIDE DEF S
<1>3. n \in S
  <2>1. \A i \in 0 .. n : i \in S
    BY <1>1, <1>2, UpTo
  <2>2. QED
    BY <2>1
<1>4. QED
  BY <1>3 DEF S

\* The states a loop goes through.
Run(f, tag, x, seq) ==
  /\ f[0] = x
  /\ \A i \in 1 .. Len(seq) : f[i] = TurnOf(tag, f[i - 1], seq[i])

LEMMA MapRangeRun ==
  ASSUME NEW x, NEW s, NEW virt, NEW entries, NEW n \in Nat, DOMAIN entries = 1 .. n, NEW v, v = MapRange(x, s, virt, entries)
  PROVE  \E f, seq, tag, y :
           /\ Run(f, tag, y, seq) /\ v = f[n]
           /\ Len(seq) = n /\ \A i \in 1 .. n : seq[i] = i
           /\ tag = <<"entries", s, virt \div PageSize, entries>> /\ y = PrepareTable(x, s, virt \div PageSize)
<1> DEFINE seq == [i \in DOMAIN entries |-> i]
           tag == <<"entries", s, virt \div PageSize, entries>>
           y == PrepareTable(x, s, virt \div PageSize)
<1>1. Len(seq) \in Nat /\ Len(seq) = n
  OBVIOUS
<1>2. \A z, e : TurnOf(tag, z, e) = IF Going(z) THEN MapEntry(z, s, (virt \div PageSize + e - 1) % Pages, entries[e]) ELSE z
  BY DEF TurnOf, StepOf
<1> DEFINE f == CHOOSE f : f = [i \in 0 .. Len(seq) |-> IF i = 0 THEN y
                   ELSE IF Going(f[i - 1]) THEN MapEntry(f[i - 1], s, (virt \div PageSize + seq[i] - 1) % Pages, entries[seq[i]]) ELSE f[i - 1]]
<1>3. MapRange(x, s, virt, entries) = f[Len(seq)]
  BY DEF MapRange, Each, Turn
<1> HIDE DEF seq, y, tag
<1>4. PICK h : RunFrom(h, tag, y, seq, Len(seq))
  BY <1>1, RunExists
<1>5. h = [i \in 0 .. Len(seq) |-> IF i = 0 THEN y
                   ELSE IF Going(h[i - 1]) THEN MapEntry(h[i - 1], s, (virt \div PageSize + seq[i] - 1) % Pages, entries[seq[i]]) ELSE h[i - 1]]
  BY <1>1, <1>2, <1>4 DEF RunFrom
<1>6. f = [i \in 0 .. Len(seq) |-> IF i = 0 THEN y
                   ELSE IF Going(f[i - 1]) THEN MapEntry(f[i - 1], s, (virt \div PageSize + seq[i] - 1) % Pages, entries[seq[i]]) ELSE f[i - 1]]
  BY <1>5, Zenon
<1> HIDE DEF f
<1>7. \A i \in 1 .. Len(seq) : f[i] = TurnOf(tag, f[i - 1], seq[i])
  <2> SUFFICES ASSUME NEW i \in 1 .. Len(seq) PROVE f[i] = TurnOf(tag, f[i - 1], seq[i])
    OBVIOUS
  <2>1. i \in 0 .. Len(seq) /\ i # 0
    BY <1>1
  <2>2. QED
    BY <1>2, <1>6, <2>1
<1>8. f[0] = y
  BY <1>1, <1>6
<1>9. Run(f, tag, y, seq) /\ MapRange(x, s, virt, entries) = f[n]
  BY <1>1, <1>3, <1>7, <1>8 DEF Run
<1>10. Len(seq) = n /\ \A i \in 1 .. n : seq[i] = i
  BY <1>1 DEF seq
<1>11. QED
  BY <1>9, <1>10 DEF y, tag

LEMMA MapPagesRun ==
  ASSUME NEW x, NEW s, NEW r, NEW v, v = MapPages(x, s, r)
  PROVE  \E f, seq, tag, y :
           /\ Run(f, tag, y, seq) /\ v = f[Pages]
           /\ Len(seq) = Pages /\ \A i \in 1 .. Pages : seq[i] = i - 1
           /\ tag = <<"pages", s, r>> /\ y = x
<1> DEFINE seq == [i \in 1 .. Pages |-> i - 1]
           tag == <<"pages", s, r>>
           y == x
<1>1. Len(seq) \in Nat /\ Len(seq) = Pages
  BY MachineAssumption
<1>2. \A z, e : TurnOf(tag, z, e) = IF Going(z) THEN MapIn(z, s, r, e) ELSE z
  BY DEF TurnOf, StepOf
<1> DEFINE f == CHOOSE f : f = [i \in 0 .. Len(seq) |-> IF i = 0 THEN y
                   ELSE IF Going(f[i - 1]) THEN MapIn(f[i - 1], s, r, seq[i]) ELSE f[i - 1]]
<1>3. MapPages(x, s, r) = f[Len(seq)]
  BY DEF MapPages, Each, Turn
<1> HIDE DEF seq, y, tag
<1>4. PICK h : RunFrom(h, tag, y, seq, Len(seq))
  BY <1>1, RunExists
<1>5. h = [i \in 0 .. Len(seq) |-> IF i = 0 THEN y
                   ELSE IF Going(h[i - 1]) THEN MapIn(h[i - 1], s, r, seq[i]) ELSE h[i - 1]]
  BY <1>1, <1>2, <1>4 DEF RunFrom
<1>6. f = [i \in 0 .. Len(seq) |-> IF i = 0 THEN y
                   ELSE IF Going(f[i - 1]) THEN MapIn(f[i - 1], s, r, seq[i]) ELSE f[i - 1]]
  BY <1>5
<1> HIDE DEF f
<1>7. \A i \in 1 .. Len(seq) : f[i] = TurnOf(tag, f[i - 1], seq[i])
  <2> SUFFICES ASSUME NEW i \in 1 .. Len(seq) PROVE f[i] = TurnOf(tag, f[i - 1], seq[i])
    OBVIOUS
  <2>1. i \in 0 .. Len(seq) /\ i # 0
    BY <1>1
  <2>2. QED
    BY <1>2, <1>6, <2>1
<1>8. f[0] = y
  BY <1>1, <1>6
<1>9. Run(f, tag, y, seq) /\ MapPages(x, s, r) = f[Pages]
  BY <1>1, <1>3, <1>7, <1>8 DEF Run
<1>10. Len(seq) = Pages /\ \A i \in 1 .. Pages : seq[i] = i - 1
  BY <1>1 DEF seq
<1>11. QED
  BY <1>9, <1>10 DEF y, tag

LEMMA AllocColoredRun ==
  ASSUME NEW x, NEW from, NEW n \in Nat, NEW v, v = AllocColored(x, from, n)
  PROVE  \E f, seq, tag, y :
           /\ Run(f, tag, y, seq) /\ v = f[n]
           /\ Len(seq) = n /\ \A i \in 1 .. n : seq[i] = from + i - 1
           /\ tag = <<"alloc">> /\ y = x
<1> DEFINE seq == [i \in 1 .. n |-> from + i - 1]
           tag == <<"alloc">>
           y == x
<1>1. Len(seq) \in Nat /\ Len(seq) = n
  OBVIOUS
<1>2. \A z, e : TurnOf(tag, z, e) = IF Going(z) THEN AllocPage(z, e) ELSE z
  BY DEF TurnOf, StepOf
<1> DEFINE f == CHOOSE f : f = [i \in 0 .. Len(seq) |-> IF i = 0 THEN y
                   ELSE IF Going(f[i - 1]) THEN AllocPage(f[i - 1], seq[i]) ELSE f[i - 1]]
<1>3. AllocColored(x, from, n) = f[Len(seq)]
  BY DEF AllocColored, Each, Turn
<1> HIDE DEF seq, y, tag
<1>4. PICK h : RunFrom(h, tag, y, seq, Len(seq))
  BY <1>1, RunExists
<1>5. h = [i \in 0 .. Len(seq) |-> IF i = 0 THEN y
                   ELSE IF Going(h[i - 1]) THEN AllocPage(h[i - 1], seq[i]) ELSE h[i - 1]]
  BY <1>1, <1>2, <1>4 DEF RunFrom
<1>6. f = [i \in 0 .. Len(seq) |-> IF i = 0 THEN y
                   ELSE IF Going(f[i - 1]) THEN AllocPage(f[i - 1], seq[i]) ELSE f[i - 1]]
  BY <1>5
<1> HIDE DEF f
<1>7. \A i \in 1 .. Len(seq) : f[i] = TurnOf(tag, f[i - 1], seq[i])
  <2> SUFFICES ASSUME NEW i \in 1 .. Len(seq) PROVE f[i] = TurnOf(tag, f[i - 1], seq[i])
    OBVIOUS
  <2>1. i \in 0 .. Len(seq) /\ i # 0
    BY <1>1
  <2>2. QED
    BY <1>2, <1>6, <2>1
<1>8. f[0] = y
  BY <1>1, <1>6
<1>9. Run(f, tag, y, seq) /\ AllocColored(x, from, n) = f[n]
  BY <1>1, <1>3, <1>7, <1>8 DEF Run
<1>10. Len(seq) = n /\ \A i \in 1 .. n : seq[i] = from + i - 1
  BY <1>1 DEF seq
<1>11. QED
  BY <1>9, <1>10 DEF y, tag

\* How many pages a copy goes to
CopyTurns(a, data) == IF data = << >> THEN 0 ELSE Units((a % PageSize) + Len(data))

LEMMA Copy2VirtRun ==
  ASSUME NEW x, NEW s, NEW a, NEW data, NEW n \in Nat, n = CopyTurns(a, data), NEW v, v = Copy2Virt(x, s, a, data)
  PROVE  \E f, seq, tag, y :
           /\ Run(f, tag, y, seq) /\ v = f[n]
           /\ Len(seq) = n /\ \A i \in 1 .. n : seq[i] = i - 1
           /\ tag = <<"copy", s, a, data>> /\ y = x
<1> DEFINE seq == [i \in 1 .. n |-> i - 1]
           tag == <<"copy", s, a, data>>
           y == x
<1>1. Len(seq) \in Nat /\ Len(seq) = n
  OBVIOUS
<1>2. \A z, e : TurnOf(tag, z, e) = IF Going(z) THEN CopyPage(z, s, a, data, e) ELSE z
  BY DEF TurnOf, StepOf
<1> DEFINE f == CHOOSE f : f = [i \in 0 .. Len(seq) |-> IF i = 0 THEN y
                   ELSE IF Going(f[i - 1]) THEN CopyPage(f[i - 1], s, a, data, seq[i]) ELSE f[i - 1]]
<1>3. Copy2Virt(x, s, a, data) = f[Len(seq)]
  BY DEF Copy2Virt, Each, Turn, CopyTurns
<1> HIDE DEF seq, y, tag
<1>4. PICK h : RunFrom(h, tag, y, seq, Len(seq))
  BY <1>1, RunExists
<1>5. h = [i \in 0 .. Len(seq) |-> IF i = 0 THEN y
                   ELSE IF Going(h[i - 1]) THEN CopyPage(h[i - 1], s, a, data, seq[i]) ELSE h[i - 1]]
  BY <1>1, <1>2, <1>4 DEF RunFrom
<1>6. f = [i \in 0 .. Len(seq) |-> IF i = 0 THEN y
                   ELSE IF Going(f[i - 1]) THEN CopyPage(f[i - 1], s, a, data, seq[i]) ELSE f[i - 1]]
  BY <1>5
<1> HIDE DEF f
<1>7. \A i \in 1 .. Len(seq) : f[i] = TurnOf(tag, f[i - 1], seq[i])
  <2> SUFFICES ASSUME NEW i \in 1 .. Len(seq) PROVE f[i] = TurnOf(tag, f[i - 1], seq[i])
    OBVIOUS
  <2>1. i \in 0 .. Len(seq) /\ i # 0
    BY <1>1
  <2>2. QED
    BY <1>2, <1>6, <2>1
<1>8. f[0] = y
  BY <1>1, <1>6
<1>9. Run(f, tag, y, seq) /\ Copy2Virt(x, s, a, data) = f[n]
  BY <1>1, <1>3, <1>7, <1>8 DEF Run
<1>10. Len(seq) = n /\ \A i \in 1 .. n : seq[i] = i - 1
  BY <1>1 DEF seq
<1>11. QED
  BY <1>9, <1>10 DEF y, tag

LEMMA DestroyRegionsRun ==
  ASSUME NEW x, NEW R, NEW v, v = DestroyRegions(x, R)
  PROVE  \E f, seq, tag, y :
           /\ Run(f, tag, y, seq) /\ v = f[Pages]
           /\ Len(seq) = Pages /\ \A p \in 1 .. Pages : seq[p] = (p - 1) * PageSize
           /\ tag = <<"destroy", R>> /\ y = x
<1> DEFINE seq == [p \in 1 .. Pages |-> (p - 1) * PageSize]
           tag == <<"destroy", R>>
           y == x
<1>1. Len(seq) \in Nat /\ Len(seq) = Pages
  BY MachineAssumption
<1>2. \A z, e : TurnOf(tag, z, e) = IF Going(z) THEN DestroyAt(z, R, e) ELSE z
  BY DEF TurnOf, StepOf
<1> DEFINE f == CHOOSE f : f = [i \in 0 .. Len(seq) |-> IF i = 0 THEN y
                   ELSE IF Going(f[i - 1]) THEN DestroyAt(f[i - 1], R, seq[i]) ELSE f[i - 1]]
<1>3. DestroyRegions(x, R) = f[Len(seq)]
  BY DEF DestroyRegions, Each, Turn
<1> HIDE DEF seq, y, tag
<1>4. PICK h : RunFrom(h, tag, y, seq, Len(seq))
  BY <1>1, RunExists
<1>5. h = [i \in 0 .. Len(seq) |-> IF i = 0 THEN y
                   ELSE IF Going(h[i - 1]) THEN DestroyAt(h[i - 1], R, seq[i]) ELSE h[i - 1]]
  BY <1>1, <1>2, <1>4 DEF RunFrom
<1>6. f = [i \in 0 .. Len(seq) |-> IF i = 0 THEN y
                   ELSE IF Going(f[i - 1]) THEN DestroyAt(f[i - 1], R, seq[i]) ELSE f[i - 1]]
  BY <1>5
<1> HIDE DEF f
<1>7. \A i \in 1 .. Len(seq) : f[i] = TurnOf(tag, f[i - 1], seq[i])
  <2> SUFFICES ASSUME NEW i \in 1 .. Len(seq) PROVE f[i] = TurnOf(tag, f[i - 1], seq[i])
    OBVIOUS
  <2>1. i \in 0 .. Len(seq) /\ i # 0
    BY <1>1
  <2>2. QED
    BY <1>2, <1>6, <2>1
<1>8. f[0] = y
  BY <1>1, <1>6
<1>9. Run(f, tag, y, seq) /\ DestroyRegions(x, R) = f[Pages]
  BY <1>1, <1>3, <1>7, <1>8 DEF Run
<1>10. Len(seq) = Pages /\ \A p \in 1 .. Pages : seq[p] = (p - 1) * PageSize
  BY <1>1 DEF seq
<1>11. QED
  BY <1>9, <1>10 DEF y, tag

LEMMA MapKernelRun ==
  ASSUME NEW x, NEW s, Len(KernelRanges) \in Nat, NEW v, v = MapKernel(x, s)
  PROVE  \E f, seq, tag, y :
           /\ Run(f, tag, y, seq) /\ v = f[Len(KernelRanges)]
           /\ seq = KernelRanges
           /\ tag = <<"image", s>> /\ y = x
<1> DEFINE seq == KernelRanges
           tag == <<"image", s>>
           y == x
<1>1. Len(seq) \in Nat /\ Len(seq) = Len(KernelRanges)
  OBVIOUS
<1>2. \A z, e : TurnOf(tag, z, e) = IF Going(z) THEN MapRequired(z, s, e, e.phys) ELSE z
  BY DEF TurnOf, StepOf
<1> DEFINE f == CHOOSE f : f = [i \in 0 .. Len(seq) |-> IF i = 0 THEN y
                   ELSE IF Going(f[i - 1]) THEN MapRequired(f[i - 1], s, seq[i], seq[i].phys) ELSE f[i - 1]]
<1>3. MapKernel(x, s) = f[Len(seq)]
  BY DEF MapKernel, Each, Turn
<1> HIDE DEF seq, y, tag
<1>4. PICK h : RunFrom(h, tag, y, seq, Len(seq))
  BY <1>1, RunExists
<1>5. h = [i \in 0 .. Len(seq) |-> IF i = 0 THEN y
                   ELSE IF Going(h[i - 1]) THEN MapRequired(h[i - 1], s, seq[i], seq[i].phys) ELSE h[i - 1]]
  BY <1>1, <1>2, <1>4 DEF RunFrom
<1>6. f = [i \in 0 .. Len(seq) |-> IF i = 0 THEN y
                   ELSE IF Going(f[i - 1]) THEN MapRequired(f[i - 1], s, seq[i], seq[i].phys) ELSE f[i - 1]]
  BY <1>5
<1> HIDE DEF f
<1>7. \A i \in 1 .. Len(seq) : f[i] = TurnOf(tag, f[i - 1], seq[i])
  <2> SUFFICES ASSUME NEW i \in 1 .. Len(seq) PROVE f[i] = TurnOf(tag, f[i - 1], seq[i])
    OBVIOUS
  <2>1. i \in 0 .. Len(seq) /\ i # 0
    BY <1>1
  <2>2. QED
    BY <1>2, <1>6, <2>1
<1>8. f[0] = y
  BY <1>1, <1>6
<1>9. Run(f, tag, y, seq) /\ MapKernel(x, s) = f[Len(KernelRanges)]
  BY <1>1, <1>3, <1>7, <1>8 DEF Run
<1>10. seq = KernelRanges
  BY <1>1 DEF seq
<1>11. QED
  BY <1>9, <1>10 DEF y, tag

LEMMA MapIoRangesRun ==
  ASSUME NEW x, NEW s, Len(IoRanges) \in Nat, NEW v, v = MapIoRanges(x, s)
  PROVE  \E f, seq, tag, y :
           /\ Run(f, tag, y, seq) /\ v = f[Len(IoRanges)]
           /\ seq = IoRanges
           /\ tag = <<"io", s>> /\ y = x
<1> DEFINE seq == IoRanges
           tag == <<"io", s>>
           y == x
<1>1. Len(seq) \in Nat /\ Len(seq) = Len(IoRanges)
  OBVIOUS
<1>2. \A z, e : TurnOf(tag, z, e) = IF Going(z) THEN MapIoRange(z, s, e) ELSE z
  BY DEF TurnOf, StepOf
<1> DEFINE f == CHOOSE f : f = [i \in 0 .. Len(seq) |-> IF i = 0 THEN y
                   ELSE IF Going(f[i - 1]) THEN MapIoRange(f[i - 1], s, seq[i]) ELSE f[i - 1]]
<1>3. MapIoRanges(x, s) = f[Len(seq)]
  BY DEF MapIoRanges, Each, Turn
<1> HIDE DEF seq, y, tag
<1>4. PICK h : RunFrom(h, tag, y, seq, Len(seq))
  BY <1>1, RunExists
<1>5. h = [i \in 0 .. Len(seq) |-> IF i = 0 THEN y
                   ELSE IF Going(h[i - 1]) THEN MapIoRange(h[i - 1], s, seq[i]) ELSE h[i - 1]]
  BY <1>1, <1>2, <1>4 DEF RunFrom
<1>6. f = [i \in 0 .. Len(seq) |-> IF i = 0 THEN y
                   ELSE IF Going(f[i - 1]) THEN MapIoRange(f[i - 1], s, seq[i]) ELSE f[i - 1]]
  BY <1>5
<1> HIDE DEF f
<1>7. \A i \in 1 .. Len(seq) : f[i] = TurnOf(tag, f[i - 1], seq[i])
  <2> SUFFICES ASSUME NEW i \in 1 .. Len(seq) PROVE f[i] = TurnOf(tag, f[i - 1], seq[i])
    OBVIOUS
  <2>1. i \in 0 .. Len(seq) /\ i # 0
    BY <1>1
  <2>2. QED
    BY <1>2, <1>6, <2>1
<1>8. f[0] = y
  BY <1>1, <1>6
<1>9. Run(f, tag, y, seq) /\ MapIoRanges(x, s) = f[Len(IoRanges)]
  BY <1>1, <1>3, <1>7, <1>8 DEF Run
<1>10. seq = IoRanges
  BY <1>1 DEF seq
<1>11. QED
  BY <1>9, <1>10 DEF y, tag

LEMMA MapRegionsRun ==
  ASSUME NEW x, Len(PhysRanges) \in Nat, NEW v, v = MapRegions(x)
  PROVE  \E f, seq, tag, y :
           /\ Run(f, tag, y, seq) /\ v = f[Len(PhysRanges)]
           /\ seq = PhysRanges
           /\ tag = <<"memory">> /\ y = x
<1> DEFINE seq == PhysRanges
           tag == <<"memory">>
           y == x
<1>1. Len(seq) \in Nat /\ Len(seq) = Len(PhysRanges)
  OBVIOUS
<1>2. \A z, e : TurnOf(tag, z, e) = IF Going(z) THEN MapMemory(z, e) ELSE z
  BY DEF TurnOf, StepOf
<1> DEFINE f == CHOOSE f : f = [i \in 0 .. Len(seq) |-> IF i = 0 THEN y
                   ELSE IF Going(f[i - 1]) THEN MapMemory(f[i - 1], seq[i]) ELSE f[i - 1]]
<1>3. MapRegions(x) = f[Len(seq)]
  BY DEF MapRegions, Each, Turn
<1> HIDE DEF seq, y, tag
<1>4. PICK h : RunFrom(h, tag, y, seq, Len(seq))
  BY <1>1, RunExists
<1>5. h = [i \in 0 .. Len(seq) |-> IF i = 0 THEN y
                   ELSE IF Going(h[i - 1]) THEN MapMemory(h[i - 1], seq[i]) ELSE h[i - 1]]
  BY <1>1, <1>2, <1>4 DEF RunFrom
<1>6. f = [i \in 0 .. Len(seq) |-> IF i = 0 THEN y
                   ELSE IF Going(f[i - 1]) THEN MapMemory(f[i - 1], seq[i]) ELSE f[i - 1]]
  BY <1>5
<1> HIDE DEF f
<1>7. \A i \in 1 .. Len(seq) : f[i] = TurnOf(tag, f[i - 1], seq[i])
  <2> SUFFICES ASSUME NEW i \in 1 .. Len(seq) PROVE f[i] = TurnOf(tag, f[i - 1], seq[i])
    OBVIOUS
  <2>1. i \in 0 .. Len(seq) /\ i # 0
    BY <1>1
  <2>2. QED
    BY <1>2, <1>6, <2>1
<1>8. f[0] = y
  BY <1>1, <1>6
<1>9. Run(f, tag, y, seq) /\ MapRegions(x) = f[Len(PhysRanges)]
  BY <1>1, <1>3, <1>7, <1>8 DEF Run
<1>10. seq = PhysRanges
  BY <1>1 DEF seq
<1>11. QED
  BY <1>9, <1>10 DEF y, tag

LEMMA WalkExecRun ==
  ASSUME NEW x, NEW s, NEW st, NEW n \in Nat, DOMAIN st.file.phdrs = 1 .. n, NEW v, v = WalkExec(x, s, st)
  PROVE  \E f, seq, tag, y :
           /\ Run(f, tag, y, seq) /\ v = f[n]
           /\ Len(seq) = n /\ \A i \in 1 .. n : seq[i] = i
           /\ tag = <<"headers", s, st>> /\ y = x
<1> DEFINE seq == [i \in DOMAIN st.file.phdrs |-> i]
           tag == <<"headers", s, st>>
           y == x
<1>1. Len(seq) \in Nat /\ Len(seq) = n
  OBVIOUS
<1>2. \A z, e : TurnOf(tag, z, e) = IF Going(z) THEN LoadHeader(z, s, st, e) ELSE z
  BY DEF TurnOf, StepOf
<1> DEFINE f == CHOOSE f : f = [i \in 0 .. Len(seq) |-> IF i = 0 THEN y
                   ELSE IF Going(f[i - 1]) THEN LoadHeader(f[i - 1], s, st, seq[i]) ELSE f[i - 1]]
<1>3. WalkExec(x, s, st) = f[Len(seq)]
  BY DEF WalkExec, Each, Turn
<1> HIDE DEF seq, y, tag
<1>4. PICK h : RunFrom(h, tag, y, seq, Len(seq))
  BY <1>1, RunExists
<1>5. h = [i \in 0 .. Len(seq) |-> IF i = 0 THEN y
                   ELSE IF Going(h[i - 1]) THEN LoadHeader(h[i - 1], s, st, seq[i]) ELSE h[i - 1]]
  BY <1>1, <1>2, <1>4 DEF RunFrom
<1>6. f = [i \in 0 .. Len(seq) |-> IF i = 0 THEN y
                   ELSE IF Going(f[i - 1]) THEN LoadHeader(f[i - 1], s, st, seq[i]) ELSE f[i - 1]]
  BY <1>5
<1> HIDE DEF f
<1>7. \A i \in 1 .. Len(seq) : f[i] = TurnOf(tag, f[i - 1], seq[i])
  <2> SUFFICES ASSUME NEW i \in 1 .. Len(seq) PROVE f[i] = TurnOf(tag, f[i - 1], seq[i])
    OBVIOUS
  <2>1. i \in 0 .. Len(seq) /\ i # 0
    BY <1>1
  <2>2. QED
    BY <1>2, <1>6, <2>1
<1>8. f[0] = y
  BY <1>1, <1>6
<1>9. Run(f, tag, y, seq) /\ WalkExec(x, s, st) = f[n]
  BY <1>1, <1>3, <1>7, <1>8 DEF Run
<1>10. Len(seq) = n /\ \A i \in 1 .. n : seq[i] = i
  BY <1>1 DEF seq
<1>11. QED
  BY <1>9, <1>10 DEF y, tag

LEMMA RelocateAllRun ==
  ASSUME NEW x, NEW s, NEW st, Len(Relocations(st)) \in Nat, NEW v, v = RelocateAll(x, s, st)
  PROVE  \E f, seq, tag, y :
           /\ Run(f, tag, y, seq) /\ v = f[Len(Relocations(st))]
           /\ seq = Relocations(st)
           /\ tag = <<"relocations", s, st>> /\ y = x
<1> DEFINE seq == Relocations(st)
           tag == <<"relocations", s, st>>
           y == x
<1>1. Len(seq) \in Nat /\ Len(seq) = Len(Relocations(st))
  OBVIOUS
<1>2. \A z, e : TurnOf(tag, z, e) = IF Going(z) THEN Relocate1(z, s, st, e) ELSE z
  BY DEF TurnOf, StepOf
<1> DEFINE f == CHOOSE f : f = [i \in 0 .. Len(seq) |-> IF i = 0 THEN y
                   ELSE IF Going(f[i - 1]) THEN Relocate1(f[i - 1], s, st, seq[i]) ELSE f[i - 1]]
<1>3. RelocateAll(x, s, st) = f[Len(seq)]
  BY DEF RelocateAll, Each, Turn
<1> HIDE DEF seq, y, tag
<1>4. PICK h : RunFrom(h, tag, y, seq, Len(seq))
  BY <1>1, RunExists
<1>5. h = [i \in 0 .. Len(seq) |-> IF i = 0 THEN y
                   ELSE IF Going(h[i - 1]) THEN Relocate1(h[i - 1], s, st, seq[i]) ELSE h[i - 1]]
  BY <1>1, <1>2, <1>4 DEF RunFrom
<1>6. f = [i \in 0 .. Len(seq) |-> IF i = 0 THEN y
                   ELSE IF Going(f[i - 1]) THEN Relocate1(f[i - 1], s, st, seq[i]) ELSE f[i - 1]]
  BY <1>5
<1> HIDE DEF f
<1>7. \A i \in 1 .. Len(seq) : f[i] = TurnOf(tag, f[i - 1], seq[i])
  <2> SUFFICES ASSUME NEW i \in 1 .. Len(seq) PROVE f[i] = TurnOf(tag, f[i - 1], seq[i])
    OBVIOUS
  <2>1. i \in 0 .. Len(seq) /\ i # 0
    BY <1>1
  <2>2. QED
    BY <1>2, <1>6, <2>1
<1>8. f[0] = y
  BY <1>1, <1>6
<1>9. Run(f, tag, y, seq) /\ RelocateAll(x, s, st) = f[Len(Relocations(st))]
  BY <1>1, <1>3, <1>7, <1>8 DEF Run
<1>10. seq = Relocations(st)
  BY <1>1 DEF seq
<1>11. QED
  BY <1>9, <1>10 DEF y, tag

\* A loop whose every turn keeps, or grows, does so.
LEMMA LoopKeeps ==
  ASSUME NEW s \in AllSpaces, NEW x, Shape(x), NEW f, NEW tag, NEW seq, Len(seq) \in Nat, Run(f, tag, x, seq),
         \A z : \A i \in 1 .. Len(seq) : Shape(z) /\ Going(z) => Keeps(s, z, StepOf(tag, z, seq[i]))
  PROVE  Keeps(s, x, f[Len(seq)])
<1> DEFINE S == {i \in 0 .. Len(seq) : Keeps(s, x, f[i])}
<1>1. 0 \in S
  BY KeepsRefl DEF Run
<1>2. ASSUME NEW i \in 1 .. Len(seq), i - 1 \in S PROVE i \in S
  <2> DEFINE z == f[i - 1]
  <2>1. f[i] = TurnOf(tag, z, seq[i]) /\ Keeps(s, x, z)
    BY <1>2 DEF Run
  <2> HIDE DEF z
  <2>2. Shape(z)
    BY <2>1 DEF Keeps
  <2>3. Keeps(s, z, f[i])
    BY <2>1, <2>2, KeepsRefl DEF TurnOf
  <2>4. Keeps(s, x, f[i])
    BY <2>1, <2>3, KeepsTrans
  <2>5. QED
    BY <2>4
<1> HIDE DEF S
<1>3. Len(seq) \in S
  BY <1>1, <1>2, UpTo, SMTT(30)
<1>4. QED
  BY <1>3 DEF S

LEMMA LoopGrows ==
  ASSUME NEW s \in AllSpaces, NEW x, Sound(x), NEW f, NEW tag, NEW seq, Len(seq) \in Nat, Run(f, tag, x, seq),
         \A z : \A i \in 1 .. Len(seq) : Sound(z) /\ Going(z) => Grows(s, z, StepOf(tag, z, seq[i]))
  PROVE  Grows(s, x, f[Len(seq)])
<1> DEFINE S == {i \in 0 .. Len(seq) : Grows(s, x, f[i])}
<1>1. 0 \in S
  BY GrowsRefl DEF Run
<1>2. ASSUME NEW i \in 1 .. Len(seq), i - 1 \in S PROVE i \in S
  <2> DEFINE z == f[i - 1]
  <2>1. f[i] = TurnOf(tag, z, seq[i]) /\ Grows(s, x, z)
    BY <1>2 DEF Run
  <2> HIDE DEF z
  <2>2. Sound(z)
    BY <2>1 DEF Grows
  <2>3. Grows(s, z, f[i])
    BY <2>1, <2>2, GrowsRefl DEF TurnOf
  <2>4. Grows(s, x, f[i])
    BY <2>1, <2>3, GrowsTrans
  <2>5. QED
    BY <2>4
<1> HIDE DEF S
<1>3. Len(seq) \in S
  BY <1>1, <1>2, UpTo, SMTT(30)
<1>4. QED
  BY <1>3 DEF S

-----------------------------------------------------------------------------
(* Page tables.                                                             *)

LEMMA PageNumbers ==
  /\ PageSize \in Nat /\ PageSize > 1 /\ Pages \in Nat /\ Pages > 0 /\ Width \in Nat /\ Width > 0
  /\ Width = PageSize * Pages
  /\ \A i \in Int : i % Pages \in 0 .. Pages - 1
  /\ \A a \in Int : At(a) \in Word
  /\ \A a \in Word : a \div PageSize \in 0 .. Pages - 1
<1>1. /\ PageSize \in Nat /\ PageSize > 1 /\ Pages \in Nat /\ Pages > 0
  BY MachineAssumption
<1>2. Width = PageSize * Pages
  BY DEF Width
<1> DEFINE W == PageSize * Pages
<1>3. W \in Nat /\ W > 0
  BY <1>1
<1>4. \A a \in 0 .. W - 1 : a \div PageSize \in 0 .. Pages - 1
  BY <1>1
<1>5. \A a \in Int : a % W \in 0 .. W - 1
  <2> HIDE DEF W
  <2>1. QED
    BY <1>3
<1>6. QED
  BY <1>1, <1>2, <1>3, <1>4, <1>5 DEF At, Word

LEMMA MapEntryKeeps ==
  ASSUME NEW s \in AllSpaces, NEW x, Shape(x), Going(x), NEW page \in 0 .. Pages - 1, NEW entry
  PROVE  Keeps(s, x, MapEntry(x, s, page, entry))
<1> DEFINE y == IF page % PagesPerTable = 0 THEN PrepareTable(x, s, page) ELSE x
           z == [y EXCEPT !.space[s].entry[page] = entry]
<1>1. Keeps(s, x, y)
  BY PrepareTableKeeps, KeepsRefl
<1>2. MapEntry(x, s, page, entry) = IF Going(y) THEN z ELSE y
  BY DEF MapEntry, Then
<1> HIDE DEF y
<1>3. Keeps(s, y, z)
  <2>1. Shape(y)
    BY <1>1 DEF Keeps
  <2>2. Shape(z) /\ z.failure = y.failure /\ z.new = y.new /\ z.free = y.free
    BY <2>1 DEF Shape, SpaceShape, Fields, SpaceFields
  <2>3. /\ z.space[s].tables = y.space[s].tables
        /\ z.space[s].dir = y.space[s].dir /\ z.space[s].regions = y.space[s].regions
        /\ z.space[s].phase = y.space[s].phase
        /\ z.space[s].unmapped = y.space[s].unmapped
        /\ \A t \in AllSpaces : t # s => z.space[t] = y.space[t]
    BY <2>1 DEF Shape, SpaceShape, Fields, SpaceFields
  <2> HIDE DEF z
  <2>4. \A t \in AllSpaces : Own(z.space[t]) = Own(y.space[t])
    BY <2>3 DEF Own, DirOwn, TableOwn, TablesIn, PageOwn
  <2>5. Holdings(z) = Holdings(y)
    BY <2>4 DEF Holdings
  <2>6. QED
    BY <2>2, <2>3, <2>5 DEF Keeps, Booked
<1>4. QED
  BY <1>1, <1>2, <1>3, KeepsTrans

LEMMA MapRangeKeeps ==
  ASSUME NEW s \in AllSpaces, NEW x, Shape(x), NEW virt \in Word,
         NEW entries, NEW n \in Nat, DOMAIN entries = 1 .. n
  PROVE  Keeps(s, x, MapRange(x, s, virt, entries))
<1> DEFINE first == virt \div PageSize
           v == MapRange(x, s, virt, entries)
<1> HIDE DEF v
<1>0. v = MapRange(x, s, virt, entries)
  BY DEF v
<1>1. PICK f, seq, tag, y :
        /\ Run(f, tag, y, seq) /\ v = f[n]
        /\ Len(seq) = n /\ \A i \in 1 .. n : seq[i] = i
        /\ tag = <<"entries", s, first, entries>>
        /\ y = PrepareTable(x, s, first)
  BY <1>0, MapRangeRun
<1>2. first \in 0 .. Pages - 1
  BY PageNumbers
<1>3. Keeps(s, x, y)
  BY <1>1, <1>2, PrepareTableKeeps
<1>4. Len(seq) = n
  BY <1>1
<1>5. ASSUME NEW z, NEW i \in 1 .. n, Shape(z), Going(z)
      PROVE  Keeps(s, z, StepOf(tag, z, seq[i]))
  <2> DEFINE page == (first + seq[i] - 1) % Pages
  <2>1. page \in 0 .. Pages - 1
    <3>1. seq[i] = i
      BY <1>1
    <3>2. first + seq[i] - 1 \in Int
      BY <1>2, <3>1, PageNumbers
    <3>3. QED
      BY <3>2, PageNumbers
  <2>2. StepOf(tag, z, seq[i]) = MapEntry(z, s, page, entries[seq[i]])
    BY <1>1 DEF StepOf
  <2> HIDE DEF page
  <2>3. QED
    BY <1>5, <2>1, <2>2, MapEntryKeeps
<1>6. Shape(y)
  BY <1>3 DEF Keeps
<1>7. Keeps(s, y, f[n])
  BY <1>1, <1>4, <1>5, <1>6, LoopKeeps
<1>8. QED
  BY <1>0, <1>1, <1>3, <1>7, KeepsTrans

LEMMA MapInKeeps ==
  ASSUME NEW s \in AllSpaces, NEW x, Shape(x), NEW r, r.start \in Starts, NEW o \in Nat
  PROVE  Keeps(s, x, MapIn(x, s, r, o))
<1>1. At(r.start + o * PageSize) \in Word
  BY PageNumbers DEF Starts
<1>2. DOMAIN <<r.pages[o]>> = 1 .. 1
  OBVIOUS
<1>3. Keeps(s, x, MapRange(x, s, At(r.start + o * PageSize), <<r.pages[o]>>))
  BY <1>1, <1>2, MapRangeKeeps
<1>4. QED
  BY <1>3, KeepsRefl DEF MapIn

LEMMA MapPagesKeeps ==
  ASSUME NEW s \in AllSpaces, NEW x, Shape(x), NEW r, r.start \in Starts
  PROVE  Keeps(s, x, MapPages(x, s, r))
<1> DEFINE v == MapPages(x, s, r)
<1> HIDE DEF v
<1>0. v = MapPages(x, s, r)
  BY DEF v
<1>1. PICK f, seq, tag, y :
        /\ Run(f, tag, y, seq) /\ v = f[Pages]
        /\ Len(seq) = Pages /\ \A i \in 1 .. Pages : seq[i] = i - 1
        /\ tag = <<"pages", s, r>> /\ y = x
  BY <1>0, MapPagesRun
<1>2. Len(seq) = Pages /\ Pages \in Nat
  BY <1>1, PageNumbers
<1>3. ASSUME NEW z, NEW i \in 1 .. Pages, Shape(z), Going(z)
      PROVE  Keeps(s, z, StepOf(tag, z, seq[i]))
  <2>1. StepOf(tag, z, seq[i]) = MapIn(z, s, r, seq[i]) /\ seq[i] \in Nat
    BY <1>1, <1>2 DEF StepOf
  <2>2. QED
    BY <1>3, <2>1, MapInKeeps
<1>4. Keeps(s, x, f[Pages])
  BY <1>1, <1>2, <1>3, LoopKeeps
<1>5. QED
  BY <1>0, <1>1, <1>4

\* A page that is taken for the directory is the directory.
LEMMA WithDirectoryKeeps ==
  ASSUME NEW s \in AllSpaces, NEW x, Shape(x)
  PROVE  LET y == WithDirectory(x, s) IN
         /\ Keeps(s, x, y) /\ y.ret = x.ret
         /\ Booked(x) /\ y.failure = "none" /\ SegmentsFit => y.space[s].dir # 0
<1> DEFINE y == WithDirectory(x, s)
<1>1. CASE x.space[s].dir # 0
  BY <1>1, KeepsRefl DEF WithDirectory
<1>2. CASE x.space[s].dir = 0 /\ x.free = {}
  <2>1. y = Failing(x, "null_page_directory")
    BY <1>2 DEF WithDirectory
  <2> HIDE DEF y
  <2>2. /\ Shape(y) /\ y.free = x.free /\ y.space = x.space /\ y.failure # "none" /\ y.new = x.new
        /\ y.ret = x.ret
    BY <2>1 DEF Shape, Fields, Failing
  <2>3. Keeps(s, x, y)
    BY <2>2 DEF Keeps, Booked, Holdings
  <2>4. QED
    BY <2>2, <2>3 DEF y
<1>3. CASE x.space[s].dir = 0 /\ x.free # {}
  <2> DEFINE f == FirstFree(x)
  <2>1. y = [x EXCEPT !.space[s].dir = f, !.free = @ \ {f}]
    BY <1>3 DEF WithDirectory
  <2> HIDE DEF y, f
  <2>2. Shape(y) /\ y.failure = x.failure /\ y.new = x.new /\ y.ret = x.ret
    BY <2>1 DEF Shape, SpaceShape, Fields, SpaceFields
  <2>3. /\ y.space[s].dir = f /\ y.space[s].tables = x.space[s].tables
        /\ y.space[s].regions = x.space[s].regions
        /\ y.space[s].phase = x.space[s].phase
        /\ y.space[s].unmapped = x.space[s].unmapped
        /\ \A t \in AllSpaces : t # s => y.space[t] = x.space[t]
        /\ y.free = x.free \ {f}
    BY <2>1 DEF Shape, SpaceShape, Fields, SpaceFields
  <2>4. ASSUME Booked(x), x.failure = "none", SegmentsFit
        PROVE  Ledger(y.free, {}, Holdings(y)) /\ f # 0
    <3>1. Ledger(x.free, {}, Holdings(x))
      BY <2>4 DEF Booked
    <3>2. f \in x.free /\ f # 0
      BY <1>3, <3>1, FirstFreeIs DEF Ledger, f
    <3> DEFINE e == <<"dir", 0, 0, f>>
    <3>3. Own(y.space[s]) = Own(x.space[s]) \cup {e}
      BY <1>3, <2>3, <3>2 DEF Own, DirOwn, TableOwn, TablesIn
    <3> DEFINE own == Holdings(x)
               own2 == Holdings(y)
               free == x.free
    <3>4. own2[s] = own[s] \cup {e} /\ \A t \in AllSpaces : t # s => own2[t] = own[t]
      BY <2>3, <3>3 DEF Holdings
    <3>5. e[4] = f /\ f \in free /\ Ledger(free, {}, own)
      BY <3>1, <3>2
    <3> HIDE DEF e, own, own2, free
    <3>6. Ledger(free \ {f}, {}, own2)
      BY <3>4, <3>5, LedgerTaken
    <3>7. QED
      BY <2>3, <3>2, <3>6 DEF own2, free
  <2>5. Booked(x) => Booked(y)
    BY <2>2, <2>4 DEF Booked
  <2>6. Keeps(s, x, y)
    BY <1>3, <2>2, <2>3, <2>5 DEF Keeps
  <2>7. QED
    BY <2>2, <2>3, <2>4, <2>6 DEF y
<1>4. QED
  BY <1>1, <1>2, <1>3

LEMMA IgnoringKeeps ==
  ASSUME NEW s \in AllSpaces, NEW x, Shape(x)
  PROVE  LET y == Ignoring(x, s) IN
         Keeps(s, x, y) /\ y.ret = 0 /\ y.failure = x.failure /\ y.space[s].dir = x.space[s].dir
<1> DEFINE y == [x EXCEPT !.ret = 0, !.space[s].unmapped = TRUE]
<1>1. CASE x.ret = 0
  BY <1>1, KeepsRefl DEF Ignoring
<1>2. CASE x.ret = -1
  <2>1. Ignoring(x, s) = y
    BY <1>2 DEF Ignoring
  <2>2. /\ Shape(y) /\ y.free = x.free /\ y.failure = x.failure /\ y.new = x.new /\ y.ret = 0
    BY DEF Shape, SpaceShape, Fields, SpaceFields
  <2>3. /\ y.space[s].tables = x.space[s].tables
        /\ y.space[s].dir = x.space[s].dir /\ y.space[s].regions = x.space[s].regions
        /\ y.space[s].phase = x.space[s].phase
        /\ y.space[s].unmapped = TRUE
        /\ \A t \in AllSpaces : t # s => y.space[t] = x.space[t]
    BY DEF Shape, SpaceShape, Fields, SpaceFields
  <2> HIDE DEF y
  <2>4. \A t \in AllSpaces : Own(y.space[t]) = Own(x.space[t])
    BY <2>3 DEF Own, DirOwn, TableOwn, TablesIn, PageOwn
  <2>5. Holdings(y) = Holdings(x)
    BY <2>4 DEF Holdings
  <2>6. Keeps(s, x, y)
    BY <2>2, <2>3, <2>5 DEF Keeps, Booked
  <2>7. QED
    BY <2>1, <2>2, <2>3, <2>6
<1>3. QED
  BY <1>1, <1>2 DEF Shape

LEMMA UpdateRegionKeeps ==
  ASSUME NEW s \in AllSpaces, NEW x, Shape(x), NEW r, RegionShape(r)
  PROVE  LET y == UpdateRegion(x, s, r) IN
         /\ Keeps(s, x, y) /\ y.ret = 0
         /\ Booked(x) /\ y.failure = "none" /\ SegmentsFit => y.space[s].dir # 0
<1> DEFINE w == WithDirectory(x, s)
           n == Units(At(r.end - r.start + 1))
           entries == [i \in 1 .. n |-> [phys |-> r.phys + i - 1, present |-> TRUE]]
           z == IF r.type = "RANGEMAP" THEN IF Going(w) THEN MapRange(w, s, r.start, entries) ELSE w
                ELSE MapPages(w, s, r)
           y == Ignoring(z, s)
<1>1. UpdateRegion(x, s, r) = y
  BY DEF UpdateRegion, Then
<1>2. /\ Keeps(s, x, w)
      /\ Booked(x) /\ w.failure = "none" /\ SegmentsFit => w.space[s].dir # 0
  BY WithDirectoryKeeps
<1>3. Shape(w) /\ r.start \in Starts /\ r.start \in Word /\ r.end \in Word
  BY <1>2 DEF Keeps, RegionShape, Starts, Word
<1>4. n \in Nat
  <2>1. r.end - r.start + 1 \in Int
    BY <1>3, PageNumbers DEF Word
  <2>2. At(r.end - r.start + 1) \in Nat
    BY <2>1, PageNumbers DEF Word
  <2>3. QED
    BY <2>2, PageNumbers DEF Units
<1>5. DOMAIN entries = 1 .. n
  OBVIOUS
<1> HIDE DEF w, n, entries
<1>6. Keeps(s, w, z)
  BY <1>3, <1>4, <1>5, MapRangeKeeps, MapPagesKeeps, KeepsRefl
<1> HIDE DEF z
<1>7. Shape(z)
  BY <1>6 DEF Keeps
<1>8. Keeps(s, z, y) /\ y.ret = 0 /\ y.failure = z.failure /\ y.space[s].dir = z.space[s].dir
  BY <1>7, IgnoringKeeps
<1> HIDE DEF y
<1>9. Keeps(s, x, y)
  BY <1>2, <1>6, <1>8, KeepsTrans
<1>10. Booked(x) /\ y.failure = "none" /\ SegmentsFit => y.space[s].dir # 0
  BY <1>2, <1>6, <1>8 DEF Keeps
<1>11. QED
  BY <1>1, <1>8, <1>9, <1>10

-----------------------------------------------------------------------------
(* What takes objects from the heap and makes a region, changes no space.   *)

Same(x, y) ==
  /\ Shape(y) /\ y.space = x.space /\ y.free = x.free /\ (y.failure = "none" => x.failure = "none")

LEMMA SameTrans ==
  ASSUME NEW x, NEW y, NEW z, Same(x, y), Same(y, z)
  PROVE  Same(x, z)
BY DEF Same

LEMMA SameSound ==
  ASSUME NEW s \in AllSpaces, NEW x, NEW y, Sound(x), Same(x, y)
  PROVE  Sound(y) /\ Grows(s, x, y)
<1>1. Holdings(y) = Holdings(x)
  BY DEF Same, Holdings
<1>2. Sound(y)
  BY <1>1 DEF Same, Sound, Booked
<1>3. QED
  BY <1>2 DEF Same, Grows

LEMMA HeapAllocSame ==
  ASSUME NEW x, Shape(x)
  PROVE  Same(x, HeapAlloc(x)) /\ HeapAlloc(x).failure = x.failure /\ HeapAlloc(x).new = x.new
BY DEF HeapAlloc, Same, Shape, Fields

LEMMA FailingSame ==
  ASSUME NEW x, Shape(x), NEW how, how # "none"
  PROVE  Same(x, Failing(x, how)) /\ Failing(x, how).failure # "none"
BY DEF Failing, Same, Shape, Fields

LEMMA MandatorySame ==
  ASSUME NEW x, Shape(x)
  PROVE  Same(x, Mandatory(x)) /\ (Mandatory(x).failure = "none" => Mandatory(x) = x /\ x.ret = 0)
BY FailingSame DEF Mandatory, Same

LEMMA InstanceSame ==
  ASSUME NEW x, Shape(x)
  PROVE  Same(x, Instance(x))
<1> DEFINE y == HeapAlloc(x)
           z == HeapAlloc(y)
<1>1. Same(x, y)
  BY HeapAllocSame
<1>2. Shape(y)
  BY <1>1 DEF Same
<1>3. Same(y, z)
  BY <1>2, HeapAllocSame
<1>4. Shape(z)
  BY <1>3 DEF Same
<1>5. Same(z, Failing(z, "freed_twice"))
  BY <1>4, FailingSame
<1>6. Instance(x) = IF Going(y) THEN IF z.ret = -1 THEN Failing(z, "freed_twice") ELSE z ELSE y
  BY DEF Instance, Then
<1> HIDE DEF y, z
<1>7. Same(x, z) /\ Same(x, Failing(z, "freed_twice"))
  BY <1>1, <1>3, <1>5, SameTrans
<1>8. QED
  BY <1>1, <1>6, <1>7

LEMMA Multiple ==
  ASSUME NEW p \in Nat, p > 0, NEW c \in Int
  PROVE  (c * p) % p = 0
<1> DEFINE q == (c * p) \div p
           m == (c * p) % p
<1>1. q \in Int /\ m \in 0 .. p - 1 /\ c * p = q * p + m
  BY c * p \in Int
<1> HIDE DEF q, m
<1>2. (c - q) * p = m
  BY <1>1
<1>3. ~(c - q >= 1)
  <2>1. SUFFICES ASSUME c - q >= 1 PROVE FALSE
    OBVIOUS
  <2>2. (c - q) * p >= 1 * p
    BY <1>1, <2>1
  <2>3. QED
    BY <1>1, <1>2, <2>2
<1>4. ~(c - q <= -1)
  <2>1. SUFFICES ASSUME c - q <= -1 PROVE FALSE
    OBVIOUS
  <2>2. (c - q) * p <= (-1) * p
    BY <1>1, <2>1
  <2>3. QED
    BY <1>1, <1>2, <2>2
<1>5. c = q
  BY <1>1, <1>3, <1>4
<1>6. m = 0
  BY <1>1, <1>2, <1>5
<1>7. QED
  BY <1>6 DEF m

\* A start is a number of pages, and so is what lies n pages on, or where that
\* wraps.
LEMMA StartPages ==
  ASSUME NEW a \in Starts
  PROVE  \E c \in 0 .. Pages - 1 : a = c * PageSize
<1>1. a \in Word /\ a % PageSize = 0
  BY DEF Starts, Word
<1>2. a \div PageSize \in 0 .. Pages - 1
  BY <1>1, PageNumbers
<1>3. a \in Int /\ a = (a \div PageSize) * PageSize + (a % PageSize)
  BY <1>1, PageNumbers DEF Word
<1>4. a = (a \div PageSize) * PageSize
  BY <1>1, <1>2, <1>3, PageNumbers
<1>5. QED
  BY <1>2, <1>4

LEMMA PagesOn ==
  ASSUME NEW a \in Starts, NEW n \in Int
  PROVE  At(a + n * PageSize - 1) \in Word /\ (At(a + n * PageSize - 1) + 1) % PageSize = 0
<1> DEFINE v == a + n * PageSize - 1
           q == v \div Width
<1>1. PICK c \in 0 .. Pages - 1 : a = c * PageSize
  BY StartPages
<1>2. PageSize \in Nat /\ PageSize > 1 /\ Pages \in Nat /\ Width \in Nat /\ Width > 0 /\ Width = PageSize * Pages
  BY PageNumbers
<1>3. a \in Int /\ n * PageSize \in Int /\ v \in Int
  BY <1>2 DEF Starts
<1>4. At(v) \in Word
  BY <1>3, PageNumbers
<1>5. q \in Int /\ v = q * Width + At(v)
  <2> HIDE DEF v
  <2>1. v \div Width \in Int /\ v = (v \div Width) * Width + (v % Width)
    BY <1>2, <1>3
  <2>2. QED
    BY <2>1 DEF At
<1> HIDE DEF q
<1>6. At(v) + 1 = (c + n - q * Pages) * PageSize
  <2>1. At(v) + 1 = c * PageSize + n * PageSize - q * (PageSize * Pages)
    BY <1>1, <1>2, <1>3, <1>4, <1>5 DEF Word
  <2>2. q * (PageSize * Pages) = (q * Pages) * PageSize
    BY <1>2, <1>5
  <2>3. c \in Int /\ q * Pages \in Int
    BY <1>1, <1>2, <1>5
  <2> DEFINE d == q * Pages
  <2>4. d \in Int /\ q * (PageSize * Pages) = d * PageSize
    BY <2>2, <2>3
  <2> HIDE DEF d, v
  <2>5. At(v) + 1 = c * PageSize + n * PageSize - d * PageSize
    BY <2>1, <2>4
  <2>6. c * PageSize + n * PageSize - d * PageSize = (c + n - d) * PageSize
    BY <1>2, <2>3, <2>4
  <2>7. QED
    BY <2>5, <2>6 DEF d
<1>7. c + n - q * Pages \in Int
  BY <1>1, <1>2, <1>5
<1>8. (At(v) + 1) % PageSize = 0
  <2> DEFINE d == c + n - q * Pages
             p == PageSize
  <2>1. d \in Int /\ p \in Nat /\ p > 0 /\ At(v) + 1 = d * p
    BY <1>2, <1>6, <1>7
  <2> HIDE DEF d, p, v
  <2>2. (d * p) % p = 0
    BY <2>1, Multiple
  <2>3. QED
    BY <2>1, <2>2 DEF p
<1>9. QED
  BY <1>4, <1>8

LEMMA RegionIs ==
  ASSUME NEW start \in Starts, NEW n \in Int, NEW type, NEW ops
  PROVE  LET r == Region(start, n, type, ops) IN
         /\ RegionShape(r) /\ r.start = start /\ r.end = At(start + n * PageSize - 1)
         /\ r.type = type /\ r.ops = ops /\ r.role = "USERMAP" /\ r.pages = << >>
BY PagesOn DEF Region, RegionShape, RegionFields, NoPages

\* A range of memory with what the kernel may say of it
LEMMA RemapMakes ==
  ASSUME NEW x, Shape(x), NEW start \in Starts, NEW n \in Int, NEW phys
  PROVE  LET y == Remap(x, start, n, phys) IN
         /\ Same(x, y)
         /\ Going(y) => /\ RegionShape(y.new) /\ y.new.start = start /\ y.new.end = At(start + n * PageSize - 1)
                        /\ y.new.type = "RANGEMAP" /\ y.new.ops = "kernel" /\ y.new.phys = phys
<1> DEFINE w == HeapAlloc(x)
           r == [Region(start, n, "RANGEMAP", "kernel") EXCEPT !.phys = phys]
           z == [w EXCEPT !.new = r]
<1>1. Same(x, w)
  BY HeapAllocSame
<1>2. Remap(x, start, n, phys) = IF Going(w) THEN z ELSE w
  BY DEF Remap, Then
<1>3. /\ RegionShape(r) /\ r.start = start /\ r.end = At(start + n * PageSize - 1)
      /\ r.type = "RANGEMAP" /\ r.ops = "kernel" /\ r.phys = phys
  BY RegionIs DEF RegionShape, RegionFields, Region
<1> HIDE DEF w, r
<1>4. Same(w, z) /\ z.new = r
  BY <1>1 DEF Same, Shape, Fields
<1>5. Same(x, z)
  BY <1>1, <1>4, SameTrans
<1>6. QED
  BY <1>1, <1>2, <1>3, <1>4, <1>5

LEMMA VremapNewMakes ==
  ASSUME NEW x, Shape(x), NEW r, r.start \in Starts, r.pages \in Int, NEW ops
  PROVE  LET y == VremapNew(x, r, ops) IN
         /\ Same(x, y)
         /\ Going(y) => y.new = Region(r.start, r.pages, "PAGEMAP", ops)
<1> DEFINE h1 == IF Going(x) THEN HeapAlloc(x) ELSE x
           h2 == IF Going(h1) THEN HeapAlloc(h1) ELSE h1
           h3 == IF Going(h2) THEN HeapAlloc(h2) ELSE h2
           h4 == IF Going(h3) THEN HeapAlloc(h3) ELSE h3
           w == IF Going(h4) THEN Instance(h4) ELSE h4
           z == [w EXCEPT !.new = Region(r.start, r.pages, "PAGEMAP", ops)]
<1>1. VremapNew(x, r, ops) = IF Going(w) THEN z ELSE w
  BY DEF VremapNew, Then
<1>2. \A u : Same(x, u) => Same(x, HeapAlloc(u)) /\ Same(x, Instance(u))
  BY HeapAllocSame, InstanceSame, SameTrans DEF Same
<1>3. Same(x, x)
  BY DEF Same
<1>4. Same(x, h1)
  BY <1>2, <1>3
<1> HIDE DEF h1
<1>5. Same(x, h2)
  BY <1>2, <1>4
<1> HIDE DEF h2
<1>6. Same(x, h3)
  BY <1>2, <1>5
<1> HIDE DEF h3
<1>7. Same(x, h4)
  BY <1>2, <1>6
<1> HIDE DEF h4
<1>8. Same(x, w)
  BY <1>2, <1>7
<1> HIDE DEF w
<1>9. Same(w, z) /\ z.new = Region(r.start, r.pages, "PAGEMAP", ops)
  BY <1>8 DEF Same, Shape, Fields
<1>10. Same(x, z)
  BY <1>8, <1>9, SameTrans
<1> HIDE DEF z
<1>11. QED
  BY <1>1, <1>8, <1>9, <1>10

-----------------------------------------------------------------------------
(* Pages that wait for their region.                                        *)

LEMMA LedgerReserved ==
  ASSUME NEW free, NEW own, Ledger(free, {}, own), NEW Q, Q \subseteq free
  PROVE  Ledger(free \ Q, Q, own)
BY DEF Ledger

LEMMA LedgerFreed ==
  ASSUME NEW free, NEW P, NEW own, Ledger(free, P, own)
  PROVE  Ledger(free \cup P, {}, own)
BY DEF Ledger

\* E says of every page of P, once, who has it.
Tells(E, P) ==
  /\ \A e \in E : e[4] \in P
  /\ \A f \in P : \E e \in E : e[4] = f
  /\ \A e, d \in E : e[4] = d[4] => e = d

LEMMA LedgerGiven ==
  ASSUME NEW free, NEW P, NEW own, Ledger(free, P, own), NEW s \in AllSpaces, NEW E, Tells(E, P), NEW own2,
         own2[s] = own[s] \cup E, \A t \in AllSpaces : t # s => own2[t] = own[t]
  PROVE  Ledger(free, {}, own2)
<1>0. /\ \A e \in E : e[4] \in P
      /\ \A f \in P : \E e \in E : e[4] = f
      /\ \A e, d \in E : e[4] = d[4] => e = d
  BY DEF Tells
<1>1. \A t \in AllSpaces : \A d \in own2[t] : d \in own[t] \/ (t = s /\ d \in E)
  OBVIOUS
<1>2. \A t \in AllSpaces : \A d \in own[t] : d \in own2[t]
  OBVIOUS
<1>3. \A t \in AllSpaces : \A d \in own[t], e \in E : d[4] # e[4]
  BY <1>0 DEF Ledger
<1>4. \A t, u \in AllSpaces : \A c \in own2[t], d \in own2[u] : c[4] = d[4] => t = u /\ c = d
  <2> SUFFICES ASSUME NEW t \in AllSpaces, NEW u \in AllSpaces, NEW c \in own2[t], NEW d \in own2[u], c[4] = d[4]
               PROVE  t = u /\ c = d
    OBVIOUS
  <2>1. CASE c \in own[t] /\ d \in own[u]
    BY <2>1 DEF Ledger
  <2>2. CASE t = s /\ c \in E
    BY <1>0, <1>1, <1>3, <2>2
  <2>3. CASE u = s /\ d \in E
    BY <1>0, <1>1, <1>3, <2>3
  <2>4. QED
    BY <1>1, <2>1, <2>2, <2>3
<1>5. \A g \in Frames : g \in free \/ \E t \in AllSpaces : \E d \in own2[t] : d[4] = g
  <2> SUFFICES ASSUME NEW g \in Frames, g \notin free
               PROVE  \E t \in AllSpaces : \E d \in own2[t] : d[4] = g
    OBVIOUS
  <2>1. CASE g \in P
    <3>1. PICK e \in E : e[4] = g
      BY <1>0, <2>1
    <3>2. QED
      BY <3>1
  <2>2. CASE g \notin P
    <3>1. PICK t \in AllSpaces : \E d \in own[t] : d[4] = g
      BY <2>2 DEF Ledger
    <3>2. QED
      BY <1>2, <3>1
  <2>3. QED
    BY <2>1, <2>2
<1>6. \A t \in AllSpaces : \A d \in own2[t] : d[4] \in Frames /\ d[4] \notin free
  BY <1>0, <1>1 DEF Ledger
<1>7. QED
  BY <1>4, <1>5, <1>6 DEF Ledger

\* F is all the pages the entries of E tell.
Told(F, E) == \A f : f \in F <=> \E e \in E : e[4] = f

\* What a space had is free again.
LEMMA LedgerReturned ==
  ASSUME NEW free, NEW own, Ledger(free, {}, own), NEW s \in AllSpaces, NEW own2, own2[s] = {},
         \A t \in AllSpaces : t # s => own2[t] = own[t],
         NEW F, Told(F, own[s])
  PROVE  Ledger(free \cup F, {}, own2)
<1>0. \A f : f \in F <=> \E e \in own[s] : e[4] = f
  BY DEF Told
<1>1. \A t \in AllSpaces : \A d \in own2[t] : d \in own[t] /\ t # s
  OBVIOUS
<1>2. \A f \in F : f \in Frames
  BY <1>0 DEF Ledger
<1>3. \A t \in AllSpaces : \A d \in own2[t] : d[4] \in Frames /\ d[4] \notin free \cup F
  BY <1>0, <1>1 DEF Ledger
<1>4. \A t, u \in AllSpaces : \A c \in own2[t], d \in own2[u] : c[4] = d[4] => t = u /\ c = d
  BY <1>1 DEF Ledger
<1>5. \A g \in Frames : g \in free \cup F \/ \E t \in AllSpaces : \E d \in own2[t] : d[4] = g
  BY <1>0 DEF Ledger
<1>6. QED
  BY <1>2, <1>3, <1>4, <1>5 DEF Ledger

\* What AllocColored has done after m pages
Got(x, y, from, m) ==
  /\ Shape(y) /\ y.ret = x.ret
  /\ y.failure = "none" =>
       /\ x.failure = "none" /\ y.space = x.space
       /\ DOMAIN y.new = RegionFields
       /\ \A field \in RegionFields \ {"pages"} : y.new[field] = x.new[field]
       /\ DOMAIN y.new.pages = DOMAIN x.new.pages \cup (from .. from + m - 1)
       /\ \A o \in DOMAIN x.new.pages \ (from .. from + m - 1) : y.new.pages[o] = x.new.pages[o]
       /\ x.free \subseteq Frames =>
            /\ \A o \in from .. from + m - 1 : y.new.pages[o].phys \in x.free
            /\ \A o, q \in from .. from + m - 1 : y.new.pages[o].phys = y.new.pages[q].phys => o = q
            /\ \A f : f \in y.free <=> f \in x.free /\ \A o \in from .. from + m - 1 : y.new.pages[o].phys # f

LEMMA AllocPageGot ==
  ASSUME NEW x, Shape(x), DOMAIN x.new = RegionFields,
         NEW from \in Nat, NEW m \in Nat, NEW y, Going(y), Got(x, y, from, m)
  PROVE  Got(x, AllocPage(y, from + m), from, m + 1)
<1> DEFINE o == from + m
           f == FirstFree(y)
           z == [y EXCEPT !.mem = IF DOMAIN y.new.pages = {} THEN @ - 1 ELSE @,
                          !.new.pages = PutPage(@, o, FirstFree(y)),
                          !.free = @ \ {FirstFree(y)}]
<1>1. CASE y.free = {} \/ (DOMAIN y.new.pages = {} /\ y.mem = 0)
  BY <1>1, FailingSame DEF AllocPage, Got, Same, Failing, Shape, Fields
<1>2. CASE ~(y.free = {} \/ (DOMAIN y.new.pages = {} /\ y.mem = 0))
  <2>1. AllocPage(y, o) = z
    BY <1>2 DEF AllocPage
  <2>2. (x.free \subseteq Frames => y.free \subseteq Frames) /\ y.failure = "none"
    BY DEF Got, Going
  <2>3. x.free \subseteq Frames => f \in y.free
    BY <1>2, <2>2, FirstFreeIs
  <2>4. DOMAIN y.new = RegionFields
    BY <2>2 DEF Got
  <2> DEFINE pages == PutPage(y.new.pages, o, f)
  <2>5. /\ Shape(z) /\ z.ret = y.ret /\ z.failure = "none" /\ z.space = y.space
        /\ z.new = [y.new EXCEPT !.pages = pages]
        /\ z.free = y.free \ {f}
    BY <2>2 DEF Got, Shape, Fields
  <2>6. z.new.pages = pages
    BY <2>4, <2>5 DEF RegionFields
  <2>7. /\ DOMAIN pages = DOMAIN y.new.pages \cup {o}
        /\ pages[o].phys = f
        /\ \A q \in DOMAIN y.new.pages : q # o => pages[q] = y.new.pages[q]
    BY DEF PutPage
  <2>8. from .. from + (m + 1) - 1 = (from .. from + m - 1) \cup {o} /\ o \notin from .. from + m - 1
    OBVIOUS
  <2> HIDE DEF z, pages, f, o
  <2>9. DOMAIN z.new = RegionFields /\ \A field \in RegionFields \ {"pages"} : z.new[field] = x.new[field]
    BY <2>2, <2>4, <2>5 DEF Got
  <2>10. /\ DOMAIN z.new.pages = DOMAIN x.new.pages \cup (from .. from + (m + 1) - 1)
         /\ \A q \in DOMAIN x.new.pages \ (from .. from + (m + 1) - 1) : z.new.pages[q] = x.new.pages[q]
    BY <2>2, <2>6, <2>7, <2>8 DEF Got
  <2>11. ASSUME x.free \subseteq Frames
         PROVE  /\ \A q \in from .. from + (m + 1) - 1 : z.new.pages[q].phys \in x.free
                /\ \A p, q \in from .. from + (m + 1) - 1 : z.new.pages[p].phys = z.new.pages[q].phys => p = q
                /\ \A g : g \in z.free <=>
                     g \in x.free /\ \A q \in from .. from + (m + 1) - 1 : z.new.pages[q].phys # g
    <3>1. \A q \in from .. from + m - 1 : z.new.pages[q].phys = y.new.pages[q].phys /\ y.new.pages[q].phys # f
      BY <2>2, <2>3, <2>6, <2>7, <2>8, <2>11 DEF Got
    <3>2. z.new.pages[o].phys = f /\ f \in x.free
      BY <2>2, <2>3, <2>6, <2>7, <2>11 DEF Got
    <3>3. \A q \in from .. from + (m + 1) - 1 : z.new.pages[q].phys \in x.free
      BY <2>2, <2>8, <2>11, <3>1, <3>2 DEF Got
    <3>4. \A p, q \in from .. from + (m + 1) - 1 : z.new.pages[p].phys = z.new.pages[q].phys => p = q
      BY <2>2, <2>8, <2>11, <3>1, <3>2 DEF Got
    <3>5. \A g : g \in z.free <=> g \in x.free /\ \A q \in from .. from + (m + 1) - 1 : z.new.pages[q].phys # g
      BY <2>2, <2>5, <2>8, <2>11, <3>1, <3>2 DEF Got
    <3>6. QED
      BY <3>3, <3>4, <3>5
  <2>16. Got(x, z, from, m + 1)
    BY <2>2, <2>5, <2>9, <2>10, <2>11 DEF Got
  <2>17. QED
    BY <2>1, <2>16 DEF o
<1>3. QED
  BY <1>1, <1>2

LEMMA AllocColoredGot ==
  ASSUME NEW x, Shape(x), Going(x), DOMAIN x.new = RegionFields, NEW from \in Nat, NEW n \in Nat
  PROVE  Got(x, AllocColored(x, from, n), from, n)
<1> DEFINE v == AllocColored(x, from, n)
<1> HIDE DEF v
<1>0. v = AllocColored(x, from, n)
  BY DEF v
<1>1. PICK f, seq, tag, y :
        /\ Run(f, tag, y, seq) /\ v = f[n]
        /\ Len(seq) = n /\ \A i \in 1 .. n : seq[i] = from + i - 1
        /\ tag = <<"alloc">> /\ y = x
  BY <1>0, AllocColoredRun, SMTT(30)
<1> DEFINE S == {i \in 0 .. n : Got(x, f[i], from, i)}
<1>2. 0 \in S
  <2>1. f[0] = x
    BY <1>1 DEF Run
  <2>2. from .. from + 0 - 1 = {}
    OBVIOUS
  <2>3. Got(x, x, from, 0)
    BY <2>2 DEF Got, Going
  <2>4. QED
    BY <2>1, <2>3
<1>3. ASSUME NEW i \in 1 .. n, i - 1 \in S PROVE i \in S
  <2> DEFINE z == f[i - 1]
             m == i - 1
  <2>1. f[i] = (IF Going(z) THEN AllocPage(z, from + m) ELSE z) /\ Got(x, z, from, m)
    BY <1>1, <1>3 DEF Run, TurnOf, StepOf
  <2>2. m \in Nat /\ m + 1 = i
    OBVIOUS
  <2> HIDE DEF z, m
  <2>3. CASE Going(z)
    <3>1. Got(x, AllocPage(z, from + m), from, m + 1)
      BY <2>1, <2>2, <2>3, AllocPageGot
    <3>2. QED
      BY <2>1, <2>2, <2>3, <3>1
  <2>4. CASE ~Going(z)
    BY <2>1, <2>4 DEF Got, Going
  <2>5. QED
    BY <2>3, <2>4
<1> HIDE DEF S
<1>4. n \in S
  BY <1>2, <1>3, UpTo
<1>5. QED
  BY <1>0, <1>1, <1>4 DEF S

-----------------------------------------------------------------------------
(* A region that is not yet one of a space.                                 *)

\* Its pages are booked to nobody, and it has each of them once.
Waiting(x, r) ==
  /\ Shape(x)
  /\ x.failure = "none" => \A s \in AllSpaces : Disjoint(x.space[s].regions)
  /\ (x.failure = "none" /\ SegmentsFit) =>
       /\ \A s \in AllSpaces : \A b \in DOMAIN x.space[s].regions : Sized(x.space[s].regions[b])
       /\ Ledger(x.free, IF r.ops = "anon" THEN PagesOf(r) ELSE {}, Holdings(x))
       /\ Sized(r)
       /\ r.ops = "anon" => \A o, q \in DOMAIN r.pages : r.pages[o].phys = r.pages[q].phys => o = q

LEMMA WaitingSame ==
  ASSUME NEW x, NEW r, Waiting(x, r), NEW y, Same(x, y)
  PROVE  Waiting(y, r)
<1>1. Holdings(y) = Holdings(x)
  BY DEF Same, Holdings
<1>2. QED
  BY <1>1 DEF Same, Waiting

\* A region the kernel makes of nothing
LEMMA SoundWaiting ==
  ASSUME NEW x, Sound(x), NEW r, r.ops # "anon", Sized(r)
  PROVE  Waiting(x, r)
BY DEF Sound, Waiting, Booked

\* Only its role is chosen later.
LEMMA WaitingRole ==
  ASSUME NEW x, NEW r, Waiting(x, r), RegionShape(r), NEW q, NEW role, q = [r EXCEPT !.role = role],
         role = "DATASEG" => r.ops = "anon"
  PROVE  Waiting(x, q) /\ RegionShape(q)
<1>1. /\ q.start = r.start /\ q.end = r.end /\ q.type = r.type /\ q.ops = r.ops /\ q.pages = r.pages
      /\ q.role = role /\ DOMAIN q = RegionFields
  BY DEF RegionShape, RegionFields
<1>2. Sized(r) => Sized(q)
  BY <1>1 DEF Sized, HasPages, Persistent, Within
<1>3. PagesOf(q) = PagesOf(r)
  BY <1>1 DEF PagesOf
<1>4. Waiting(x, q)
  BY <1>1, <1>2, <1>3 DEF Waiting
<1>5. RegionShape(q)
  BY <1>1 DEF RegionShape
<1>6. QED
  BY <1>4, <1>5

\* vm_region_anonmap: the region has all its pages, or nothing was taken.
LEMMA AnonMapMakes ==
  ASSUME NEW x, Sound(x), Going(x), NEW start \in Starts, NEW n \in Nat,
         SegmentsFit => n < Pages /\ start + n * PageSize <= Width
  PROVE  LET y == AnonMap(x, start, n) IN
         /\ Shape(y)
         /\ y.failure = "none" => x.failure = "none" /\ y.space = x.space
         /\ y.ret = -1 => Same(x, y)
         /\ Going(y) => /\ Waiting(y, y.new) /\ RegionShape(y.new)
                        /\ y.new.start = start /\ y.new.ops = "anon" /\ y.new.type = "PAGEMAP"
<1> DEFINE h1 == IF Going(x) THEN HeapAlloc(x) ELSE x
           h2 == IF Going(h1) THEN HeapAlloc(h1) ELSE h1
           w == IF Going(h2) THEN Instance(h2) ELSE h2
           r == Region(start, n, "PAGEMAP", "anon")
           z == [w EXCEPT !.new = r]
           y == AllocColored(z, 0, n)
<1>1. AnonMap(x, start, n) = IF Going(w) THEN y ELSE w
  BY DEF AnonMap, Then
<1>2. \A u : Same(x, u) => Same(x, HeapAlloc(u)) /\ Same(x, Instance(u))
  BY HeapAllocSame, InstanceSame, SameTrans DEF Same
<1>3. Same(x, x)
  BY DEF Same, Sound
<1>4. Same(x, h1)
  BY <1>2, <1>3
<1> HIDE DEF h1
<1>5. Same(x, h2)
  BY <1>2, <1>4
<1> HIDE DEF h2
<1>6. Same(x, w)
  BY <1>2, <1>5
<1> HIDE DEF w
<1>7. Same(w, z) /\ z.new = r
  BY <1>6 DEF Same, Shape, Fields
<1>8. Same(x, z)
  BY <1>6, <1>7, SameTrans
<1>9. /\ RegionShape(r) /\ r.start = start /\ r.end = At(start + n * PageSize - 1)
      /\ r.type = "PAGEMAP" /\ r.ops = "anon" /\ r.role = "USERMAP" /\ r.pages = << >>
  BY RegionIs
<1>10. Going(w) => Going(z)
  BY <1>6 DEF Going, Same, Shape, Fields
<1> HIDE DEF z, r
<1>11. CASE ~Going(w)
  BY <1>1, <1>6, <1>11 DEF Same, Going
<1>12. CASE Going(w)
  <2>1. Shape(z) /\ DOMAIN z.new = RegionFields /\ 0 \in Nat
    BY <1>7, <1>9 DEF Same, RegionShape
  <2>2. Got(z, y, 0, n)
    BY <1>10, <1>12, <2>1, AllocColoredGot
  <2> HIDE DEF y
  <2>3. Shape(y) /\ y.ret = 0
    BY <1>10, <1>12, <2>2 DEF Got, Going
  <2>4. CASE y.failure # "none"
    BY <1>1, <1>12, <2>3, <2>4 DEF Going
  <2>5. CASE y.failure = "none"
    <3>1. y.space = x.space /\ x.failure = "none"
      BY <1>8, <2>2, <2>5 DEF Got, Same
    <3>2. /\ DOMAIN y.new = RegionFields /\ \A field \in RegionFields \ {"pages"} : y.new[field] = r[field]
          /\ DOMAIN y.new.pages = 0 .. n - 1
      BY <1>7, <1>9, <2>2, <2>5 DEF Got
    <3>3. /\ DOMAIN y.new = RegionFields /\ y.new.start = start /\ y.new.end = r.end
          /\ y.new.type = "PAGEMAP" /\ y.new.ops = "anon" /\ y.new.role = "USERMAP"
      BY <1>9, <3>2 DEF RegionShape, RegionFields
    <3>4. RegionShape(y.new)
      BY <1>9, <3>3 DEF RegionShape
    <3>5. \A s \in AllSpaces : Disjoint(y.space[s].regions)
      BY <3>1 DEF Sound
    <3>6. ASSUME SegmentsFit
          PROVE  /\ \A s \in AllSpaces : \A b \in DOMAIN y.space[s].regions : Sized(y.space[s].regions[b])
                 /\ Ledger(y.free, PagesOf(y.new), Holdings(y))
                 /\ Sized(y.new)
                 /\ \A o, q \in DOMAIN y.new.pages : y.new.pages[o].phys = y.new.pages[q].phys => o = q
      <4>1. \A s \in AllSpaces : \A b \in DOMAIN y.space[s].regions : Sized(y.space[s].regions[b])
        BY <3>1, <3>6 DEF Sound
      <4>2. Ledger(x.free, {}, Holdings(x)) /\ z.free = x.free
        BY <1>8, <3>1, <3>6 DEF Sound, Booked, Same
      <4>3. /\ \A o \in 0 .. n - 1 : y.new.pages[o].phys \in x.free
            /\ \A o, q \in 0 .. n - 1 : y.new.pages[o].phys = y.new.pages[q].phys => o = q
            /\ \A f : f \in y.free <=> f \in x.free /\ \A o \in 0 .. n - 1 : y.new.pages[o].phys # f
        <5>1. x.free \subseteq Frames
          BY <4>2 DEF Ledger
        <5>2. 0 .. 0 + n - 1 = 0 .. n - 1
          OBVIOUS
        <5>3. QED
          BY <2>2, <2>5, <4>2, <5>1, <5>2 DEF Got
      <4>4. HasPages(y.new, n)
        BY <1>9, <3>2, <3>3, <3>6 DEF HasPages
      <4>5. Sized(y.new)
        BY <3>3, <4>4 DEF Sized
      <4>6. PagesOf(y.new) \subseteq x.free /\ y.free = x.free \ PagesOf(y.new)
        BY <3>2, <4>3 DEF PagesOf
      <4>7. Holdings(y) = Holdings(x)
        BY <3>1 DEF Holdings
      <4> DEFINE free == x.free
                 Q == PagesOf(y.new)
                 own == Holdings(x)
      <4>8. Ledger(free, {}, own) /\ Q \subseteq free
        BY <4>2, <4>6
      <4> HIDE DEF free, Q, own
      <4>9. Ledger(free \ Q, Q, own)
        BY <4>8, LedgerReserved
      <4>10. QED
        BY <3>2, <4>1, <4>3, <4>5, <4>6, <4>7, <4>9 DEF free, Q, own
    <3>7. Waiting(y, y.new)
      BY <2>3, <3>3, <3>5, <3>6 DEF Waiting
    <3>8. QED
      BY <1>1, <1>12, <2>3, <3>1, <3>3, <3>4, <3>7
  <2>6. QED
    BY <2>4, <2>5
<1>13. QED
  BY <1>11, <1>12

-----------------------------------------------------------------------------
(* Where a region may be put.                                               *)

LEMMA ModIs ==
  ASSUME NEW p \in Nat, p > 0, NEW c \in Int, NEW m \in 0 .. p - 1
  PROVE  (c * p + m) % p = m /\ (c * p + m) \div p = c
<1> DEFINE v == c * p + m
           q == v \div p
           n == v % p
<1>1. v \in Int
  OBVIOUS
<1>2. q \in Int /\ n \in 0 .. p - 1 /\ v = q * p + n
  <2> HIDE DEF v
  <2>1. QED
    BY <1>1
<1>3. c * p + m = q * p + n
  BY <1>2
<1> HIDE DEF q, n
<1>4. (c - q) * p = n - m
  BY <1>2, <1>3
<1>5. ~(c - q >= 1)
  <2>1. SUFFICES ASSUME c - q >= 1 PROVE FALSE
    OBVIOUS
  <2>2. (c - q) * p >= 1 * p
    BY <1>2, <2>1
  <2>3. QED
    BY <1>2, <1>4, <2>2
<1>6. ~(c - q <= -1)
  <2>1. SUFFICES ASSUME c - q <= -1 PROVE FALSE
    OBVIOUS
  <2>2. (c - q) * p <= (-1) * p
    BY <1>2, <2>1
  <2>3. QED
    BY <1>2, <1>4, <2>2
<1>7. c = q
  BY <1>2, <1>5, <1>6
<1>8. m = n
  BY <1>2, <1>4, <1>7
<1>9. QED
  BY <1>7, <1>8 DEF q, n

LEMMA AtNear ==
  ASSUME NEW v \in Word
  PROVE  At(v) = v /\ At(v + Width) = v /\ At(v - Width) = v
<1>1. Width \in Nat /\ Width > 0 /\ v \in 0 .. Width - 1
  BY PageNumbers DEF Word
<1>2. /\ (0 * Width + v) % Width = v /\ (1 * Width + v) % Width = v /\ ((-1) * Width + v) % Width = v
  BY <1>1, ModIs
<1>3. 0 * Width + v = v /\ 1 * Width + v = v + Width /\ (-1) * Width + v = v - Width
  BY <1>1
<1>4. QED
  BY <1>2, <1>3 DEF At

\* The end of a region is its start and the pages it spans.
LEMMA SpanIs ==
  ASSUME NEW r, RegionShape(r)
  PROVE  At(r.start + (At(r.end + 1 - r.start) \div PageSize) * PageSize - 1) = r.end
<1> DEFINE d == r.end + 1 - r.start
           n == At(d) \div PageSize
<1>1. r.end \in Word /\ (r.end + 1) % PageSize = 0 /\ r.start \in Starts /\ r.start \in Word
  BY DEF RegionShape, Starts, Word
<1>2. PageSize \in Nat /\ PageSize > 1 /\ Pages \in Nat /\ Width \in Nat /\ Width > 0 /\ Width = PageSize * Pages
  BY PageNumbers
<1>3. d \in Int /\ -Width < d /\ d <= Width
  BY <1>1, <1>2 DEF Word
<1>4. At(d) = d \/ At(d) = d + Width \/ At(d) = d - Width
  <2>1. CASE d < 0
    <3>1. d + Width \in Word
      BY <1>2, <1>3, <2>1 DEF Word
    <3>2. At((d + Width) - Width) = d + Width
      BY <3>1, AtNear
    <3>3. QED
      BY <1>2, <1>3, <3>2
  <2>2. CASE d \in Word
    BY <2>2, AtNear
  <2>3. CASE d = Width
    <3>1. 0 \in Word
      BY <1>2 DEF Word
    <3>2. At(0 + Width) = 0
      BY <3>1, AtNear
    <3>3. QED
      BY <1>2, <2>3, <3>2
  <2>4. QED
    BY <1>2, <1>3, <2>1, <2>2, <2>3 DEF Word
<1>5. \E c \in Int : At(d) = c * PageSize
  <2>1. PICK c \in 0 .. Pages - 1 : r.start = c * PageSize
    BY <1>1, StartPages
  <2> DEFINE e == (r.end + 1) \div PageSize
  <2>2. e \in Int /\ r.end + 1 = e * PageSize
    <3>1. r.end + 1 \in Int
      BY <1>1, <1>2 DEF Word
    <3>2. e \in Int /\ r.end + 1 = e * PageSize + ((r.end + 1) % PageSize)
      BY <1>2, <3>1
    <3>3. QED
      BY <1>1, <1>2, <3>2
  <2> HIDE DEF e
  <2>3. d = (e - c) * PageSize /\ d + Width = (e - c + Pages) * PageSize /\ d - Width = (e - c - Pages) * PageSize
    <3>1. c \in Int /\ e \in Int /\ PageSize \in Int /\ Pages \in Int
      BY <1>2, <2>2
    <3>2. /\ (e - c) * PageSize = e * PageSize - c * PageSize
          /\ (e - c + Pages) * PageSize = e * PageSize - c * PageSize + PageSize * Pages
          /\ (e - c - Pages) * PageSize = e * PageSize - c * PageSize - PageSize * Pages
      BY <3>1
    <3>3. d = e * PageSize - c * PageSize
      <4> DEFINE A == e * PageSize
                 B == c * PageSize
      <4>1. A \in Int /\ B \in Int /\ r.end + 1 = A /\ r.start = B /\ r.end \in Int
        BY <1>1, <1>2, <2>1, <2>2, <3>1 DEF Word
      <4> HIDE DEF A, B
      <4>2. r.end + 1 - r.start = A - B
        BY <4>1
      <4>3. QED
        BY <4>2 DEF A, B
    <3>4. QED
      BY <1>2, <3>2, <3>3
  <2>4. e - c \in Int /\ e - c + Pages \in Int /\ e - c - Pages \in Int
    BY <1>2, <2>1, <2>2
  <2>5. QED
    BY <1>4, <2>3, <2>4
<1>6. n * PageSize = At(d)
  <2>1. PICK c \in Int : At(d) = c * PageSize
    BY <1>5
  <2> DEFINE p == PageSize
  <2>2. p \in Nat /\ p > 0 /\ 0 \in 0 .. p - 1
    BY <1>2
  <2> HIDE DEF p
  <2>3. (c * p + 0) \div p = c
    BY <2>2, ModIs
  <2>4. c * p + 0 = c * p
    BY <2>2
  <2>5. QED
    BY <2>1, <2>3, <2>4 DEF p
<1> DEFINE v == r.start + n * PageSize - 1
<1>7. v = r.end \/ v = r.end + Width \/ v = r.end - Width
  <2> HIDE DEF n
  <2>1. QED
    BY <1>1, <1>2, <1>4, <1>6 DEF Word
<1> HIDE DEF v
<1>8. At(v) = r.end
  BY <1>1, <1>7, AtNear
<1>9. QED
  BY <1>8 DEF v

\* The nearest of some numbers below and above a.
LEMMA NearestBelow ==
  ASSUME NEW S \in SUBSET Nat, NEW a \in Nat, NEW c \in S, c <= a
  PROVE  \E m \in S : m <= a /\ \A b \in S : b <= a => b <= m
<1> DEFINE T == {n \in 0 .. a : a - n \in S}
<1>1. T \in SUBSET Nat /\ a - c \in T
  OBVIOUS
<1>2. PICK n \in T : \A i \in T : n <= i
  BY <1>1, Least
<1>3. \A b \in S : b <= a => a - b \in T
  OBVIOUS
<1>4. \A b \in S : b <= a => n <= a - b
  BY <1>2, <1>3
<1>5. a - n \in S /\ a - n <= a /\ \A b \in S : b <= a => b <= a - n
  BY <1>4
<1>6. QED
  BY <1>5

LEMMA NearestAbove ==
  ASSUME NEW S \in SUBSET Nat, NEW a \in Nat, NEW c \in S, c >= a
  PROVE  \E m \in S : m >= a /\ \A b \in S : b >= a => b >= m
<1> DEFINE T == {n \in S : n >= a}
<1>1. T \in SUBSET Nat /\ c \in T
  OBVIOUS
<1>2. PICK n \in T : \A i \in T : n <= i
  BY <1>1, Least
<1>3. QED
  BY <1>2

LEMMA NoOverlap ==
  ASSUME NEW R, Disjoint(R), NEW r, RegionShape(r),
         ~Overlaps(R, r.start, At(r.end + 1 - r.start) \div PageSize)
  PROVE  /\ \A b \in DOMAIN R : b < r.start => R[b].end < r.start
         /\ \A b \in DOMAIN R : b > r.start => r.end < b
         /\ r.start \in DOMAIN R => R[r.start].end < r.start
<1> DEFINE a == r.start
<1>1. /\ \A b \in Leftwards(R, a) : ~(a <= R[b].end)
      /\ \A b \in Rightwards(R, a) : ~(b < r.end)
  BY SpanIs DEF Overlaps
<1>2. PageSize \in Nat /\ PageSize > 1 /\ Width \in Nat
  BY PageNumbers
<1>3. DOMAIN R \in SUBSET Nat /\ a \in Nat /\ \A b \in DOMAIN R : R[b].start = b /\ R[b].end \in Nat
  BY <1>2 DEF Disjoint, RegionShape, Starts, Word
<1>4. ASSUME NEW b \in DOMAIN R, b <= a PROVE R[b].end < a
  <2>1. PICK m \in DOMAIN R : m <= a /\ \A c \in DOMAIN R : c <= a => c <= m
    <3>1. DOMAIN R \in SUBSET Nat /\ a \in Nat /\ b \in DOMAIN R /\ b <= a
      BY <1>3, <1>4
    <3> HIDE DEF a
    <3>2. QED
      BY <3>1, NearestBelow, Zenon
  <2>2. m \in Leftwards(R, a)
    BY <2>1 DEF Leftwards
  <2>3. R[m].end < a
    BY <1>1, <1>3, <2>2
  <2>4. b <= m /\ (b < m => R[b].end < R[m].start)
    BY <1>3, <1>4, <2>1 DEF Disjoint
  <2>5. QED
    BY <1>3, <2>1, <2>3, <2>4
<1>5. ASSUME NEW b \in DOMAIN R, b > a PROVE r.end < b
  <2>1. PICK m \in DOMAIN R : m >= a /\ \A c \in DOMAIN R : c >= a => c >= m
    <3>1. DOMAIN R \in SUBSET Nat /\ a \in Nat /\ b \in DOMAIN R /\ b >= a
      <4>1. b \in Nat /\ b >= a
        BY <1>3, <1>5
      <4>2. QED
        BY <1>3, <4>1
    <3> HIDE DEF a
    <3>2. QED
      BY <3>1, NearestAbove, Zenon
  <2>2. m \in Rightwards(R, a)
    BY <2>1 DEF Rightwards
  <2>3. r.end <= m /\ m <= b /\ r.end \in Nat
    BY <1>1, <1>2, <1>3, <1>5, <2>1, <2>2 DEF RegionShape, Word
  <2>4. r.end # b
    <3>1. b % PageSize = 0 /\ (r.end + 1) % PageSize = 0 /\ b \in Nat
      BY <1>3 DEF Disjoint, RegionShape, Starts
    <3>2. b % PageSize = 0 => (b + 1) % PageSize # 0
      <4> SUFFICES ASSUME b % PageSize = 0 PROVE (b + 1) % PageSize = 1
        OBVIOUS
      <4> DEFINE p == PageSize
                 c == b \div p
      <4>1. p \in Nat /\ p > 1 /\ 1 \in 0 .. p - 1
        BY <1>2
      <4>2. c \in Int /\ b = c * p + (b % p)
        <5> HIDE DEF p
        <5>1. b \in Int
          BY <3>1
        <5>2. QED
          BY <4>1, <5>1
      <4>3. b + 1 = c * p + 1
        BY <1>3, <4>1, <4>2
      <4> HIDE DEF p, c
      <4>4. (c * p + 1) % p = 1
        BY <4>1, <4>2, ModIs
      <4>5. QED
        BY <4>3, <4>4 DEF p
    <3>3. QED
      BY <3>1, <3>2
  <2>5. QED
    BY <1>3, <2>3, <2>4
<1>6. QED
  BY <1>3, <1>4, <1>5

LEMMA DisjointInsert ==
  ASSUME NEW R, Disjoint(R), NEW r, RegionShape(r), NEW Q, DOMAIN Q = DOMAIN R \cup {r.start}, Q[r.start] = r,
         \A b \in DOMAIN R : b # r.start => Q[b] = R[b],
         \A b \in DOMAIN R : b < r.start => R[b].end < r.start,
         \A b \in DOMAIN R : b > r.start => r.end < b
  PROVE  Disjoint(Q)
<1>1. Width \in Nat /\ DOMAIN R \subseteq Nat /\ r.start \in Nat
  BY PageNumbers DEF Disjoint, RegionShape, Starts
<1>2. DOMAIN Q \subseteq Starts /\ \A b \in DOMAIN Q : RegionShape(Q[b]) /\ Q[b].start = b
  BY DEF Disjoint, RegionShape
<1>3. ASSUME NEW a \in DOMAIN Q, NEW b \in DOMAIN Q, a < b
      PROVE  Q[a].end < Q[b].start
  <2>1. a # b
    BY <1>1, <1>3
  <2>2. CASE a = r.start
    BY <1>2, <1>3, <2>1, <2>2 DEF Disjoint
  <2>3. CASE b = r.start
    BY <1>2, <1>3, <2>1, <2>3 DEF Disjoint
  <2>4. CASE a # r.start /\ b # r.start
    BY <1>3, <2>4 DEF Disjoint
  <2>5. QED
    BY <2>2, <2>3, <2>4
<1>4. QED
  BY <1>2, <1>3 DEF Disjoint

-----------------------------------------------------------------------------
(* What is written to the page tables.                                      *)

\* The pages W have the entries e, the other pages what they had, and no table
\* is lost.
Wrote(s, x, y, W, e) ==
  /\ Shape(y) /\ y.free \subseteq Frames /\ y.space[s].unmapped = x.space[s].unmapped
  /\ DOMAIN y.space[s].entry = PageNumber
  /\ \A p \in PageNumber : y.space[s].entry[p] = IF p \in W THEN e[p] ELSE x.space[s].entry[p]
  /\ \A g \in TableIndices : x.space[s].tables[g] # 0 => y.space[s].tables[g] # 0
  /\ \A p \in W : y.space[s].tables[p \div PagesPerTable] # 0

LEMMA TableOf ==
  ASSUME NEW p \in PageNumber
  PROVE  /\ p \div PagesPerTable \in TableIndices
         /\ (p % PagesPerTable # 0 /\ p > 0) => (p - 1) \div PagesPerTable = p \div PagesPerTable
<1> DEFINE t == PagesPerTable
           c == p \div t
           m == p % t
<1>1. t \in Nat /\ t > 0 /\ p \in Int
  BY MachineAssumption DEF PageNumber
<1>2. c \in TableIndices
  BY MachineAssumption DEF TableIndices, PageNumber
<1>3. c \in Int /\ m \in 0 .. t - 1 /\ p = c * t + m
  <2> HIDE DEF t
  <2>1. QED
    BY <1>1
<1>4. ASSUME m # 0 PROVE (p - 1) \div t = c
  <2>1. m - 1 \in 0 .. t - 1 /\ p - 1 = c * t + (m - 1)
    <3> HIDE DEF t, c, m
    <3> DEFINE q == c * t
    <3>1. q \in Int
      BY <1>1, <1>3
    <3>2. p = q + m
      BY <1>3
    <3> HIDE DEF q
    <3>3. p - 1 = q + (m - 1) /\ m - 1 \in 0 .. t - 1
      BY <1>1, <1>3, <1>4, <3>1, <3>2
    <3>4. QED
      BY <3>3 DEF q
  <2> HIDE DEF t, c, m
  <2>2. (c * t + (m - 1)) \div t = c
    BY <1>1, <1>3, <2>1, ModIs
  <2>3. QED
    BY <2>1, <2>2
<1>5. QED
  BY <1>2, <1>4

LEMMA PrepareTableWrites ==
  ASSUME NEW s \in AllSpaces, NEW x, Shape(x), x.free \subseteq Frames, DOMAIN x.space[s].entry = PageNumber,
         NEW page \in PageNumber, NEW y, y = PrepareTable(x, s, page), Going(y), NEW e
  PROVE  Going(x) /\ Wrote(s, x, y, {}, e) /\ y.space[s].tables[page \div PagesPerTable] # 0
<1> DEFINE g == page \div PagesPerTable
           f == FirstFree(x)
<1>1. g \in TableIndices
  BY TableOf
<1>2. CASE x.space[s].tables[g] # 0
  <2>1. y = x
    BY <1>2 DEF PrepareTable
  <2>2. QED
    BY <1>2, <2>1 DEF Wrote
<1>3. CASE x.space[s].tables[g] = 0 /\ x.free = {}
  <2>1. y = [x EXCEPT !.ret = -1]
    BY <1>3 DEF PrepareTable
  <2>2. y.ret = -1
    BY <2>1 DEF Shape, Fields
  <2>3. QED
    BY <2>2 DEF Going
<1>4. CASE x.space[s].tables[g] = 0 /\ x.free # {}
  <2>1. y = [x EXCEPT !.space[s].tables[g] = f, !.free = @ \ {f}]
    BY <1>4 DEF PrepareTable
  <2>2. f # 0
    BY <1>4, FirstFreeIs
  <2> HIDE DEF f, g
  <2>3. /\ Shape(y) /\ y.failure = x.failure /\ y.ret = x.ret /\ y.free = x.free \ {f}
        /\ y.space[s].tables = [x.space[s].tables EXCEPT ![g] = f]
        /\ y.space[s].entry = x.space[s].entry /\ y.space[s].unmapped = x.space[s].unmapped
    BY <1>1, <2>1 DEF Shape, SpaceShape, Fields, SpaceFields
  <2>4. DOMAIN x.space[s].tables = TableIndices
    BY DEF Shape, SpaceShape
  <2>5. y.space[s].tables[g] # 0 /\ \A h \in TableIndices : x.space[s].tables[h] # 0 => y.space[s].tables[h] # 0
    BY <1>1, <2>2, <2>3, <2>4
  <2>6. QED
    BY <2>3, <2>5 DEF Wrote, Going, g
<1>5. QED
  BY <1>2, <1>3, <1>4

LEMMA MapEntryWrites ==
  ASSUME NEW s \in AllSpaces, NEW x, Shape(x), x.free \subseteq Frames, DOMAIN x.space[s].entry = PageNumber,
         NEW page \in PageNumber, page % PagesPerTable = 0 \/ x.space[s].tables[page \div PagesPerTable] # 0,
         NEW e, NEW y, y = MapEntry(x, s, page, e[page]), Going(x), Going(y)
  PROVE  Wrote(s, x, y, {page}, e)
<1> DEFINE z == IF page % PagesPerTable = 0 THEN PrepareTable(x, s, page) ELSE x
<1>1. y = IF Going(z) THEN [z EXCEPT !.space[s].entry[page] = e[page]] ELSE z
  BY DEF MapEntry, Then
<1>2. Going(z)
  BY <1>1
<1>3. Wrote(s, x, z, {}, e) /\ z.space[s].tables[page \div PagesPerTable] # 0
  <2>1. CASE page % PagesPerTable = 0
    BY <1>2, <2>1, PrepareTableWrites
  <2>2. CASE page % PagesPerTable # 0
    BY <2>2 DEF Wrote
  <2>3. QED
    BY <2>1, <2>2
<1> HIDE DEF z
<1>4. /\ Shape(y) /\ y.free = z.free /\ y.space[s].unmapped = z.space[s].unmapped
      /\ y.space[s].entry = [z.space[s].entry EXCEPT ![page] = e[page]]
      /\ y.space[s].tables = z.space[s].tables
  BY <1>1, <1>2, <1>3 DEF Wrote, Shape, SpaceShape, Fields, SpaceFields
<1>5. QED
  BY <1>3, <1>4 DEF Wrote

LEMMA WroteMore ==
  ASSUME NEW s \in AllSpaces, NEW x, NEW y, NEW z, NEW W, NEW V, NEW e, NEW U,
         Wrote(s, x, y, W, e), Wrote(s, y, z, V, e), W \subseteq PageNumber, U = W \cup V
  PROVE  Wrote(s, x, z, U, e)
<1>1. \A p \in W : z.space[s].tables[p \div PagesPerTable] # 0
  BY TableOf DEF Wrote
<1>2. QED
  BY <1>1 DEF Wrote

LEMMA PageNumberIs ==
  /\ Pages \in Nat /\ Pages > 0
  /\ \A p : p \in PageNumber <=> p \in Nat /\ p < Pages
BY MachineAssumption DEF PageNumber

LEMMA PageMod ==
  ASSUME NEW p \in PageNumber
  PROVE  p % Pages = p
<1>1. p \in 0 .. Pages - 1 /\ p = 0 * Pages + p
  BY PageNumberIs DEF PageNumber
<1>2. (0 * Pages + p) % Pages = p
  BY <1>1, PageNumberIs, ModIs
<1>3. QED
  BY <1>1, <1>2

\* n pages from first on
Span(first, n) == {p \in PageNumber : first <= p /\ p < first + n}

LEMMA SpanIsNext ==
  ASSUME NEW first \in Nat, NEW n \in Nat, first + n < Pages
  PROVE  /\ first + n \in PageNumber /\ Span(first, n + 1) = Span(first, n) \cup {first + n}
         /\ Span(first, 0) = {} /\ (n > 0 => first + n - 1 \in Span(first, n))
<1>1. first + n \in PageNumber /\ (n > 0 => first + n - 1 \in PageNumber)
  BY PageNumberIs
<1>2. \A p \in PageNumber : p \in Nat
  BY PageNumberIs
<1>3. QED
  BY <1>1, <1>2 DEF Span

LEMMA SpanZero ==
  ASSUME NEW first \in Nat
  PROVE  Span(first, 0) = {}
BY PageNumberIs DEF Span

\* One more entry
LEMMA EntryWrites ==
  ASSUME NEW s \in AllSpaces, NEW x, NEW z, NEW first \in Nat, NEW n \in Nat, first + n < Pages, NEW e,
         Wrote(s, x, z, Span(first, n), e), z.space[s].tables[first \div PagesPerTable] # 0,
         NEW page, page = first + n,
         NEW y, y = MapEntry(z, s, page, e[page]), Going(z), Going(y)
  PROVE  /\ Wrote(s, x, y, Span(first, n + 1), e)
         /\ y.space[s].tables[first \div PagesPerTable] # 0
<1> DEFINE W == Span(first, n)
           U == Span(first, n + 1)
<1>1. /\ page \in PageNumber /\ U = W \cup {page} /\ W \subseteq PageNumber
      /\ n > 0 => page - 1 \in W
      /\ n = 0 => page = first
  <2>1. first + n \in PageNumber /\ U = W \cup {first + n} /\ (n > 0 => first + n - 1 \in W)
    BY SpanIsNext
  <2>2. W \subseteq PageNumber
    BY DEF Span
  <2> HIDE DEF U, W
  <2>3. QED
    BY <2>1, <2>2
<1>2. first \in PageNumber
  BY PageNumberIs
<1> HIDE DEF W, U
<1>3. page % PagesPerTable = 0 \/ z.space[s].tables[page \div PagesPerTable] # 0
  <2> SUFFICES ASSUME page % PagesPerTable # 0 PROVE z.space[s].tables[page \div PagesPerTable] # 0
    OBVIOUS
  <2>1. CASE n = 0
    BY <1>1, <2>1
  <2>2. CASE n > 0
    <3>1. page > 0
      BY <2>2
    <3>2. (page - 1) \div PagesPerTable = page \div PagesPerTable
      BY <1>1, <3>1, TableOf
    <3>3. z.space[s].tables[(page - 1) \div PagesPerTable] # 0
      <4>1. \A p \in W : z.space[s].tables[p \div PagesPerTable] # 0
        BY DEF Wrote, W
      <4>2. QED
        BY <1>1, <2>2, <4>1
    <3>4. QED
      BY <3>2, <3>3
  <2>3. QED
    BY <2>1, <2>2
<1>4. Shape(z) /\ z.free \subseteq Frames /\ DOMAIN z.space[s].entry = PageNumber
  BY DEF Wrote
<1>5. Wrote(s, z, y, {page}, e)
  BY <1>1, <1>3, <1>4, MapEntryWrites
<1>6. Wrote(s, x, z, W, e)
  BY DEF W
<1>7. Wrote(s, x, y, U, e)
  BY <1>1, <1>5, <1>6, WroteMore
<1>8. first \div PagesPerTable \in TableIndices
  BY <1>2, TableOf
<1>9. y.space[s].tables[first \div PagesPerTable] # 0
  BY <1>5, <1>8 DEF Wrote
<1>10. QED
  BY <1>7, <1>9 DEF U

LEMMA EntriesWrite ==
  ASSUME NEW s \in AllSpaces, NEW x, Shape(x), x.free \subseteq Frames, DOMAIN x.space[s].entry = PageNumber,
         NEW first \in PageNumber, NEW entries, NEW n \in Nat, first + n <= Pages,
         NEW e, \A i \in 1 .. n : entries[i] = e[first + i - 1],
         NEW f, NEW tag, NEW y, NEW seq, Run(f, tag, y, seq), Len(seq) = n, \A i \in 1 .. n : seq[i] = i,
         tag = <<"entries", s, first, entries>>, y = PrepareTable(x, s, first), Going(f[n])
  PROVE  Wrote(s, x, f[n], Span(first, n), e)
<1>1. first \in Nat
  BY PageNumberIs
<1> DEFINE Holds(i, z) == Wrote(s, x, z, Span(first, i), e) /\ z.space[s].tables[first \div PagesPerTable] # 0
<1> HIDE DEF Holds
<1> DEFINE S == {i \in 0 .. n : Going(f[i]) => Holds(i, f[i])}
<1>2. 0 \in S
  <2>1. f[0] = y
    BY DEF Run
  <2>2. ASSUME Going(y) PROVE Holds(0, y)
    <3>1. Wrote(s, x, y, {}, e) /\ y.space[s].tables[first \div PagesPerTable] # 0
      BY <2>2, PrepareTableWrites
    <3>2. QED
      BY <1>1, <3>1, SpanZero DEF Holds
  <2>3. QED
    BY <2>1, <2>2
<1>3. ASSUME NEW i \in 1 .. n, i - 1 \in S PROVE i \in S
  <2> DEFINE z == f[i - 1]
             m == i - 1
             page == first + m
  <2>1. f[i] = TurnOf(tag, z, i)
    BY DEF Run
  <2>2. SUFFICES ASSUME Going(f[i]) PROVE Holds(i, f[i])
    OBVIOUS
  <2>3. Going(z)
    BY <2>1, <2>2 DEF TurnOf
  <2>4. Holds(m, z)
    BY <1>3, <2>3
  <2>5. m \in Nat /\ m + 1 = i /\ page < Pages /\ page \in Nat /\ page = first + i - 1
    BY <1>1, PageNumberIs
  <2>6. page % Pages = page
    BY <2>5, PageNumberIs, PageMod
  <2>7. f[i] = MapEntry(z, s, page, e[page])
    <3>1. f[i] = StepOf(tag, z, i)
      BY <2>1, <2>3 DEF TurnOf
    <3>2. StepOf(tag, z, i) = MapEntry(z, s, (first + i - 1) % Pages, entries[i])
      BY DEF StepOf
    <3>3. entries[i] = e[page]
      BY <2>5
    <3> HIDE DEF page
    <3>4. QED
      BY <2>5, <2>6, <3>1, <3>2, <3>3
  <2>8. page = first + m
    OBVIOUS
  <2> HIDE DEF z, m, page
  <2>9. Wrote(s, x, z, Span(first, m), e) /\ z.space[s].tables[first \div PagesPerTable] # 0
    BY <2>4 DEF Holds
  <2> DEFINE v == f[i]
  <2>10. v = MapEntry(z, s, page, e[page]) /\ Going(v)
    BY <2>2, <2>7
  <2> HIDE DEF v
  <2>11. Wrote(s, x, v, Span(first, m + 1), e) /\ v.space[s].tables[first \div PagesPerTable] # 0
    BY <1>1, <2>3, <2>5, <2>8, <2>9, <2>10, EntryWrites
  <2>12. Holds(m + 1, v)
    BY <2>11 DEF Holds
  <2>13. QED
    BY <2>5, <2>12 DEF v
<1> HIDE DEF S
<1>4. n \in S
  <2>1. \A i \in 1 .. n : i - 1 \in S => i \in S
    BY <1>3
  <2>2. \A i \in 0 .. n : i \in S
    BY <1>2, <2>1, UpTo
  <2>3. QED
    BY <2>2
<1>5. QED
  BY <1>4 DEF S, Holds

\* x86_pagedir_map_range writes n entries from a page on, and prepares their tables.
LEMMA MapRangeWrites ==
  ASSUME NEW s \in AllSpaces, NEW x, Shape(x), x.free \subseteq Frames, DOMAIN x.space[s].entry = PageNumber,
         NEW virt, NEW first, first = virt \div PageSize, first \in PageNumber,
         NEW entries, NEW n \in Nat, DOMAIN entries = 1 .. n, first + n <= Pages,
         NEW e, \A i \in 1 .. n : entries[i] = e[first + i - 1],
         NEW v, v = MapRange(x, s, virt, entries), Going(v)
  PROVE  Wrote(s, x, v, Span(first, n), e)
<1>1. PICK f, seq, tag, y :
        /\ Run(f, tag, y, seq) /\ v = f[n]
        /\ Len(seq) = n /\ \A i \in 1 .. n : seq[i] = i
        /\ tag = <<"entries", s, first, entries>>
        /\ y = PrepareTable(x, s, first)
  BY MapRangeRun
<1>2. Going(f[n])
  BY <1>1
<1>3. Wrote(s, x, f[n], Span(first, n), e)
  BY <1>1, <1>2, EntriesWrite
<1>4. QED
  BY <1>1, <1>3

\* The page at offset o of a region
LEMMA PageAt ==
  ASSUME NEW a \in Starts, NEW o \in Nat, a + o * PageSize < Width
  PROVE  /\ At(a + o * PageSize) = a + o * PageSize /\ a + o * PageSize \in Word
         /\ (a + o * PageSize) \div PageSize = a \div PageSize + o
         /\ a \div PageSize \in PageNumber /\ a = (a \div PageSize) * PageSize
         /\ a \div PageSize + o \in PageNumber
<1> DEFINE p == PageSize
           v == a + o * p
<1>1. p \in Nat /\ p > 1 /\ Width \in Nat /\ a \in Nat
  BY PageNumbers DEF Starts
<1>2. v \in Word
  BY <1>1 DEF Word
<1>3. PICK c \in 0 .. Pages - 1 : a = c * p
  BY StartPages
<1>4. c \in Int /\ c \in PageNumber
  BY <1>3, PageNumbers DEF PageNumber
<1>5. a \div p = c
  <2>1. 0 \in 0 .. p - 1 /\ a = c * p + 0
    BY <1>1, <1>3, <1>4
  <2> HIDE DEF p
  <2>2. QED
    BY <1>1, <1>4, <2>1, ModIs
<1>6. v \div p = c + o
  <2>1. 0 \in 0 .. p - 1 /\ v = (c + o) * p + 0 /\ c + o \in Int
    BY <1>1, <1>3, <1>4
  <2> HIDE DEF p, v
  <2>2. QED
    BY <1>1, <2>1, ModIs
<1>7. v \div p \in PageNumber
  BY <1>2, PageNumbers DEF PageNumber
<1>8. At(v) = v
  BY <1>2, AtNear
<1>9. QED
  BY <1>2, <1>3, <1>4, <1>5, <1>6, <1>7, <1>8

LEMMA SpanOne ==
  ASSUME NEW p \in PageNumber
  PROVE  Span(p, 1) = {p}
BY PageNumberIs DEF Span

\* The pages of r before the one at offset m, and the one at offset o
Covered(r, m) == {p \in PageNumber : Offset(r, p) \in DOMAIN r.pages /\ Offset(r, p) < m}
PageOf(r, o) == {p \in PageNumber : Offset(r, p) = o /\ o \in DOMAIN r.pages}

\* The entries of r are those of e.
Lists(r, e) ==
  /\ r.start \in Starts
  /\ \A o \in DOMAIN r.pages : o \in Nat /\ r.start + o * PageSize < Width
  /\ \A p \in PageNumber : Offset(r, p) \in DOMAIN r.pages => e[p] = r.pages[Offset(r, p)]

LEMMA MapInWrites ==
  ASSUME NEW s \in AllSpaces, NEW x, Shape(x), x.free \subseteq Frames, DOMAIN x.space[s].entry = PageNumber,
         NEW r, NEW e, Lists(r, e), NEW o \in Nat, NEW y, y = MapIn(x, s, r, o), Going(x), Going(y)
  PROVE  Wrote(s, x, y, PageOf(r, o), e)
<1>1. CASE o \notin DOMAIN r.pages
  <2>1. y = x /\ PageOf(r, o) = {}
    BY <1>1 DEF MapIn, PageOf
  <2>2. QED
    BY <2>1 DEF Wrote
<1>2. CASE o \in DOMAIN r.pages
  <2> DEFINE c == r.start \div PageSize
             first == c + o
             virt == At(r.start + o * PageSize)
             entries == <<r.pages[o]>>
  <2>1. y = MapRange(x, s, virt, entries)
    BY <1>2 DEF MapIn
  <2>2. virt \div PageSize = first /\ first \in PageNumber /\ c \in PageNumber
    BY <1>2, PageAt DEF Lists
  <2>3. DOMAIN entries = 1 .. 1 /\ entries[1] = r.pages[o]
    OBVIOUS
  <2>4. c \in Nat /\ \A p \in PageNumber : p \in Nat
    BY <2>2, PageNumberIs
  <2>5. \A p : Offset(r, p) = p - c
    BY DEF Offset
  <2> HIDE DEF c, virt, entries
  <2>6. \A p \in PageNumber : p - c = o <=> p = first
    BY <2>4
  <2> DEFINE one == 1
  <2> HIDE DEF first
  <2>7. Offset(r, first) = o /\ \A p \in PageNumber : Offset(r, p) = o <=> p = first
    BY <2>2, <2>5, <2>6
  <2>8. e[first] = r.pages[o]
    BY <1>2, <2>2, <2>7 DEF Lists
  <2>9. one \in Nat /\ first + one <= Pages /\ first \in Nat
    BY <2>2, PageNumberIs
  <2>10. DOMAIN entries = 1 .. one /\ \A i \in 1 .. one : entries[i] = e[first + i - 1]
    BY <2>3, <2>8, <2>9
  <2> HIDE DEF one
  <2>11. Wrote(s, x, y, Span(first, one), e)
    BY <2>1, <2>2, <2>9, <2>10, MapRangeWrites
  <2>12. Span(first, one) = {first}
    BY <2>2, SpanOne DEF one
  <2>13. PageOf(r, o) = {first}
    BY <1>2, <2>2, <2>7 DEF PageOf
  <2>14. QED
    BY <2>11, <2>12, <2>13
<1>3. QED
  BY <1>1, <1>2

LEMMA CoveredNext ==
  ASSUME NEW r, r.start \in Starts, NEW m \in Nat
  PROVE  /\ Covered(r, m + 1) = Covered(r, m) \cup PageOf(r, m) /\ Covered(r, m) \subseteq PageNumber
         /\ (\A o \in DOMAIN r.pages : o \in Nat) => Covered(r, 0) = {}
<1> DEFINE c == r.start \div PageSize
<1>1. c \in Int
  BY PageAt, PageNumbers DEF Starts
<1>2. \A p : Offset(r, p) = p - c
  BY DEF Offset
<1> HIDE DEF c
<1>3. \A p \in PageNumber : Offset(r, p) \in Int
  BY <1>1, <1>2, PageNumberIs
<1>4. QED
  BY <1>3 DEF Covered, PageOf

LEMMA MapPagesWrites ==
  ASSUME NEW s \in AllSpaces, NEW x, Shape(x), x.free \subseteq Frames, DOMAIN x.space[s].entry = PageNumber,
         NEW r, NEW e, Lists(r, e), NEW v, v = MapPages(x, s, r), Going(v)
  PROVE  Wrote(s, x, v, Covered(r, Pages), e)
<1>1. PICK f, seq, tag, y :
        /\ Run(f, tag, y, seq) /\ v = f[Pages]
        /\ Len(seq) = Pages /\ \A i \in 1 .. Pages : seq[i] = i - 1
        /\ tag = <<"pages", s, r>> /\ y = x
  BY MapPagesRun
<1>2. r.start \in Starts /\ \A o \in DOMAIN r.pages : o \in Nat
  BY DEF Lists
<1> DEFINE Holds(i, z) == Wrote(s, x, z, Covered(r, i), e)
<1> HIDE DEF Holds
<1> DEFINE S == {i \in 0 .. Pages : Going(f[i]) => Holds(i, f[i])}
<1>3. 0 \in S
  <2>1. f[0] = x
    BY <1>1 DEF Run
  <2>2. Covered(r, 0) = {}
    BY <1>2, CoveredNext
  <2>3. Holds(0, x)
    BY <2>2 DEF Holds, Wrote
  <2>4. QED
    BY <2>1, <2>3, PageNumberIs
<1>4. ASSUME NEW i \in 1 .. Pages, i - 1 \in S PROVE i \in S
  <2> DEFINE z == f[i - 1]
             w == f[i]
             m == i - 1
  <2>1. w = TurnOf(tag, z, m)
    BY <1>1 DEF Run
  <2>2. SUFFICES ASSUME Going(w) PROVE Holds(i, w)
    OBVIOUS
  <2>3. Going(z)
    BY <2>1, <2>2 DEF TurnOf
  <2>4. Holds(m, z)
    BY <1>4, <2>3
  <2>5. m \in Nat /\ m + 1 = i
    BY PageNumberIs
  <2>6. w = MapIn(z, s, r, m)
    BY <1>1, <2>1, <2>3 DEF TurnOf, StepOf
  <2> HIDE DEF z, w, m
  <2>7. Wrote(s, x, z, Covered(r, m), e)
    BY <2>4 DEF Holds
  <2>8. Shape(z) /\ z.free \subseteq Frames /\ DOMAIN z.space[s].entry = PageNumber
    BY <2>7 DEF Wrote
  <2>9. Wrote(s, z, w, PageOf(r, m), e)
    BY <2>2, <2>3, <2>5, <2>6, <2>8, MapInWrites
  <2>10. Covered(r, m + 1) = Covered(r, m) \cup PageOf(r, m) /\ Covered(r, m) \subseteq PageNumber
    BY <1>2, <2>5, CoveredNext
  <2>11. Wrote(s, x, w, Covered(r, m + 1), e)
    BY <2>7, <2>9, <2>10, WroteMore
  <2>12. QED
    BY <2>5, <2>11 DEF Holds
<1> HIDE DEF S
<1>5. Pages \in S
  BY <1>3, <1>4, UpTo, PageNumberIs
<1>6. QED
  BY <1>1, <1>5 DEF S, Holds

LEMMA Scale ==
  ASSUME NEW p \in Nat, p > 0, NEW a \in Int, NEW b \in Int
  PROVE  a * p <= b * p <=> a <= b
<1>1. ASSUME NEW c \in Int, NEW d \in Int, c <= d PROVE c * p <= d * p
  <2>1. (d - c) * p >= 0 /\ (d - c) * p = d * p - c * p
    BY <1>1
  <2>2. c * p \in Int /\ d * p \in Int
    OBVIOUS
  <2>3. QED
    BY <2>1, <2>2
<1>2. ASSUME b < a PROVE b * p < a * p
  <2>1. (b + 1) * p <= a * p
    BY <1>1, <1>2
  <2>2. (b + 1) * p = b * p + p /\ b * p \in Int /\ a * p \in Int
    OBVIOUS
  <2>3. QED
    BY <2>1, <2>2
<1>3. CASE a <= b
  BY <1>1, <1>3
<1>4. CASE b < a
  <2>1. a * p \in Int /\ b * p \in Int
    OBVIOUS
  <2>2. QED
    BY <1>2, <1>4, <2>1
<1>5. QED
  BY <1>3, <1>4

LEMMA UnitsOf ==
  ASSUME NEW n \in Nat
  PROVE  Units(n * PageSize) = n
<1> DEFINE p == PageSize
<1>1. p \in Nat /\ p > 1
  BY MachineAssumption
<1>2. p - 1 \in 0 .. p - 1 /\ n * p + p - 1 = n * p + (p - 1)
  BY <1>1
<1> HIDE DEF p
<1>3. (n * p + (p - 1)) \div p = n
  BY <1>1, <1>2, ModIs
<1>4. QED
  BY <1>2, <1>3 DEF Units, p

\* The pages of a range
LEMMA RangePages ==
  ASSUME NEW r, RegionShape(r), r.start <= r.end, r.end - r.start + 1 < Width,
         NEW c, c = r.start \div PageSize, NEW n, n = Units(At(r.end - r.start + 1))
  PROVE  /\ c \in PageNumber /\ n \in Nat /\ c + n <= Pages
         /\ \A p \in PageNumber : (r.start <= p * PageSize /\ p * PageSize <= r.end) <=> p \in Span(c, n)
<1> DEFINE t == PageSize
           e == r.end + 1
           d == e \div t
<1>1. t \in Nat /\ t > 1 /\ t > 0 /\ Pages \in Nat /\ Pages > 0 /\ Width = Pages * t /\ Width \in Nat
  BY PageNumbers
<1>2. r.start \in Starts /\ r.end \in Word /\ e % t = 0 /\ e \in Int
  BY PageNumbers DEF RegionShape, Word
<1>3. r.start = c * t /\ c \in PageNumber
  <2>1. PICK m \in 0 .. Pages - 1 : r.start = m * t
    BY <1>2, StartPages
  <2>2. m \in Int /\ 0 \in 0 .. t - 1 /\ m * t + 0 = r.start
    BY <1>1, <2>1
  <2> HIDE DEF t
  <2>3. (m * t + 0) \div t = m
    BY <1>1, <2>2, ModIs
  <2>4. QED
    BY <2>1, <2>2, <2>3 DEF PageNumber, t
<1>4. e = d * t /\ d \in Int
  <2> HIDE DEF e, t
  <2>1. d \in Int /\ e = d * t + (e % t)
    BY <1>1, <1>2
  <2>2. d * t \in Int
    BY <1>1, <2>1
  <2> HIDE DEF d
  <2>3. QED
    BY <1>2, <2>1, <2>2
<1> HIDE DEF d
<1>5. c \in Int /\ c \in Nat /\ c < Pages
  BY <1>3, PageNumberIs
<1>6. c * t \in Int /\ d * t \in Int
  BY <1>1, <1>4, <1>5
<1>7. c <= d /\ d <= Pages
  <2>1. c * t <= d * t /\ d * t <= Pages * t
    BY <1>1, <1>2, <1>3, <1>4, <1>6 DEF Word
  <2> HIDE DEF t
  <2>2. Pages \in Int
    BY <1>1
  <2>3. QED
    BY <1>1, <1>4, <1>5, <2>1, <2>2, Scale
<1>8. n = d - c
  <2>1. r.end - r.start + 1 \in Word
    BY <1>1, <1>2, <1>3, <1>6 DEF Word
  <2>2. At(r.end - r.start + 1) = r.end - r.start + 1
    BY <2>1, AtNear
  <2>3. r.end - r.start + 1 = e - r.start
    BY <1>2, <1>3, <1>6 DEF Word
  <2>4. e - r.start = (d - c) * t
    <3> HIDE DEF t, e
    <3>1. QED
      BY <1>1, <1>3, <1>4, <1>5
  <2>5. d - c \in Nat
    BY <1>4, <1>5, <1>7
  <2>6. Units((d - c) * t) = d - c
    BY <2>5, UnitsOf
  <2>7. QED
    BY <2>2, <2>3, <2>4, <2>6
<1>9. ASSUME NEW p \in PageNumber
      PROVE  (r.start <= p * t /\ p * t <= r.end) <=> (c <= p /\ p < d)
  <2>1. p \in Int /\ p * t \in Int
    BY <1>1, PageNumberIs
  <2>2. r.start <= p * t <=> c <= p
    <3> HIDE DEF t
    <3>1. QED
      BY <1>1, <1>3, <1>5, <2>1, Scale
  <2>3. d * t <= p * t <=> d <= p
    <3> HIDE DEF t
    <3>1. QED
      BY <1>1, <1>4, <2>1, Scale
  <2>4. p * t <= r.end <=> ~(d * t <= p * t)
    BY <1>2, <1>4, <1>6, <2>1 DEF Word
  <2>5. QED
    BY <1>4, <2>1, <2>2, <2>3, <2>4
<1>10. c + n = d /\ n \in Nat
  BY <1>4, <1>5, <1>7, <1>8
<1>11. \A p \in PageNumber : (r.start <= p * PageSize /\ p * PageSize <= r.end) <=> p \in Span(c, n)
  BY <1>9, <1>10 DEF Span
<1>12. QED
  BY <1>3, <1>7, <1>10, <1>11

LEMMA WithDirectoryWrites ==
  ASSUME NEW s \in AllSpaces, NEW x, Shape(x), x.free \subseteq Frames, DOMAIN x.space[s].entry = PageNumber,
         NEW y, y = WithDirectory(x, s), y.failure = "none", NEW e
  PROVE  Wrote(s, x, y, {}, e) /\ y.ret = x.ret /\ x.failure = "none"
<1> DEFINE f == FirstFree(x)
<1>1. CASE x.space[s].dir # 0
  BY <1>1 DEF WithDirectory, Wrote
<1>2. CASE x.space[s].dir = 0 /\ x.free = {}
  <2>1. y = Failing(x, "null_page_directory")
    BY <1>2 DEF WithDirectory
  <2>2. y.failure # "none"
    BY <2>1 DEF Shape, Fields, Failing
  <2>3. QED
    BY <2>2
<1>3. CASE x.space[s].dir = 0 /\ x.free # {}
  <2>1. y = [x EXCEPT !.space[s].dir = f, !.free = @ \ {f}]
    BY <1>3 DEF WithDirectory
  <2> HIDE DEF f
  <2>2. Shape(y) /\ y.failure = x.failure /\ y.ret = x.ret /\ y.free = x.free \ {f}
    BY <2>1 DEF Shape, SpaceShape, Fields, SpaceFields
  <2>3. /\ y.space[s].tables = x.space[s].tables /\ y.space[s].entry = x.space[s].entry
        /\ y.space[s].unmapped = x.space[s].unmapped
    BY <2>1 DEF Shape, SpaceShape, Fields, SpaceFields
  <2>4. QED
    BY <2>2, <2>3 DEF Wrote
<1>4. QED
  BY <1>1, <1>2, <1>3

LEMMA IgnoringWrites ==
  ASSUME NEW s \in AllSpaces, NEW x, Shape(x), NEW y, y = Ignoring(x, s), ~y.space[s].unmapped
  PROVE  x.ret = 0 /\ y = x
<1>1. CASE x.ret = -1
  <2>1. y = [x EXCEPT !.ret = 0, !.space[s].unmapped = TRUE]
    BY <1>1 DEF Ignoring
  <2>2. y.space[s].unmapped = TRUE
    BY <2>1 DEF Shape, SpaceShape, Fields, SpaceFields
  <2>3. QED
    BY <2>2
<1>2. CASE x.ret = 0
  BY <1>2 DEF Ignoring
<1>3. QED
  BY <1>1, <1>2 DEF Shape

LEMMA RangeWrites ==
  ASSUME NEW s \in AllSpaces, NEW x, Shape(x), x.free \subseteq Frames, DOMAIN x.space[s].entry = PageNumber,
         NEW r, RegionShape(r), Within(r), r.type = "RANGEMAP",
         NEW e, \A p \in PageNumber : Backs(r, p) => e[p] = Wanted(r, p),
         NEW n, n = Units(At(r.end - r.start + 1)),
         NEW y, y = MapRange(x, s, r.start, [i \in 1 .. n |-> [phys |-> r.phys + i - 1, present |-> TRUE]]), Going(y)
  PROVE  Wrote(s, x, y, {p \in PageNumber : Backs(r, p)}, e)
<1> DEFINE c == r.start \div PageSize
           entries == [i \in 1 .. n |-> [phys |-> r.phys + i - 1, present |-> TRUE]]
           W == {p \in PageNumber : Backs(r, p)}
<1>1. r.start <= r.end /\ r.end - r.start + 1 < Width /\ r.phys \in Int
  BY DEF Within
<1>2. /\ c \in PageNumber /\ n \in Nat /\ c + n <= Pages
      /\ \A p \in PageNumber : (r.start <= p * PageSize /\ p * PageSize <= r.end) <=> p \in Span(c, n)
  BY <1>1, RangePages
<1>3. \A p \in PageNumber : Backs(r, p) <=> p \in Span(c, n)
  BY <1>2 DEF Backs
<1>4. W = Span(c, n)
  BY <1>3 DEF Span
<1>5. \A p : Wanted(r, p) = [phys |-> r.phys + (p - c), present |-> TRUE]
  BY DEF Wanted, Offset
<1> HIDE DEF c, W
<1>6. ASSUME NEW i \in 1 .. n PROVE entries[i] = e[c + i - 1]
  <2>1. c \in Nat /\ i \in Int /\ c + i - 1 \in Nat /\ c <= c + i - 1 /\ c + i - 1 < c + n
    BY <1>2, PageNumberIs
  <2>2. c + i - 1 \in Span(c, n)
    BY <1>2, <2>1, PageNumberIs DEF Span
  <2>3. e[c + i - 1] = Wanted(r, c + i - 1)
    BY <1>3, <2>2 DEF Span
  <2> DEFINE q == c + i - 1
  <2>4. r.phys + (q - c) = r.phys + i - 1
    BY <1>1, <2>1
  <2>5. e[q] = Wanted(r, q)
    BY <2>3
  <2> HIDE DEF q
  <2>6. e[q] = [phys |-> r.phys + (q - c), present |-> TRUE]
    BY <1>5, <2>5
  <2>7. QED
    BY <2>4, <2>6 DEF q
<1>7. DOMAIN entries = 1 .. n /\ y = MapRange(x, s, r.start, entries)
  OBVIOUS
<1> HIDE DEF entries
<1>8. Wrote(s, x, y, Span(c, n), e)
  BY <1>2, <1>6, <1>7, MapRangeWrites DEF c
<1>9. QED
  BY <1>4, <1>8 DEF W

\* r is where it has a page.
LEMMA PageBacks ==
  ASSUME NEW r, RegionShape(r), Within(r), r.type # "RANGEMAP",
         NEW p \in PageNumber, Offset(r, p) \in DOMAIN r.pages
  PROVE  Backs(r, p) /\ Wanted(r, p) = r.pages[Offset(r, p)] /\ Offset(r, p) < Pages
<1>1. r.start \in Starts /\ r.end \in Word /\ r.start \in Nat
  BY DEF RegionShape, Starts
<1>2. \A o \in DOMAIN r.pages : o \in Nat /\ r.start + o * PageSize <= r.end
  BY DEF Within
<1>3. \A o \in DOMAIN r.pages : o \in Nat /\ r.start + o * PageSize < Width
  <2> SUFFICES ASSUME NEW o \in DOMAIN r.pages PROVE o \in Nat /\ r.start + o * PageSize < Width
    OBVIOUS
  <2> DEFINE w == o * PageSize
  <2>1. o \in Nat /\ w \in Int /\ r.start + w <= r.end
    BY <1>2, PageNumbers
  <2> HIDE DEF w
  <2>2. r.start + w < Width
    BY <1>1, <2>1, PageNumbers DEF Word
  <2>3. QED
    BY <2>1, <2>2 DEF w
<1> DEFINE o == Offset(r, p)
           c == r.start \div PageSize
           v == p * PageSize
<1>4. o \in Nat /\ o \in DOMAIN r.pages /\ r.start + o * PageSize <= r.end /\ r.start + o * PageSize < Width
  BY <1>2, <1>3
<1>5. c \in PageNumber /\ r.start = c * PageSize
  BY <1>1, <1>4, PageAt
<1>6. o = p - c /\ p \in Nat /\ c \in Nat /\ p < Pages
  BY <1>5, PageNumberIs DEF Offset
<1> HIDE DEF c
<1>7. c * PageSize + (p - c) * PageSize = v
  BY <1>6, PageNumbers
<1>8. r.start + o * PageSize = v
  BY <1>5, <1>6, <1>7
<1>9. c <= p
  BY <1>4, <1>6
<1>10. c * PageSize <= v
  BY <1>6, <1>9, PageNumbers, Scale
<1> HIDE DEF v, o
<1>11. r.start <= v /\ v <= r.end
  BY <1>4, <1>5, <1>8, <1>10
<1>12. Backs(r, p) /\ Wanted(r, p) = r.pages[Offset(r, p)]
  BY <1>11 DEF Backs, Wanted, v
<1>13. o < Pages
  BY <1>6, PageNumberIs
<1>14. QED
  BY <1>12, <1>13 DEF o

\* A region that has more pages is where it was.
LEMMA MoreBacks ==
  ASSUME NEW r, NEW q, RegionShape(q), Within(q), q.type # "RANGEMAP", q.start = r.start, q.type = r.type,
         DOMAIN r.pages \subseteq DOMAIN q.pages, NEW p \in PageNumber, Backs(r, p)
  PROVE  Backs(q, p)
<1>1. Offset(q, p) \in DOMAIN q.pages
  BY DEF Backs, Offset
<1>2. QED
  BY <1>1, PageBacks

LEMMA PagesWrite ==
  ASSUME NEW s \in AllSpaces, NEW x, Shape(x), x.free \subseteq Frames, DOMAIN x.space[s].entry = PageNumber,
         NEW r, RegionShape(r), Within(r), r.type # "RANGEMAP",
         NEW e, \A p \in PageNumber : Backs(r, p) => e[p] = Wanted(r, p),
         NEW y, y = MapPages(x, s, r), Going(y)
  PROVE  Wrote(s, x, y, {p \in PageNumber : Backs(r, p)}, e)
<1>1. r.start \in Starts /\ r.end \in Word /\ r.start \in Nat
  BY DEF RegionShape, Starts
<1>2. \A o \in DOMAIN r.pages : o \in Nat /\ r.start + o * PageSize <= r.end
  BY DEF Within
<1>3. \A o \in DOMAIN r.pages : o \in Nat /\ r.start + o * PageSize < Width
  <2> SUFFICES ASSUME NEW o \in DOMAIN r.pages PROVE o \in Nat /\ r.start + o * PageSize < Width
    OBVIOUS
  <2> DEFINE w == o * PageSize
  <2>1. o \in Nat /\ w \in Int /\ r.start + w <= r.end
    BY <1>2, PageNumbers
  <2> HIDE DEF w
  <2>2. r.start + w < Width
    BY <1>1, <2>1, PageNumbers DEF Word
  <2>3. QED
    BY <2>1, <2>2 DEF w
<1>4. ASSUME NEW p \in PageNumber, Offset(r, p) \in DOMAIN r.pages
      PROVE  Backs(r, p) /\ Wanted(r, p) = r.pages[Offset(r, p)] /\ Offset(r, p) < Pages
  BY <1>4, PageBacks
<1>5. Lists(r, e)
  BY <1>1, <1>3, <1>4 DEF Lists
<1>6. Wrote(s, x, y, Covered(r, Pages), e)
  BY <1>5, MapPagesWrites
<1>7. Covered(r, Pages) = {p \in PageNumber : Backs(r, p)}
  <2>1. \A p \in PageNumber : Offset(r, p) \in DOMAIN r.pages /\ Offset(r, p) < Pages <=> Backs(r, p)
    BY <1>4 DEF Backs
  <2>2. QED
    BY <2>1 DEF Covered
<1>8. QED
  BY <1>6, <1>7

\* vm_update_region, unless a table is missing, writes the entries of the region.
LEMMA UpdateRegionWrites ==
  ASSUME NEW s \in AllSpaces, NEW x, Shape(x), Going(x), x.free \subseteq Frames, DOMAIN x.space[s].entry = PageNumber,
         NEW r, RegionShape(r), Within(r),
         NEW e, \A p \in PageNumber : Backs(r, p) => e[p] = Wanted(r, p),
         NEW y, y = UpdateRegion(x, s, r), y.failure = "none", ~y.space[s].unmapped
  PROVE  Wrote(s, x, y, {p \in PageNumber : Backs(r, p)}, e)
<1> DEFINE w == WithDirectory(x, s)
           n == Units(At(r.end - r.start + 1))
           z == IF r.type = "RANGEMAP"
                THEN IF Going(w) THEN MapRange(w, s, r.start, [i \in 1 .. n |-> [phys |-> r.phys + i - 1, present |-> TRUE]]) ELSE w
                ELSE MapPages(w, s, r)
           W == {p \in PageNumber : Backs(r, p)}
<1>1. y = Ignoring(z, s)
  BY DEF UpdateRegion, Then
<1>2. Keeps(s, x, w)
  BY WithDirectoryKeeps
<1>3. Shape(w) /\ r.start \in Starts /\ r.start \in Word
  BY <1>2 DEF Keeps, RegionShape, Starts, Word
<1>4. n \in Nat
  <2>1. r.end - r.start + 1 \in Int
    BY <1>3, PageNumbers DEF Word, RegionShape
  <2>2. At(r.end - r.start + 1) \in Nat
    BY <2>1, PageNumbers DEF Word
  <2>3. QED
    BY <2>2, PageNumbers DEF Units
<1>5. DOMAIN [i \in 1 .. n |-> [phys |-> r.phys + i - 1, present |-> TRUE]] = 1 .. n
  OBVIOUS
<1> HIDE DEF w, n
<1>6. Keeps(s, w, z)
  BY <1>3, <1>4, <1>5, MapRangeKeeps, MapPagesKeeps, KeepsRefl
<1>7. z.failure = "none" => w.failure = "none"
  BY <1>6 DEF Keeps
<1> HIDE DEF z
<1>8. Shape(z)
  BY <1>6 DEF Keeps
<1>9. z.ret = 0 /\ y = z
  BY <1>1, <1>8, IgnoringWrites
<1>10. z.failure = "none" /\ w.failure = "none" /\ Going(z)
  BY <1>6, <1>9 DEF Keeps, Going
<1>11. Wrote(s, x, w, {}, e) /\ w.ret = 0
  BY <1>10, WithDirectoryWrites DEF w, Going
<1>12. Going(w) /\ w.free \subseteq Frames /\ DOMAIN w.space[s].entry = PageNumber
  BY <1>10, <1>11 DEF Wrote, Going
<1>13. Wrote(s, w, z, W, e)
  <2>1. CASE r.type = "RANGEMAP"
    <3>1. z = MapRange(w, s, r.start, [i \in 1 .. n |-> [phys |-> r.phys + i - 1, present |-> TRUE]])
      BY <1>12, <2>1 DEF z
    <3>2. n = Units(At(r.end - r.start + 1))
      BY DEF n
    <3>3. QED
      BY <1>3, <1>10, <1>12, <2>1, <3>1, <3>2, RangeWrites
  <2>2. CASE r.type # "RANGEMAP"
    <3>1. z = MapPages(w, s, r)
      BY <2>2 DEF z
    <3>2. QED
      BY <1>3, <1>10, <1>12, <2>2, <3>1, PagesWrite
  <2>3. QED
    BY <2>1, <2>2
<1>14. Wrote(s, x, z, W, e)
  <2> HIDE DEF W
  <2>1. W = {} \cup W /\ {} \subseteq PageNumber
    OBVIOUS
  <2>2. QED
    BY <1>11, <1>13, <2>1, WroteMore
<1>15. QED
  BY <1>9, <1>14

LEMMA BacksOnce ==
  ASSUME NEW Q, Disjoint(Q), NEW a \in DOMAIN Q, NEW b \in DOMAIN Q, NEW p \in PageNumber, Backs(Q[a], p), Backs(Q[b], p)
  PROVE  a = b
<1> DEFINE v == p * PageSize
<1>1. v \in Int /\ Q[a].start <= v /\ v <= Q[a].end /\ Q[b].start <= v /\ v <= Q[b].end
  BY PageNumberIs, PageNumbers DEF Backs
<1>2. a \in Nat /\ b \in Nat /\ Q[a].start = a /\ Q[b].start = b /\ Q[a].end \in Int /\ Q[b].end \in Int
  BY DEF Disjoint, RegionShape, Starts, Word
<1>3. (a < b => Q[a].end < Q[b].start) /\ (b < a => Q[b].end < Q[a].start)
  BY DEF Disjoint
<1> HIDE DEF v
<1>4. QED
  BY <1>1, <1>2, <1>3

\* Q is R with the region r at a, which has the pages that R has there.
Joined(R, Q, a, r) ==
  /\ DOMAIN Q = DOMAIN R \cup {a} /\ Q[a] = r /\ \A b \in DOMAIN R : b # a => Q[b] = R[b]
  /\ a \in DOMAIN R => \A p \in PageNumber : Backs(R[a], p) => Backs(r, p)

\* The tables agree once the entries of the region that is new, or changed, are
\* written.
LEMMA AgreesJoined ==
  ASSUME NEW s \in AllSpaces, NEW x, NEW y, NEW sp, Agrees(sp), NEW Q, Disjoint(Q), NEW a, NEW r,
         Joined(sp.regions, Q, a, r), x.space[s].entry = sp.entry, x.space[s].tables = sp.tables,
         NEW e, \A p \in PageNumber : Backs(r, p) => e[p] = Wanted(r, p),
         Wrote(s, x, y, {p \in PageNumber : Backs(r, p)}, e), y.space[s].regions = Q
  PROVE  Agrees(y.space[s])
<1> DEFINE R == sp.regions
           sq == y.space[s]
           W == {p \in PageNumber : Backs(r, p)}
<1>1. /\ DOMAIN sq.entry = PageNumber
      /\ \A p \in PageNumber : sq.entry[p] = IF p \in W THEN e[p] ELSE sp.entry[p]
      /\ \A g \in TableIndices : sp.tables[g] # 0 => sq.tables[g] # 0
      /\ \A p \in W : sq.tables[p \div PagesPerTable] # 0
  BY DEF Wrote
<1>2. a \in DOMAIN Q /\ Q[a] = r /\ \A b \in DOMAIN Q : b # a => b \in DOMAIN R /\ Q[b] = R[b]
  BY DEF Joined
<1>3. ASSUME NEW p \in PageNumber, NEW b \in DOMAIN Q, Backs(Q[b], p)
      PROVE  sq.entry[p] = Wanted(Q[b], p) /\ sq.tables[p \div PagesPerTable] # 0
  <2>1. CASE b = a
    <3>1. p \in W /\ e[p] = Wanted(r, p)
      BY <1>2, <1>3, <2>1
    <3> HIDE DEF W, sq, R
    <3>2. QED
      BY <1>1, <1>2, <2>1, <3>1
  <2>2. CASE b # a
    <3>1. p \notin W
      BY <1>2, <1>3, <2>2, BacksOnce
    <3>2. b \in DOMAIN R /\ Q[b] = R[b] /\ Backs(R[b], p)
      BY <1>2, <1>3, <2>2
    <3>3. sp.entry[p] = Wanted(R[b], p) /\ sp.tables[p \div PagesPerTable] # 0
      BY <3>2 DEF Agrees
    <3>4. p \div PagesPerTable \in TableIndices
      BY TableOf
    <3> HIDE DEF W, sq, R
    <3>5. QED
      BY <1>1, <3>1, <3>2, <3>3, <3>4
  <2>3. QED
    BY <2>1, <2>2
<1>4. ASSUME NEW p \in PageNumber, \A b \in DOMAIN Q : ~Backs(Q[b], p)
      PROVE  sq.entry[p] = NoEntry
  <2>1. ~Backs(r, p)
    BY <1>2, <1>4
  <2>2. ASSUME NEW b \in DOMAIN R PROVE ~Backs(R[b], p)
    <3>1. CASE b = a
      BY <2>1, <3>1 DEF Joined
    <3>2. CASE b # a
      BY <1>4, <3>2 DEF Joined
    <3>3. QED
      BY <3>1, <3>2
  <2>3. sp.entry[p] = NoEntry
    BY <2>2 DEF Agrees
  <2>4. p \notin W
    BY <2>1
  <2> HIDE DEF W, sq, R
  <2>5. QED
    BY <1>1, <2>3, <2>4
<1>5. QED
  BY <1>1, <1>3, <1>4 DEF Agrees

LEMMA RegionTabled ==
  ASSUME NEW s \in AllSpaces, NEW x, Shape(x), Going(x), x.free \subseteq Frames,
         NEW sp, Tabled(sp), NEW a, NEW r, Joined(sp.regions, x.space[s].regions, a, r), Disjoint(x.space[s].regions),
         x.space[s].entry = sp.entry, x.space[s].tables = sp.tables, x.space[s].unmapped = sp.unmapped,
         Within(r), NEW y, y = UpdateRegion(x, s, r), y.failure = "none"
  PROVE  Tabled(y.space[s])
<1> SUFFICES ASSUME ~y.space[s].unmapped PROVE Agrees(y.space[s])
  BY DEF Tabled
<1> DEFINE Q == x.space[s].regions
           e == [p \in PageNumber |-> Wanted(r, p)]
<1>1. a \in DOMAIN Q /\ Q[a] = r
  BY DEF Joined
<1>2. RegionShape(r)
  BY <1>1 DEF Disjoint
<1>3. Keeps(s, x, y)
  BY <1>2, UpdateRegionKeeps
<1>4. ~x.space[s].unmapped /\ y.space[s].regions = Q
  BY <1>3 DEF Keeps
<1>5. Agrees(sp)
  BY <1>4 DEF Tabled
<1>6. DOMAIN x.space[s].entry = PageNumber
  BY <1>5 DEF Agrees
<1>7. \A p \in PageNumber : Backs(r, p) => e[p] = Wanted(r, p)
  OBVIOUS
<1> HIDE DEF e, Q
<1>8. Wrote(s, x, y, {p \in PageNumber : Backs(r, p)}, e)
  BY <1>2, <1>6, <1>7, UpdateRegionWrites
<1>9. Disjoint(Q) /\ Joined(sp.regions, Q, a, r)
  BY DEF Q
<1>10. QED
  BY <1>4, <1>5, <1>7, <1>8, <1>9, AgreesJoined

\* A region that ends before it begins has no page.
LEMMA EmptyBacks ==
  ASSUME NEW r, r.start \in Int, r.end \in Int, r.end < r.start
  PROVE  \A p \in PageNumber : ~Backs(r, p)
<1> SUFFICES ASSUME NEW p \in PageNumber, Backs(r, p) PROVE FALSE
  OBVIOUS
<1> DEFINE v == p * PageSize
<1>1. v \in Int /\ r.start <= v /\ v <= r.end
  BY PageNumberIs, PageNumbers DEF Backs
<1> HIDE DEF v
<1>2. QED
  BY <1>1

LEMMA SizedWithin ==
  ASSUME NEW r, RegionShape(r), Sized(r)
  PROVE  Within(r)
<1>1. CASE r.ops # "anon"
  BY <1>1 DEF Sized
<1>2. CASE r.ops = "anon"
  <2>1. PICK n \in Nat : HasPages(r, n)
    BY <1>2 DEF Sized
  <2>2. r.type = "PAGEMAP" /\ DOMAIN r.pages = 0 .. n - 1 /\ r.end = At(r.start + n * PageSize - 1)
    BY <1>2, <2>1 DEF Sized, HasPages
  <2>3. PageSize \in Nat /\ PageSize > 1 /\ Width \in Nat /\ r.start \in Nat
    BY PageNumbers DEF RegionShape, Starts
  <2> DEFINE m == n * PageSize
  <2>4. m \in Nat /\ r.start + m <= Width
    BY <2>1, <2>3 DEF HasPages
  <2>5. ASSUME NEW o \in 0 .. n - 1 PROVE r.start + o * PageSize <= r.end
    <3> DEFINE q == o * PageSize
    <3>1. (o + 1) * PageSize <= m /\ (o + 1) * PageSize = q + PageSize /\ q \in Nat
      BY <2>3, Scale
    <3> HIDE DEF m, q
    <3>2. q + PageSize <= m
      BY <3>1
    <3>3. r.start + m - 1 \in Word
      BY <2>3, <2>4, <3>1, <3>2 DEF Word
    <3>4. r.end = r.start + m - 1
      BY <2>2, <3>3, AtNear DEF m
    <3>5. QED
      BY <2>3, <2>4, <3>1, <3>2, <3>4 DEF q
  <2>6. QED
    BY <2>2, <2>5 DEF Within
<1>3. QED
  BY <1>1, <1>2

-----------------------------------------------------------------------------
(* A region that becomes one of a space.                                    *)

LEMMA PagesHeldAre ==
  ASSUME NEW b, NEW r
  PROVE  /\ \A e \in PagesHeld(b, r) : e[4] \in PagesOf(r)
         /\ \A f \in PagesOf(r) : \E e \in PagesHeld(b, r) : e[4] = f
         /\ (\A o, q \in DOMAIN r.pages : r.pages[o].phys = r.pages[q].phys => o = q)
              => \A e, d \in PagesHeld(b, r) : e[4] = d[4] => e = d
<1>1. \A e \in PagesHeld(b, r) : \E o \in DOMAIN r.pages : e = <<"page", b, o, r.pages[o].phys>> /\ e[4] = r.pages[o].phys
  BY DEF PagesHeld
<1>2. \A o \in DOMAIN r.pages : <<"page", b, o, r.pages[o].phys>> \in PagesHeld(b, r) /\ <<"page", b, o, r.pages[o].phys>>[4] = r.pages[o].phys
  BY DEF PagesHeld
<1>3. \A f : f \in PagesOf(r) <=> \E o \in DOMAIN r.pages : f = r.pages[o].phys
  BY DEF PagesOf
<1>4. \A e \in PagesHeld(b, r) : e[4] \in PagesOf(r)
  BY <1>1, <1>3
<1>5. ASSUME NEW f \in PagesOf(r) PROVE \E e \in PagesHeld(b, r) : e[4] = f
  <2>1. PICK o \in DOMAIN r.pages : f = r.pages[o].phys
    BY <1>3
  <2>2. QED
    BY <1>2, <2>1
<1>6. ASSUME \A o, q \in DOMAIN r.pages : r.pages[o].phys = r.pages[q].phys => o = q,
             NEW e \in PagesHeld(b, r), NEW d \in PagesHeld(b, r), e[4] = d[4]
      PROVE  e = d
  <2>1. PICK o \in DOMAIN r.pages : e = <<"page", b, o, r.pages[o].phys>> /\ e[4] = r.pages[o].phys
    BY <1>1
  <2>2. PICK q \in DOMAIN r.pages : d = <<"page", b, q, r.pages[q].phys>> /\ d[4] = r.pages[q].phys
    BY <1>1
  <2>3. o = q
    BY <1>6, <2>1, <2>2
  <2>4. QED
    BY <2>1, <2>2, <2>3
<1>7. QED
  BY <1>4, <1>5, <1>6

\* What a space owns when a region is put where none with pages was.
LEMMA PageOwnInsert ==
  ASSUME NEW R, NEW Q, NEW a, DOMAIN Q = DOMAIN R \cup {a},
         \A b \in DOMAIN R : b # a => Q[b] = R[b],
         a \in Anonymous(R) => DOMAIN R[a].pages = {}
  PROVE  PageOwn(Q) = PageOwn(R) \cup (IF Q[a].ops = "anon" THEN PagesHeld(a, Q[a]) ELSE {})
<1> DEFINE r == Q[a]
<1>1. \A b \in DOMAIN R : b # a => (b \in Anonymous(Q) <=> b \in Anonymous(R)) /\ PagesHeld(b, Q[b]) = PagesHeld(b, R[b])
  BY DEF Anonymous
<1>2. a \in Anonymous(Q) <=> r.ops = "anon"
  BY DEF Anonymous
<1>3. a \in Anonymous(R) => PagesHeld(a, R[a]) = {}
  BY DEF PagesHeld
<1>4. Anonymous(R) \subseteq DOMAIN R /\ Anonymous(Q) \subseteq DOMAIN R \cup {a}
  BY DEF Anonymous
<1>5. \A e \in PageOwn(Q) : e \in PageOwn(R) \/ (r.ops = "anon" /\ e \in PagesHeld(a, r))
  <2> SUFFICES ASSUME NEW e \in PageOwn(Q)
               PROVE  e \in PageOwn(R) \/ (r.ops = "anon" /\ e \in PagesHeld(a, r))
    OBVIOUS
  <2>1. PICK b \in Anonymous(Q) : e \in PagesHeld(b, Q[b])
    BY DEF PageOwn
  <2>2. CASE b = a
    BY <1>2, <2>1, <2>2
  <2>3. CASE b # a
    <3>1. b \in Anonymous(R) /\ e \in PagesHeld(b, R[b])
      BY <1>1, <1>4, <2>1, <2>3
    <3>2. QED
      BY <3>1 DEF PageOwn
  <2>4. QED
    BY <2>2, <2>3
<1>6. \A e \in PageOwn(R) : e \in PageOwn(Q)
  <2> SUFFICES ASSUME NEW e \in PageOwn(R) PROVE e \in PageOwn(Q)
    OBVIOUS
  <2>1. PICK b \in Anonymous(R) : e \in PagesHeld(b, R[b])
    BY DEF PageOwn
  <2>2. b # a
    BY <1>3, <2>1
  <2>3. b \in Anonymous(Q) /\ e \in PagesHeld(b, Q[b])
    BY <1>1, <1>4, <2>1, <2>2
  <2>4. QED
    BY <2>3 DEF PageOwn
<1>7. r.ops = "anon" => PagesHeld(a, r) \subseteq PageOwn(Q)
  BY <1>2 DEF PageOwn
<1>8. QED
  BY <1>5, <1>6, <1>7

\* An anonymous region without an address has no pages.
LEMMA NoAddressNoPages ==
  ASSUME NEW r, RegionShape(r), Sized(r), r.ops = "anon", r.end < r.start
  PROVE  DOMAIN r.pages = {}
<1>1. PICK n \in Nat : HasPages(r, n)
  BY DEF Sized
<1>2. PageSize \in Nat /\ PageSize > 1 /\ Width \in Nat /\ r.start \in Word /\ r.start \in Nat
  BY PageNumbers DEF RegionShape, Starts, Word
<1>3. CASE n = 0
  BY <1>1, <1>3 DEF HasPages
<1>4. CASE n > 0
  <2>1. n * PageSize >= 1 * PageSize
    BY <1>2, <1>4
  <2> DEFINE m == n * PageSize
  <2>2. m \in Nat /\ m >= PageSize /\ r.start + m <= Width /\ r.end = At(r.start + m - 1)
    BY <1>1, <1>2, <2>1 DEF HasPages
  <2> HIDE DEF m
  <2>3. r.start + m - 1 \in Word
    BY <1>2, <2>2 DEF Word
  <2>4. r.end = r.start + m - 1
    BY <2>2, <2>3, AtNear
  <2>5. QED
    BY <1>2, <2>2, <2>4
<1>5. QED
  BY <1>3, <1>4

\* The region is put into the tree of its space, its place being free.
LEMMA OverlapRegionGrows ==
  ASSUME NEW s \in AllSpaces, NEW x, NEW r, Waiting(x, r), RegionShape(r), Going(x),
         \A b \in DOMAIN x.space[s].regions : b < r.start => x.space[s].regions[b].end < r.start,
         \A b \in DOMAIN x.space[s].regions : b > r.start => r.end < b,
         r.start \in DOMAIN x.space[s].regions => x.space[s].regions[r.start].end < r.start
  PROVE  LET y == OverlapRegion(x, s, r) IN
         /\ Shape(y)
         /\ y.ret = -1 => Same(x, y) /\ y.new = x.new
         /\ y.ret = 0 => Grows(s, x, y)
         /\ Going(y) => /\ y.new = x.new
                        /\ r.start \in DOMAIN y.space[s].regions /\ y.space[s].regions[r.start] = r
                        /\ DOMAIN y.space[s].regions = DOMAIN x.space[s].regions \cup {r.start}
                        /\ SegmentsFit => y.space[s].dir # 0
<1> DEFINE w == HeapAlloc(x)
           R == x.space[s].regions
           z == [w EXCEPT !.space[s].regions = [b \in DOMAIN @ \cup {r.start} |-> IF b = r.start THEN r ELSE @[b]]]
           y == UpdateRegion(z, s, r)
           Q == [b \in DOMAIN R \cup {r.start} |-> IF b = r.start THEN r ELSE R[b]]
<1>1. OverlapRegion(x, s, r) = IF Going(w) THEN y ELSE w
  BY DEF OverlapRegion, Then
<1>2. Same(x, w) /\ w.failure = "none" /\ w.new = x.new /\ Waiting(w, r)
  BY HeapAllocSame, WaitingSame DEF Waiting, Going
<1> HIDE DEF w
<1>3. /\ Shape(z) /\ z.ret = w.ret /\ z.failure = "none" /\ z.free = w.free /\ z.new = x.new
      /\ z.space[s].regions = Q /\ z.space[s].dir = x.space[s].dir
      /\ z.space[s].tables = x.space[s].tables /\ z.space[s].phase = x.space[s].phase
      /\ z.space[s].entry = x.space[s].entry /\ z.space[s].unmapped = x.space[s].unmapped
      /\ \A t \in AllSpaces : t # s => z.space[t] = x.space[t]
  BY <1>2 DEF Same, Shape, SpaceShape, Fields, SpaceFields
<1>4. DOMAIN Q = DOMAIN R \cup {r.start} /\ Q[r.start] = r /\ \A b \in DOMAIN R : b # r.start => Q[b] = R[b]
  OBVIOUS
<1> HIDE DEF z, Q
<1>5. Disjoint(R)
  BY DEF Waiting, Going
<1>6. Disjoint(Q)
  BY <1>4, <1>5, DisjointInsert
<1>7. ASSUME SegmentsFit PROVE \A b \in DOMAIN Q : Sized(Q[b])
  BY <1>4, <1>7 DEF Waiting, Going
<1>8. Booked(z)
  <2> SUFFICES ASSUME SegmentsFit PROVE Ledger(z.free, {}, Holdings(z))
    BY DEF Booked
  <2> DEFINE P == IF r.ops = "anon" THEN PagesOf(r) ELSE {}
             E == IF r.ops = "anon" THEN PagesHeld(r.start, r) ELSE {}
  <2>1. Ledger(x.free, P, Holdings(x)) /\ x.free = z.free
    BY <1>2, <1>3 DEF Waiting, Going, Same
  <2>2. r.start \in Anonymous(R) => DOMAIN R[r.start].pages = {}
    <3> SUFFICES ASSUME r.start \in DOMAIN R, R[r.start].ops = "anon" PROVE DOMAIN R[r.start].pages = {}
      BY DEF Anonymous
    <3> DEFINE q == R[r.start]
    <3>1. Sized(q) /\ RegionShape(q) /\ q.start = r.start /\ q.end < q.start
      BY <1>5 DEF Waiting, Going, Disjoint
    <3> HIDE DEF q
    <3>2. q.ops = "anon" => DOMAIN q.pages = {}
      BY <3>1, NoAddressNoPages
    <3>3. QED
      BY <3>2 DEF q
  <2>3. PageOwn(Q) = PageOwn(R) \cup E
    <3> DEFINE a == r.start
    <3>1. /\ DOMAIN Q = DOMAIN R \cup {a} /\ Q[a] = r /\ \A b \in DOMAIN R : b # a => Q[b] = R[b]
          /\ a \in Anonymous(R) => DOMAIN R[a].pages = {}
      BY <1>4, <2>2
    <3> HIDE DEF R, a
    <3>2. PageOwn(Q) = PageOwn(R) \cup (IF Q[a].ops = "anon" THEN PagesHeld(a, Q[a]) ELSE {})
      BY <3>1, PageOwnInsert
    <3>3. QED
      BY <3>1, <3>2 DEF R, a
  <2>4. Own(z.space[s]) = Own(x.space[s]) \cup E
    BY <1>3, <2>3 DEF Own, DirOwn, TableOwn, TablesIn
  <2>5. Tells(E, P)
    BY PagesHeldAre DEF Waiting, Going, Tells
  <2> DEFINE free == x.free
             own == Holdings(x)
             own2 == Holdings(z)
  <2>6. own2[s] = own[s] \cup E /\ \A t \in AllSpaces : t # s => own2[t] = own[t]
    BY <1>3, <2>4 DEF Holdings
  <2>7. Ledger(free, P, own)
    BY <2>1
  <2> HIDE DEF P, E, free, own, own2
  <2>8. Ledger(free, {}, own2)
    BY <2>5, <2>6, <2>7, LedgerGiven
  <2>9. QED
    BY <2>1, <2>8 DEF free, own2
<1>9. Sound(z)
  BY <1>3, <1>6, <1>7, <1>8 DEF Sound, Waiting, Going
<1>10. /\ Keeps(s, z, y) /\ y.ret = 0
       /\ Booked(z) /\ y.failure = "none" /\ SegmentsFit => y.space[s].dir # 0
  BY <1>3, UpdateRegionKeeps
<1> HIDE DEF y
<1>11. Sound(y)
  BY <1>9, <1>10, KeepsSound
<1>12. ASSUME Going(w), y.failure = "none", SegmentsFit, Tabled(x.space[s]) PROVE Tabled(y.space[s])
  <2> DEFINE sp == x.space[s]
             a == r.start
  <2>1. Going(z)
    BY <1>3, <1>12 DEF Going
  <2>2. z.free \subseteq Frames
    BY <1>8, <1>3, <1>12 DEF Booked, Ledger
  <2>3. Sized(r)
    BY <1>12 DEF Waiting, Going
  <2>4. Within(r)
    BY <2>3, SizedWithin
  <2>5. ASSUME a \in DOMAIN R PROVE \A p \in PageNumber : ~Backs(R[a], p)
    <3>1. R[a].start \in Int /\ R[a].end \in Int /\ R[a].end < R[a].start
      BY <1>5, <2>5 DEF Disjoint, RegionShape, Starts, Word
    <3> HIDE DEF R, a
    <3>2. QED
      BY <3>1, EmptyBacks
  <2>6. Joined(sp.regions, z.space[s].regions, a, r)
    BY <1>3, <1>4, <2>5 DEF Joined
  <2>7. Disjoint(z.space[s].regions) /\ Tabled(sp) /\ y = UpdateRegion(z, s, r)
    BY <1>3, <1>6, <1>12 DEF y
  <2>8. z.space[s].entry = sp.entry /\ z.space[s].tables = sp.tables /\ z.space[s].unmapped = sp.unmapped
    BY <1>3
  <2> HIDE DEF sp, a
  <2>9. QED
    BY <1>3, <1>12, <2>1, <2>2, <2>4, <2>6, <2>7, <2>8, RegionTabled
<1>13. Going(w) => Grows(s, x, y)
  <2>1. \A b \in DOMAIN R : R[b].start <= R[b].end => b \in DOMAIN Q /\ Q[b] = R[b]
    <3> SUFFICES ASSUME NEW b \in DOMAIN R, R[b].start <= R[b].end PROVE b # r.start
      BY <1>4
    <3>1. R[b].start = b /\ R[b].end \in Nat /\ R[b].start \in Nat
      BY <1>5, PageNumbers DEF Disjoint, RegionShape, Starts, Word
    <3>2. QED
      BY <3>1
  <2>2. QED
    BY <1>3, <1>10, <1>11, <1>12, <2>1 DEF Grows, Keeps, Going
<1>14. Going(y) => /\ y.new = x.new
                   /\ r.start \in DOMAIN y.space[s].regions /\ y.space[s].regions[r.start] = r
                   /\ DOMAIN y.space[s].regions = DOMAIN R \cup {r.start}
                   /\ SegmentsFit => y.space[s].dir # 0
  BY <1>3, <1>4, <1>8, <1>10 DEF Keeps, Going
<1>15. CASE Going(w)
  <2>1. Shape(y)
    BY <1>10 DEF Keeps
  <2>2. QED
    BY <1>1, <1>10, <1>13, <1>14, <1>15, <2>1
<1>16. CASE ~Going(w)
  <2>1. w.ret = -1
    BY <1>2, <1>16 DEF Same, Shape, Going
  <2>2. QED
    BY <1>1, <1>2, <1>16, <2>1 DEF Going, Same
<1>17. QED
  BY <1>15, <1>16

LEMMA AddRegionGrows ==
  ASSUME NEW s \in AllSpaces, NEW x, NEW r, Waiting(x, r), RegionShape(r), Going(x)
  PROVE  LET y == AddRegion(x, s, r) IN
         /\ Shape(y)
         /\ y.ret = -1 => Same(x, y) /\ y.new = x.new
         /\ y.ret = 0 => Grows(s, x, y)
         /\ Going(y) => /\ y.new = x.new
                        /\ r.start \in DOMAIN y.space[s].regions /\ y.space[s].regions[r.start] = r
                        /\ SegmentsFit => y.space[s].dir # 0
<1> DEFINE R == x.space[s].regions
           n == At(r.end + 1 - r.start) \div PageSize
<1>1. CASE Overlaps(R, r.start, n)
  <2> DEFINE y == [x EXCEPT !.ret = -1]
  <2>1. Same(x, y) /\ Shape(y) /\ y.ret = -1 /\ y.new = x.new
    BY DEF Waiting, Same, Shape, Fields
  <2>2. AddRegion(x, s, r) = y
    BY <1>1 DEF AddRegion
  <2> HIDE DEF y
  <2>3. QED
    BY <2>1, <2>2 DEF Going
<1>2. CASE ~Overlaps(R, r.start, n)
  <2>1. Disjoint(R)
    BY DEF Waiting, Going
  <2>2. AddRegion(x, s, r) = OverlapRegion(x, s, r)
    BY <1>2 DEF AddRegion
  <2>3. /\ \A b \in DOMAIN R : b < r.start => R[b].end < r.start
        /\ \A b \in DOMAIN R : b > r.start => r.end < b
        /\ r.start \in DOMAIN R => R[r.start].end < r.start
    BY <1>2, <2>1, NoOverlap
  <2>4. QED
    BY <2>2, <2>3, OverlapRegionGrows
<1>3. QED
  BY <1>1, <1>2

-----------------------------------------------------------------------------
(* Pages that are given back, pages that are written.                       *)

LEMMA FreeFramesIs ==
  ASSUME NEW x, Shape(x), NEW F
  PROVE  LET y == FreeFrames(x, F) IN
         /\ Shape(y) /\ y.ret = x.ret /\ y.space = x.space
         /\ y.failure = "none" => x.failure = "none" /\ F \cap Foreign = {} /\ y.free = x.free \cup F
<1>1. CASE F \cap Foreign # {} \/ F \cap x.free # {}
  BY <1>1 DEF FreeFrames, Failing, Shape, Fields
<1>2. CASE ~(F \cap Foreign # {} \/ F \cap x.free # {})
  <2> DEFINE words == [f \in Frames |-> IF f \in F THEN [i \in 0 .. PageSize - 1 |-> Undefined] ELSE x.words[f]]
             y == [x EXCEPT !.free = @ \cup F, !.words = words]
  <2>1. FreeFrames(x, F) = y
    BY <1>2 DEF FreeFrames
  <2> HIDE DEF words
  <2>2. Shape(y) /\ y.ret = x.ret /\ y.space = x.space /\ y.failure = x.failure /\ y.free = x.free \cup F
    BY DEF Shape, Fields
  <2>3. QED
    BY <1>2, <2>1, <2>2
<1>3. QED
  BY <1>1, <1>2

\* A new region that does not get into its space
LEMMA DestroyNew ==
  ASSUME NEW x, NEW r, Waiting(x, r)
  PROVE  LET y == DestroyRegion(x, r) IN
         /\ Sound(y) /\ y.ret = x.ret /\ y.space = x.space
         /\ y.failure = "none" => x.failure = "none"
<1>1. CASE Persistent(r) \/ r.type # "PAGEMAP"
  <2>1. SegmentsFit /\ x.failure = "none" => r.ops # "anon"
    BY <1>1 DEF Waiting, Sized, Persistent
  <2>2. Sound(x)
    BY <2>1 DEF Waiting, Sound, Booked
  <2>3. QED
    BY <1>1, <2>2 DEF DestroyRegion
<1>2. CASE ~(Persistent(r) \/ r.type # "PAGEMAP")
  <2> DEFINE F == PagesOf(r)
             y == FreeFrames(x, F)
  <2>1. DestroyRegion(x, r) = y
    BY <1>2 DEF DestroyRegion
  <2>2. /\ Shape(y) /\ y.ret = x.ret /\ y.space = x.space
        /\ y.failure = "none" => x.failure = "none" /\ F \cap Foreign = {} /\ y.free = x.free \cup F
    BY FreeFramesIs DEF Waiting
  <2> HIDE DEF y
  <2>3. Booked(y)
    <3> SUFFICES ASSUME y.failure = "none", SegmentsFit PROVE Ledger(y.free, {}, Holdings(y))
      BY DEF Booked
    <3> DEFINE P == IF r.ops = "anon" THEN F ELSE {}
               free == x.free
               own == Holdings(x)
    <3>1. Ledger(free, P, own) /\ Sized(r)
      BY <2>2 DEF Waiting
    <3>2. P = F
      <4>1. r.ops # "anon" => F \subseteq Foreign
        BY <1>2, <3>1 DEF Sized, PagesOf
      <4>2. QED
        BY <2>2, <4>1
    <3>3. y.free = free \cup P /\ Holdings(y) = own
      BY <2>2, <3>2 DEF Holdings
    <3> HIDE DEF P, free, own
    <3>4. Ledger(free \cup P, {}, own)
      BY <3>1, LedgerFreed
    <3>5. QED
      BY <3>3, <3>4
  <2>4. Sound(y)
    BY <2>2, <2>3 DEF Waiting, Sound
  <2>5. QED
    BY <2>1, <2>2, <2>4
<1>3. QED
  BY <1>1, <1>2

LEMMA CopyPageSame ==
  ASSUME NEW x, Shape(x), NEW s, NEW a, NEW data, NEW i
  PROVE  Same(x, CopyPage(x, s, a, data, i))
<1> DEFINE f == Virt2Phys(x, s, At(PageStart(a) + i * PageSize))
           put == [w \in 0 .. PageSize - 1 |->
                     LET d == i * PageSize + w - (a % PageSize) + 1
                     IN  IF d \in DOMAIN data THEN data[d] ELSE x.words[f][w]]
<1>1. CopyPage(x, s, a, data, i) = IF f = 0 THEN [x EXCEPT !.ret = -1] ELSE [x EXCEPT !.words[f] = put]
  BY DEF CopyPage
<1> HIDE DEF f, put
<1>2. Same(x, [x EXCEPT !.ret = -1]) /\ Same(x, [x EXCEPT !.words[f] = put])
  BY DEF Same, Shape, Fields
<1>3. QED
  BY <1>1, <1>2

LEMMA UnitsNat ==
  ASSUME NEW n \in Nat
  PROVE  Units(n) \in Nat
BY PageNumbers DEF Units

LEMMA Copy2VirtGrows ==
  ASSUME NEW s \in AllSpaces, NEW x, Sound(x), NEW a \in Int, NEW data, Len(data) \in Nat
  PROVE  Grows(s, x, Copy2Virt(x, s, a, data))
<1> DEFINE v == Copy2Virt(x, s, a, data)
           n == CopyTurns(a, data)
<1>1. n \in Nat
  <2>1. (a % PageSize) \in Nat
    BY PageNumbers
  <2>2. (a % PageSize) + Len(data) \in Nat
    BY <2>1
  <2>3. QED
    BY <2>2, UnitsNat DEF CopyTurns
<1>2. v = Copy2Virt(x, s, a, data) /\ n = CopyTurns(a, data)
  OBVIOUS
<1> HIDE DEF v, n
<1>3. PICK f, seq, tag, y :
        /\ Run(f, tag, y, seq) /\ v = f[n]
        /\ Len(seq) = n /\ \A i \in 1 .. n : seq[i] = i - 1
        /\ tag = <<"copy", s, a, data>> /\ y = x
  BY <1>1, <1>2, Copy2VirtRun
<1>4. ASSUME NEW z, Sound(z), NEW e PROVE Grows(s, z, StepOf(tag, z, e))
  <2>1. StepOf(tag, z, e) = CopyPage(z, s, a, data, e)
    BY <1>3 DEF StepOf
  <2>2. Same(z, CopyPage(z, s, a, data, e))
    BY <1>4, CopyPageSame DEF Sound
  <2>3. QED
    BY <1>4, <2>1, <2>2, SameSound
<1>5. Grows(s, x, f[Len(seq)])
  BY <1>1, <1>3, <1>4, LoopGrows
<1>6. QED
  BY <1>2, <1>3, <1>5

-----------------------------------------------------------------------------
(* Segments.                                                                *)

LEMMA WordsAre == \A w \in Word : w \in Nat /\ w \in Int
BY PageNumbers DEF Word

LEMMA PageStartIs ==
  ASSUME NEW a \in Word
  PROVE  PageStart(a) \in Starts /\ a - PageStart(a) = a % PageSize /\ (a % PageSize) \in Nat /\ (a % PageSize) < PageSize
<1> DEFINE p == PageSize
           c == a \div p
           m == a % p
<1>1. p \in Nat /\ p > 0 /\ a \in Nat /\ a < Width /\ Width \in Nat
  BY PageNumbers DEF Word
<1>2. c \in Int /\ c >= 0 /\ m \in 0 .. p - 1 /\ a = c * p + m
  <2> HIDE DEF p
  <2>1. QED
    BY <1>1
<1> HIDE DEF p, c, m
<1> DEFINE v == c * p
<1>3. v % p = 0 /\ v >= 0 /\ v \in Int
  <2>1. v % p = 0
    BY <1>1, <1>2, Multiple
  <2>2. QED
    BY <1>1, <1>2, <2>1
<1>4. a = v + m
  BY <1>2
<1> HIDE DEF v
<1>5. a - m = v /\ v \in 0 .. Width - 1
  BY <1>1, <1>2, <1>3, <1>4
<1>6. PageStart(a) = v
  BY <1>5 DEF PageStart, m, p
<1>7. v \in Starts
  BY <1>3, <1>5 DEF Starts, p
<1>8. a - v = m /\ m \in Nat /\ m < p
  BY <1>1, <1>2, <1>3, <1>4
<1>9. QED
  BY <1>6, <1>7, <1>8 DEF m, p

\* n words take up Units(n) pages.
LEMMA UnitsHold ==
  ASSUME NEW n \in Nat
  PROVE  Units(n) \in Nat /\ n <= Units(n) * PageSize /\ Units(n) * PageSize < n + PageSize
<1> DEFINE p == PageSize
           v == n + p - 1
           q == v \div p
           m == v % p
<1>1. p \in Nat /\ p > 0 /\ v \in Nat
  BY PageNumbers
<1>2. q \in Nat /\ m \in 0 .. p - 1 /\ v = q * p + m
  <2> HIDE DEF p, v
  <2>1. QED
    BY <1>1
<1> HIDE DEF q, m
<1> DEFINE w == q * p
<1>3. w \in Nat
  BY <1>1, <1>2
<1> HIDE DEF w
<1>4. n <= w /\ w < n + p
  <2>1. n + p - 1 = w + m
    BY <1>2 DEF w
  <2>2. QED
    BY <1>1, <1>2, <1>3, <2>1
<1>5. q = Units(n)
  BY DEF q, Units
<1>6. QED
  BY <1>2, <1>4, <1>5 DEF w

\* What a segment that fits takes
Fits(seg) ==
  LET n == Units((seg.virt % PageSize) + seg.size)
  IN  n < Pages /\ PageStart(seg.virt) + n * PageSize <= Width

LEMMA FitsSpan ==
  ASSUME NEW seg, seg.virt \in Word, seg.size \in Word
  PROVE  LET start == PageStart(seg.virt)
             n == Units(At(seg.size + seg.virt - start))
         IN  /\ start \in Starts /\ n \in Nat
             /\ Fits(seg) => n < Pages /\ start + n * PageSize <= Width
<1> DEFINE start == PageStart(seg.virt)
           m == seg.virt % PageSize
           k0 == m + seg.size
           n == Units(At(seg.size + seg.virt - start))
<1>1. start \in Starts /\ seg.virt - start = m /\ m \in Nat /\ m < PageSize
  BY PageStartIs
<1>2. Width \in Nat /\ PageSize \in Nat /\ start \in Nat /\ seg.size \in Nat /\ seg.virt \in Nat /\ Pages \in Nat
      /\ Width = PageSize * Pages
  BY <1>1, PageNumbers DEF Word, Starts
<1> HIDE DEF start, m
<1>3. seg.size + seg.virt - start = k0 /\ k0 \in Nat
  BY <1>1, <1>2
<1>4. At(k0) \in Word /\ At(k0) \in Nat
  BY <1>3, PageNumbers DEF Word
<1>5. n = Units(At(k0)) /\ n \in Nat
  BY <1>3, <1>4, UnitsNat
<1>6. ASSUME Fits(seg) PROVE n < Pages /\ start + n * PageSize <= Width
  <2> DEFINE u == Units(k0)
             w == u * PageSize
  <2>1. u < Pages /\ start + w <= Width
    BY <1>6 DEF Fits, start, m
  <2>2. u \in Nat /\ k0 <= w /\ w < k0 + PageSize
    BY <1>3, UnitsHold
  <2>3. w < Width /\ w \in Nat
    <3>1. u + 1 <= Pages /\ u + 1 \in Nat
      BY <1>2, <2>1, <2>2
    <3>2. (u + 1) * PageSize <= Pages * PageSize
      BY <1>2, <3>1
    <3>3. (u + 1) * PageSize = w + PageSize /\ Pages * PageSize = Width /\ w \in Nat
      BY <1>2, <2>2
    <3>4. PageSize > 0
      BY PageNumbers
    <3> HIDE DEF w
    <3>5. QED
      BY <1>2, <3>2, <3>3, <3>4
  <2> HIDE DEF w, k0
  <2>4. k0 \in Word
    BY <1>2, <1>3, <2>2, <2>3 DEF Word
  <2>5. At(k0) = k0
    BY <2>4, AtNear
  <2>6. QED
    BY <1>5, <2>1, <2>5 DEF w
<1>7. QED
  BY <1>1, <1>5, <1>6 DEF start

LEMMA LoadSegmentGrows ==
  ASSUME NEW s \in AllSpaces, NEW x, Sound(x), Going(x),
         NEW seg, seg.virt \in Word, seg.size \in Word, Len(seg.data) \in Nat, SegmentsFit => Fits(seg)
  PROVE  Grows(s, x, LoadSegment(x, s, seg))
<1> DEFINE start == PageStart(seg.virt)
           n == Units(At(seg.size + seg.virt - start))
           bss == [i \in 1 .. seg.size - Len(seg.data) |-> 0]
           y == AnonMap(x, start, n)
           r == [y.new EXCEPT !.role = seg.role]
           z == AddRegion(y, s, r)
           w == IF z.failure = "none" /\ z.ret = -1 THEN [DestroyRegion(z, r) EXCEPT !.ret = -1] ELSE z
           a == IF Going(y) THEN w ELSE y
           c == Copy2Virt(a, s, seg.virt, seg.data)
           d == Mandatory(c)
           e == Copy2Virt(d, s, At(seg.virt + Len(seg.data)), bss)
           f == Mandatory(e)
<1>1. LoadSegment(x, s, seg) = IF Len(seg.data) > seg.size THEN [x EXCEPT !.ret = -1] ELSE IF Going(a) THEN f ELSE a
  BY DEF LoadSegment, Then, Else
<1>0. seg.virt \in Int /\ seg.size \in Nat
  BY WordsAre
<1>2. CASE Len(seg.data) > seg.size
  <2>1. Same(x, [x EXCEPT !.ret = -1])
    BY DEF Sound, Same, Shape, Fields
  <2>2. QED
    BY <1>1, <1>2, <2>1, SameSound
<1>3. CASE ~(Len(seg.data) > seg.size)
  <2>1. /\ Shape(y)
        /\ y.failure = "none" => x.failure = "none" /\ y.space = x.space
        /\ y.ret = -1 => Same(x, y)
        /\ Going(y) => /\ Waiting(y, y.new) /\ RegionShape(y.new)
                       /\ y.new.start = start /\ y.new.ops = "anon" /\ y.new.type = "PAGEMAP"
    <3>1. start \in Starts /\ n \in Nat /\ (SegmentsFit => n < Pages /\ start + n * PageSize <= Width)
      BY FitsSpan
    <3> HIDE DEF start, n
    <3>2. QED
      BY <3>1, AnonMapMakes
  <2> HIDE DEF y
  <2>2. ASSUME Going(y) PROVE Grows(s, x, w)
    <3>1. Waiting(y, r) /\ RegionShape(r)
      <4>1. Waiting(y, y.new) /\ RegionShape(y.new) /\ y.new.ops = "anon"
        BY <2>1, <2>2
      <4>2. r = [y.new EXCEPT !.role = seg.role]
        OBVIOUS
      <4> HIDE DEF r
      <4>3. QED
        BY <4>1, <4>2, WaitingRole
    <3> HIDE DEF r
    <3>2. /\ Shape(z)
          /\ z.ret = -1 => Same(y, z) /\ z.new = y.new
          /\ z.ret = 0 => Grows(s, y, z)
      BY <2>2, <3>1, AddRegionGrows
    <3> HIDE DEF z
    <3>3. x.failure = "none" /\ y.failure = "none" /\ y.space = x.space
      BY <2>1, <2>2 DEF Going
    <3>4. CASE z.ret = 0
      <4>1. Grows(s, x, z)
        BY <3>2, <3>3, <3>4 DEF Grows
      <4>2. QED
        BY <3>4, <4>1
    <3>5. CASE z.ret = -1
      <4>1. Waiting(z, r) /\ z.space = x.space
        BY <3>1, <3>2, <3>3, <3>5, WaitingSame DEF Same
      <4> DEFINE q == DestroyRegion(z, r)
      <4>2. Sound(q) /\ q.ret = -1 /\ q.space = x.space
        BY <3>5, <4>1, DestroyNew
      <4> HIDE DEF q
      <4>3. Same(q, [q EXCEPT !.ret = -1]) /\ [q EXCEPT !.ret = -1].failure = q.failure
        BY <4>2 DEF Sound, Same, Shape, Fields
      <4>4. Sound([q EXCEPT !.ret = -1])
        BY <4>2, <4>3, SameSound
      <4>5. Grows(s, x, [q EXCEPT !.ret = -1])
        BY <3>3, <4>2, <4>3, <4>4 DEF Grows, Same
      <4>6. CASE z.failure = "none"
        BY <3>5, <4>5, <4>6 DEF q
      <4>7. CASE z.failure # "none"
        <5>1. Grows(s, x, z)
          BY <4>1, <4>7 DEF Grows, Sound, Waiting, Booked
        <5>2. QED
          BY <4>7, <5>1
      <4>8. QED
        BY <4>6, <4>7
    <3>6. z.ret \in {0, -1}
      BY <3>2 DEF Shape
    <3>7. QED
      BY <3>4, <3>5, <3>6
  <2> HIDE DEF w
  <2>3. ASSUME ~Going(y) PROVE Grows(s, x, y)
    <3>1. CASE y.failure = "none"
      <4>1. y.ret = -1
        BY <2>1, <2>3, <3>1 DEF Going, Shape
      <4>2. QED
        BY <2>1, <4>1, SameSound
    <3>2. CASE y.failure # "none"
      BY <2>1, <3>2 DEF Grows, Sound, Booked
    <3>3. QED
      BY <3>1, <3>2
  <2>4. Grows(s, x, a)
    BY <2>2, <2>3
  <2> HIDE DEF a
  <2>5. Sound(a) /\ Grows(s, a, c)
    <3>1. Sound(a) /\ seg.virt \in Int
      BY <1>0, <2>4 DEF Grows
    <3>2. QED
      BY <3>1, Copy2VirtGrows
  <2> HIDE DEF c
  <2>6. Sound(d) /\ Grows(s, c, d)
    BY <2>5, MandatorySame, SameSound DEF Grows, Sound
  <2> HIDE DEF d
  <2>7. Grows(s, d, e)
    <3>1. seg.virt + Len(seg.data) \in Int /\ At(seg.virt + Len(seg.data)) \in Int
      <4>1. seg.virt + Len(seg.data) \in Int
        BY <1>0
      <4>2. QED
        BY <4>1, PageNumbers, WordsAre
    <3>2. Len(bss) \in Nat
      <4>1. seg.size - Len(seg.data) \in Nat
        BY <1>0, <1>3
      <4>2. QED
        BY <4>1
    <3> DEFINE b == At(seg.virt + Len(seg.data))
    <3>3. b \in Int
      BY <3>1
    <3> HIDE DEF bss, b
    <3>4. Grows(s, d, Copy2Virt(d, s, b, bss))
      BY <2>6, <3>2, <3>3, Copy2VirtGrows
    <3>5. QED
      BY <3>4 DEF b
  <2> HIDE DEF e
  <2>8. Grows(s, e, f)
    BY <2>7, MandatorySame, SameSound DEF Grows, Sound
  <2>9. Grows(s, x, f)
    BY <2>4, <2>5, <2>6, <2>7, <2>8, GrowsTrans
  <2>10. QED
    BY <1>1, <1>3, <2>4, <2>9
<1>4. QED
  BY <1>2, <1>3

-----------------------------------------------------------------------------
(* What the loader makes of a file.                                         *)

StateFields == {"file", "ok", "undefined", "dyn", "addr", "abi", "rel", "relCount", "rela", "relaCount",
                "jmprel", "jmprelCount", "jmprelType", "symtab", "symSize", "strtab", "strSize"}
Of(st, file) == DOMAIN st = StateFields /\ st.file = file /\ st.addr = 0

\* The loader reads the tags of a section, the headers of a file in their order.
ReadOf(what, st, e) == IF what = "tags" THEN ReadTag(st, e) ELSE ReadHeader(st, e)

Reading(f, what, st, seq, n) ==
  f = [i \in 0 .. n |-> IF i = 0 THEN st ELSE ReadOf(what, f[i - 1], seq[i])]

LEMMA ReadingExists ==
  ASSUME NEW what, NEW st, NEW seq, NEW n \in Nat
  PROVE  \E f : Reading(f, what, st, seq, n)
<1> DEFINE S == {i \in Nat : \E f : Reading(f, what, st, seq, i)}
<1>1. 0 \in S
  <2> DEFINE g == [i \in 0 .. 0 |-> st]
  <2>1. Reading(g, what, st, seq, 0)
    BY DEF Reading
  <2>2. QED
    BY <2>1
<1>2. ASSUME NEW m \in 1 .. n, m - 1 \in S PROVE m \in S
  <2>1. PICK f : Reading(f, what, st, seq, m - 1)
    BY <1>2
  <2> DEFINE g == [i \in 0 .. m |-> IF i = m THEN ReadOf(what, f[m - 1], seq[m]) ELSE f[i]]
  <2> HIDE DEF S
  <2>2. \A i \in 0 .. m - 1 : f[i] = IF i = 0 THEN st ELSE ReadOf(what, f[i - 1], seq[i])
    BY <2>1 DEF Reading
  <2>3. \A i \in 0 .. m : g[i] = IF i = 0 THEN st ELSE ReadOf(what, g[i - 1], seq[i])
    <3> SUFFICES ASSUME NEW i \in 0 .. m
                 PROVE  g[i] = IF i = 0 THEN st ELSE ReadOf(what, g[i - 1], seq[i])
      OBVIOUS
    <3>1. i # 0 => i - 1 \in 0 .. m - 1 /\ i - 1 # m
      OBVIOUS
    <3>2. i # 0 => g[i - 1] = f[i - 1]
      BY <3>1
    <3>3. CASE i = m
      BY <3>2, <3>3
    <3>4. CASE i # m
      <4>1. i \in 0 .. m - 1
        BY <3>4
      <4>2. g[i] = f[i]
        BY <3>4
      <4>3. QED
        BY <4>1, <4>2, <2>2, <3>2
    <3>5. QED
      BY <3>3, <3>4
  <2>4. g = [i \in 0 .. m |-> g[i]]
    OBVIOUS
  <2> HIDE DEF g
  <2>5. Reading(g, what, st, seq, m)
    BY <2>3, <2>4 DEF Reading
  <2>6. QED
    BY <2>5 DEF S
<1> HIDE DEF S
<1>3. n \in S
  <2>1. \A i \in 0 .. n : i \in S
    BY <1>1, <1>2, UpTo
  <2>2. QED
    BY <2>1
<1>4. QED
  BY <1>3 DEF S

LEMMA ReadingOf ==
  ASSUME NEW f, NEW what, NEW st, NEW seq, NEW n \in Nat, Reading(f, what, st, seq, n), NEW file, Of(st, file),
         \A q : \A i \in 1 .. n : Of(q, file) => Of(ReadOf(what, q, seq[i]), file)
  PROVE  Of(f[n], file)
<1> DEFINE S == {i \in 0 .. n : Of(f[i], file)}
<1>1. 0 \in S
  BY DEF Reading
<1>2. ASSUME NEW i \in 1 .. n, i - 1 \in S PROVE i \in S
  <2>1. f[i] = ReadOf(what, f[i - 1], seq[i])
    BY DEF Reading
  <2>2. QED
    BY <1>2, <2>1
<1> HIDE DEF S
<1>3. n \in S
  <2>1. \A i \in 0 .. n : i \in S
    BY <1>1, <1>2, UpTo
  <2>2. QED
    BY <2>1
<1>4. QED
  BY <1>3 DEF S

LEMMA ReadTagOf ==
  ASSUME NEW st, NEW file, Of(st, file), NEW tag
  PROVE  Of(ReadTag(st, tag), file)
<1> DEFINE offset == AddrOffset(st.file, tag.val)
<1>1. \/ ReadTag(st, tag) = st
      \/ \E field \in StateFields \ {"file", "addr"} : \E v : ReadTag(st, tag) = [st EXCEPT ![field] = v]
  <2> DEFINE v == offset
  <2>1. ReadTag(st, tag) \in {st, [st EXCEPT !.rel = offset], [st EXCEPT !.relCount = tag.val], [st EXCEPT !.rela = offset],
           [st EXCEPT !.relaCount = tag.val], [st EXCEPT !.jmprel = offset], [st EXCEPT !.jmprelCount = tag.val],
           [st EXCEPT !.jmprelType = tag.type], [st EXCEPT !.symtab = offset], [st EXCEPT !.strtab = offset],
           [st EXCEPT !.strSize = tag.val], [st EXCEPT !.symSize = Len(st.file.syms)], [st EXCEPT !.undefined = TRUE]}
    <3> HIDE DEF offset
    <3>1. QED
      BY DEF ReadTag, offset
  <2> HIDE DEF offset
  <2>2. QED
    BY <2>1 DEF StateFields
<1>2. ASSUME NEW field \in StateFields \ {"file", "addr"}, NEW v PROVE Of([st EXCEPT ![field] = v], file)
  BY DEF Of, StateFields
<1>3. QED
  BY <1>1, <1>2

LEMMA ReadTagsOf ==
  ASSUME NEW st, NEW file, Of(st, file), NEW h, Len(file.tags[h.offset]) \in Nat
  PROVE  Of(ReadTags(st, h), file)
<1> DEFINE tags == st.file.tags[h.offset]
           q == [st EXCEPT !.jmprelCount = Null]
           f == CHOOSE f : f = [i \in 0 .. Len(tags) |-> IF i = 0 THEN q ELSE ReadTag(f[i - 1], tags[i])]
<1>1. ReadTags(st, h) = f[Len(tags)]
  BY DEF ReadTags
<1>2. Of(q, file) /\ Len(tags) \in Nat
  BY DEF Of, StateFields
<1> HIDE DEF tags, q
<1>3. PICK g : Reading(g, "tags", q, tags, Len(tags))
  BY <1>2, ReadingExists
<1>4. g = [i \in 0 .. Len(tags) |-> IF i = 0 THEN q ELSE ReadTag(g[i - 1], tags[i])]
  BY <1>3 DEF Reading, ReadOf
<1>5. f = [i \in 0 .. Len(tags) |-> IF i = 0 THEN q ELSE ReadTag(f[i - 1], tags[i])]
  BY <1>4
<1> HIDE DEF f
<1>6. Reading(f, "tags", q, tags, Len(tags))
  BY <1>5 DEF Reading, ReadOf
<1>7. \A p : \A i \in 1 .. Len(tags) : Of(p, file) => Of(ReadOf("tags", p, tags[i]), file)
  BY ReadTagOf DEF ReadOf
<1>8. Of(f[Len(tags)], file)
  BY <1>2, <1>6, <1>7, ReadingOf
<1>9. QED
  BY <1>1, <1>8

LEMMA ReadHeaderOf ==
  ASSUME NEW st, NEW file, Of(st, file), NEW h, h.type = "dynamic" => Len(file.tags[h.offset]) \in Nat
  PROVE  Of(ReadHeader(st, h), file)
<1>1. Of(SetupAbi(st, h), file)
  BY DEF SetupAbi, Of, StateFields
<1>2. ASSUME h.type = "dynamic" PROVE Of(ParseDyn(st, h), file)
  <2> DEFINE q == ReadTags(st, h)
             c == Counted(q)
             d == Checked(c, q.jmprel # Null)
  <2>0. ParseDyn(st, h) = IF Overflow(h.offset + h.filesz - 1, st.file.size) THEN [st EXCEPT !.ok = FALSE] ELSE d
    BY DEF ParseDyn
  <2>1. Of(q, file)
    BY <1>2, ReadTagsOf
  <2> HIDE DEF q
  <2>2. Of(c, file)
    BY <2>1 DEF Counted, Of, StateFields
  <2> HIDE DEF c
  <2>3. Of(d, file)
    BY <2>2 DEF Checked, Of, StateFields
  <2> HIDE DEF d
  <2>4. Of([st EXCEPT !.ok = FALSE], file)
    BY DEF Of, StateFields
  <2>6. QED
    BY <2>0, <2>3, <2>4
<1>3. QED
  BY <1>1, <1>2 DEF ReadHeader

LEMMA OpenOf ==
  ASSUME NEW file \in Files
  PROVE  Of(Open(file), file)
<1> DEFINE st == NewState(file)
           headers == file.phdrs
           f == CHOOSE f : f = [i \in 0 .. Len(headers) |-> IF i = 0 THEN st ELSE ReadHeader(f[i - 1], headers[i])]
<1>1. Of(st, file) /\ Of([st EXCEPT !.ok = FALSE], file)
  BY DEF NewState, Of, StateFields
<1>2. Len(headers) \in Nat /\ \A i \in 1 .. Len(headers) : headers[i].type = "dynamic" => Len(file.tags[headers[i].offset]) \in Nat
  BY FilesAssumption
<1>3. PreloadInfo(st) = f[Len(headers)]
  BY DEF PreloadInfo, NewState
<1>4. Open(file) = [st EXCEPT !.ok = FALSE] \/ Open(file) = PreloadInfo(st)
  BY DEF Open
<1> HIDE DEF st, headers
<1>5. PICK g : Reading(g, "headers", st, headers, Len(headers))
  BY <1>2, ReadingExists
<1>6. g = [i \in 0 .. Len(headers) |-> IF i = 0 THEN st ELSE ReadHeader(g[i - 1], headers[i])]
  BY <1>5 DEF Reading, ReadOf
<1>7. f = [i \in 0 .. Len(headers) |-> IF i = 0 THEN st ELSE ReadHeader(f[i - 1], headers[i])]
  BY <1>6
<1> HIDE DEF f
<1>8. Reading(f, "headers", st, headers, Len(headers))
  BY <1>7 DEF Reading, ReadOf
<1>9. \A p : \A i \in 1 .. Len(headers) : Of(p, file) => Of(ReadOf("headers", p, headers[i]), file)
  BY <1>2, ReadHeaderOf DEF ReadOf
<1>10. Of(f[Len(headers)], file)
  BY <1>1, <1>2, <1>8, <1>9, ReadingOf
<1>11. QED
  BY <1>1, <1>3, <1>4, <1>10

\* What the kernel loads: an executable where it is linked, the ABI where it
\* puts it.
Placed(st, file) ==
  \/ st = Open(file) /\ file \in UNION {Executables[s] : s \in Spaces}
  \/ st = Rebase(Open(Vdso), VdsoBase) /\ file = Vdso

LEMMA PlacedIs ==
  ASSUME NEW st, NEW file, Placed(st, file)
  PROVE  /\ file \in Files /\ st.file = file /\ st.addr \in Int
         /\ Relocations(st) = Relocations(Open(file))
<1>1. CASE st = Open(file) /\ file \in UNION {Executables[s] : s \in Spaces}
  <2>1. file \in Files
    BY <1>1 DEF Files
  <2>2. QED
    BY <1>1, <2>1, OpenOf DEF Of
<1>2. CASE st = Rebase(Open(Vdso), VdsoBase) /\ file = Vdso
  <2>1. file \in Files
    BY <1>2 DEF Files
  <2> DEFINE q == Open(file)
  <2>2. Of(q, file)
    BY <2>1, OpenOf
  <2>3. st = [q EXCEPT !.addr = VdsoBase, !.ok = VdsoBase % PageSize = 0]
    BY <1>2 DEF Rebase
  <2> HIDE DEF q
  <2>4. /\ st.file = file /\ st.addr = VdsoBase
        /\ st.rel = q.rel /\ st.relCount = q.relCount /\ st.rela = q.rela /\ st.relaCount = q.relaCount
        /\ st.jmprel = q.jmprel /\ st.jmprelCount = q.jmprelCount /\ st.jmprelType = q.jmprelType /\ q.file = file
    BY <2>2, <2>3 DEF Of, StateFields
  <2>5. VdsoBase \in Int
    BY FilesAssumption, PageNumbers DEF Starts
  <2>6. Relocations(st) = Relocations(q)
    BY <2>4 DEF Relocations
  <2>7. QED
    BY <2>1, <2>4, <2>5, <2>6 DEF q
<1>3. QED
  BY <1>1, <1>2 DEF Placed

LEMMA SegmentIs ==
  ASSUME NEW st, NEW file, Placed(st, file), NEW i \in Loads(file)
  PROVE  LET seg == Segment(st, i) IN
         /\ seg.virt \in Word /\ seg.size \in Word /\ Len(seg.data) \in Nat
         /\ SegmentsFit => Fits(seg)
<1> DEFINE h == file.phdrs[i]
           seg == Segment(st, i)
<1>1. file \in Files /\ st.file = file /\ st.addr \in Int
  BY PlacedIs
<1>2. h.vaddr \in Word /\ h.memsz \in Word /\ h.filesz \in Word
  <2>1. file.phdrs \in Seq([type : STRING, vaddr : Word, offset : Word, filesz : Word, memsz : Word, x : BOOLEAN])
    BY <1>1, FilesAssumption
  <2>2. i \in DOMAIN file.phdrs
    BY DEF Loads
  <2>3. h \in [type : STRING, vaddr : Word, offset : Word, filesz : Word, memsz : Word, x : BOOLEAN]
    <3> DEFINE T == [type : STRING, vaddr : Word, offset : Word, filesz : Word, memsz : Word, x : BOOLEAN]
               q == file.phdrs
    <3>1. q \in Seq(T) /\ i \in DOMAIN q
      BY <2>1, <2>2
    <3> HIDE DEF T, q
    <3>2. q[i] \in T
      BY <3>1, LenProperties, ElementOfSeq
    <3>3. QED
      BY <3>2 DEF T, q
  <2> HIDE DEF h
  <2>4. QED
    BY <2>3
<1> DEFINE m == IF \E j \in Loads(st.file) : j <= i /\ Outside(st, j) THEN 0 ELSE h.filesz
<1>3. /\ seg.virt = IF st.dyn THEN At(h.vaddr + st.addr) ELSE h.vaddr
      /\ seg.size = h.memsz
      /\ seg.data = [w \in 1 .. m |-> st.file.word[h.offset + w - 1]]
  BY <1>1 DEF Segment
<1>4. m \in Nat /\ h.vaddr \in Int
  BY <1>2, WordsAre
<1>5. h.vaddr + st.addr \in Int
  BY <1>1, <1>4
<1> HIDE DEF m, seg
<1>6. seg.virt \in Word /\ seg.size \in Word
  BY <1>2, <1>3, <1>5, PageNumbers
<1>7. Len(seg.data) = m
  <2> DEFINE d == [w \in 1 .. m |-> st.file.word[h.offset + w - 1]]
  <2>1. Len(d) = m
    BY <1>4
  <2>2. QED
    BY <1>3, <2>1
<1>8. ASSUME SegmentsFit PROVE Fits(seg)
  BY <1>1, <1>8 DEF SegmentsFit, Fits, Placed, seg
<1>9. QED
  BY <1>4, <1>6, <1>7, <1>8 DEF seg

LEMMA WalkExecGrows ==
  ASSUME NEW s \in AllSpaces, NEW x, Sound(x), NEW st, NEW file, Placed(st, file)
  PROVE  Grows(s, x, WalkExec(x, s, st))
<1> DEFINE v == WalkExec(x, s, st)
           n == Len(file.phdrs)
<1>1. file \in Files /\ st.file = file
  BY PlacedIs
<1>2. n \in Nat /\ DOMAIN st.file.phdrs = 1 .. n
  BY <1>1, FilesAssumption
<1>3. v = WalkExec(x, s, st)
  OBVIOUS
<1> HIDE DEF v, n
<1>4. PICK f, seq, tag, y :
        /\ Run(f, tag, y, seq) /\ v = f[n]
        /\ Len(seq) = n /\ \A i \in 1 .. n : seq[i] = i
        /\ tag = <<"headers", s, st>> /\ y = x
  BY <1>2, <1>3, WalkExecRun
<1>5. ASSUME NEW z, Sound(z), Going(z), NEW e PROVE Grows(s, z, StepOf(tag, z, e))
  <2>1. StepOf(tag, z, e) = LoadHeader(z, s, st, e)
    BY <1>4 DEF StepOf
  <2>2. CASE e \in Loads(file)
    <3> DEFINE seg == Segment(st, e)
    <3>1. seg.virt \in Word /\ seg.size \in Word /\ Len(seg.data) \in Nat /\ (SegmentsFit => Fits(seg))
      BY <2>2, SegmentIs
    <3>2. LoadHeader(z, s, st, e) = LoadSegment(z, s, seg)
      BY <1>1, <2>2 DEF LoadHeader
    <3> HIDE DEF seg
    <3>3. QED
      BY <1>5, <2>1, <3>1, <3>2, LoadSegmentGrows
  <2>3. CASE e \notin Loads(file)
    BY <1>1, <1>5, <2>1, <2>3, GrowsRefl DEF LoadHeader
  <2>4. QED
    BY <2>2, <2>3
<1>6. Grows(s, x, f[Len(seq)])
  BY <1>2, <1>4, <1>5, LoopGrows
<1>7. QED
  BY <1>3, <1>4, <1>6

LEMMA Relocate1Grows ==
  ASSUME NEW s \in AllSpaces, NEW x, Sound(x), NEW st, st.addr \in Int, NEW r, r.off \in Word
  PROVE  Grows(s, x, Relocate1(x, s, st, r))
<1> DEFINE P == Target(st, r)
           A == IF r.implicit THEN Copy2Phys(x, s, P, 1) ELSE <<r.addend>>
           R == Reloc(st, r, A[1])
<1>1. \/ Relocate1(x, s, st, r) = [x EXCEPT !.ret = -1]
      \/ Relocate1(x, s, st, r) = Copy2Virt(x, s, P, R)
  BY DEF Relocate1
<1>2. Same(x, [x EXCEPT !.ret = -1])
  BY DEF Sound, Same, Shape, Fields
<1>3. P \in Int
  <2>1. r.off \in Int
    BY WordsAre
  <2>2. st.addr + r.off \in Int
    BY <2>1
  <2>3. At(st.addr + r.off) \in Int
    BY <2>2, PageNumbers, WordsAre
  <2>4. QED
    BY <2>1, <2>3 DEF Target
<1>4. Len(R) \in Nat
  <2> DEFINE a == A[1]
  <2> HIDE DEF a, A
  <2>1. Reloc(st, r, a) = << >> \/ \E w : Reloc(st, r, a) = <<w>>
    BY DEF Reloc
  <2> HIDE DEF R
  <2>2. R = << >> \/ \E w : R = <<w>>
    BY <2>1 DEF R, a
  <2>3. QED
    BY <2>2
<1> HIDE DEF P, R
<1>5. Grows(s, x, Copy2Virt(x, s, P, R))
  BY <1>3, <1>4, Copy2VirtGrows
<1>6. QED
  BY <1>1, <1>2, <1>5, SameSound

LEMMA LoaderRelocateGrows ==
  ASSUME NEW s \in AllSpaces, NEW x, Sound(x), NEW st, NEW file, Placed(st, file), Open(file).ok
  PROVE  Grows(s, x, LoaderRelocate(x, s, st))
<1>1. file \in Files /\ st.addr \in Int /\ Relocations(st) = Relocations(Open(file))
  BY PlacedIs
<1> DEFINE rels == Relocations(st)
           v == RelocateAll(x, s, st)
<1>2. Len(rels) \in Nat /\ DOMAIN rels = 1 .. Len(rels) /\ \A i \in DOMAIN rels : rels[i].off \in Word
  BY <1>1, FilesAssumption
<1>3. v = RelocateAll(x, s, st)
  OBVIOUS
<1> HIDE DEF v
<1>4. PICK f, seq, tag, y :
        /\ Run(f, tag, y, seq) /\ v = f[Len(rels)]
        /\ seq = rels
        /\ tag = <<"relocations", s, st>> /\ y = x
  BY <1>2, <1>3, RelocateAllRun
<1> HIDE DEF rels
<1>5. ASSUME NEW z, Sound(z), NEW i \in 1 .. Len(seq) PROVE Grows(s, z, StepOf(tag, z, seq[i]))
  <2>1. StepOf(tag, z, seq[i]) = Relocate1(z, s, st, seq[i])
    BY <1>4 DEF StepOf
  <2>2. seq[i].off \in Word
    BY <1>2, <1>4
  <2>3. QED
    BY <1>1, <1>5, <2>1, <2>2, Relocate1Grows
<1>6. Grows(s, x, f[Len(seq)])
  BY <1>2, <1>4, <1>5, LoopGrows
<1>7. Grows(s, x, v)
  BY <1>4, <1>6
<1>8. Same(x, Failing(x, "read_through_no_pointer"))
  BY FailingSame DEF Sound
<1>9. QED
  BY <1>3, <1>7, <1>8, SameSound DEF LoaderRelocate

-----------------------------------------------------------------------------
(* The regions every space has.                                             *)

\* A region without pages of its own is made and put into its space.
LEMMA AddMade ==
  ASSUME NEW s \in AllSpaces, NEW x, Sound(x), NEW y, Same(x, y), Going(y),
         NEW r, RegionShape(r), r.ops # "anon", Sized(r)
  PROVE  LET z == AddRegion(y, s, r) IN
         /\ Grows(s, x, z) /\ Shape(z)
         /\ Going(z) => /\ r.start \in DOMAIN z.space[s].regions /\ z.space[s].regions[r.start] = r
                        /\ SegmentsFit => z.space[s].dir # 0
<1> DEFINE z == AddRegion(y, s, r)
<1>1. Sound(y) /\ Grows(s, x, y)
  BY SameSound
<1>2. Waiting(y, r)
  BY <1>1, SoundWaiting
<1>3. /\ Shape(z)
      /\ z.ret = -1 => Same(y, z)
      /\ z.ret = 0 => Grows(s, y, z)
      /\ Going(z) => /\ r.start \in DOMAIN z.space[s].regions /\ z.space[s].regions[r.start] = r
                     /\ SegmentsFit => z.space[s].dir # 0
  BY <1>2, AddRegionGrows
<1> HIDE DEF z
<1>4. z.ret = -1 => Grows(s, y, z)
  BY <1>1, <1>3, SameSound
<1>5. z.ret \in {0, -1}
  BY <1>3 DEF Shape
<1>6. Grows(s, x, z)
  BY <1>1, <1>3, <1>4, <1>5, GrowsTrans
<1>7. QED
  BY <1>3, <1>6 DEF z

LEMMA MandatoryGrows ==
  ASSUME NEW s \in AllSpaces, NEW x, NEW y, Grows(s, x, y)
  PROVE  Grows(s, x, Mandatory(y)) /\ (Mandatory(y).failure = "none" => Mandatory(y) = y /\ y.ret = 0)
<1>1. Sound(y)
  BY DEF Grows
<1>2. Same(y, Mandatory(y)) /\ (Mandatory(y).failure = "none" => Mandatory(y) = y /\ y.ret = 0)
  BY <1>1, MandatorySame DEF Sound
<1>3. Grows(s, y, Mandatory(y))
  BY <1>1, <1>2, SameSound
<1>4. QED
  BY <1>2, <1>3, GrowsTrans

LEMMA InSpaceIs ==
  ASSUME NEW r, InSpace(r)
  PROVE  r.start \in Starts /\ r.pages \in Nat /\ r.pages \in Int /\ r.pages >= 1 /\ r.pages < Pages
BY PageNumbers DEF InSpace

LEMMA StartIs ==
  ASSUME NEW a \in Starts
  PROVE  a \in Nat /\ a \in Int /\ a \in Word /\ a \div PageSize \in Int
<1>1. a \in Nat /\ a \in Word
  BY DEF Starts, Word
<1>2. QED
  BY <1>1, PageNumbers

\* Where a range ends, and that its pages are before that
LEMMA InSpaceEnds ==
  ASSUME NEW w, InSpace(w), NEW m, m = w.pages * PageSize
  PROVE  /\ At(w.start + m - 1) = w.start + m - 1 /\ w.start <= w.start + m - 1 /\ m \in Nat /\ m < Width
         /\ \A o \in 0 .. w.pages - 1 : w.start + o * PageSize <= w.start + m - 1
<1>1. w.start \in Starts /\ w.pages \in Nat /\ w.pages >= 1 /\ w.pages < Pages
  BY InSpaceIs
<1>2. PageSize \in Nat /\ PageSize > 1 /\ Width \in Nat /\ w.start \in Nat /\ Pages \in Nat /\ Width = Pages * PageSize
  BY <1>1, PageNumbers DEF Starts
<1>3. m \in Nat /\ m >= PageSize /\ w.start + m <= Width
  <2>1. 1 * PageSize <= m
    BY <1>1, <1>2, Scale
  <2>2. QED
    BY <1>1, <1>2, <2>1 DEF InSpace
<1>4. m < Width
  <2>1. ~(Pages <= w.pages)
    BY <1>1, <1>2
  <2>2. ~(Pages * PageSize <= w.pages * PageSize)
    BY <1>1, <1>2, <2>1, Scale
  <2>3. QED
    BY <1>2, <1>3, <2>2
<1>5. w.start + m - 1 \in Word
  BY <1>2, <1>3 DEF Word
<1>6. At(w.start + m - 1) = w.start + m - 1
  BY <1>5, AtNear
<1>7. ASSUME NEW o \in 0 .. w.pages - 1 PROVE w.start + o * PageSize <= w.start + m - 1
  <2> DEFINE q == o * PageSize
  <2>1. (o + 1) * PageSize <= m /\ (o + 1) * PageSize = q + PageSize /\ q \in Nat
    BY <1>1, <1>2, Scale
  <2> HIDE DEF q
  <2>2. QED
    BY <1>2, <1>3, <2>1 DEF q
<1>8. QED
  BY <1>2, <1>3, <1>4, <1>6, <1>7

LEMMA RangesAre ==
  /\ Len(KernelRanges) \in Nat /\ \A i \in 1 .. Len(KernelRanges) : InSpace(KernelRanges[i])
  /\ Len(IoRanges) \in Nat /\ \A i \in 1 .. Len(IoRanges) : InSpace(IoRanges[i])
  /\ Len(PhysRanges) \in Nat /\ \A i \in 1 .. Len(PhysRanges) : InSpace(PhysRanges[i])
<1>1. /\ Len(KernelRanges) \in Nat /\ DOMAIN KernelRanges = 1 .. Len(KernelRanges)
      /\ Len(IoRanges) \in Nat /\ DOMAIN IoRanges = 1 .. Len(IoRanges)
      /\ Len(PhysRanges) \in Nat /\ DOMAIN PhysRanges = 1 .. Len(PhysRanges)
  BY RangesAssumption, LenProperties
<1>2. QED
  BY <1>1, RangesAssumption

LEMMA MapRequiredGrows ==
  ASSUME NEW s \in AllSpaces, NEW x, Sound(x), NEW r, InSpace(r), NEW phys \in Int
  PROVE  Grows(s, x, MapRequired(x, s, r, phys))
<1> DEFINE y == Remap(x, r.start, r.pages, phys)
           z == AddRegion(y, s, y.new)
           v == Mandatory(z)
<1>1. MapRequired(x, s, r, phys) = IF Going(y) THEN v ELSE y
  BY DEF MapRequired, Then, AddNew
<1>2. /\ Same(x, y)
      /\ Going(y) => /\ RegionShape(y.new) /\ y.new.type = "RANGEMAP" /\ y.new.ops = "kernel" /\ y.new.phys = phys
                     /\ y.new.start = r.start /\ y.new.end = At(r.start + r.pages * PageSize - 1)
  BY InSpaceIs, RemapMakes DEF Sound
<1> HIDE DEF y
<1>3. Grows(s, x, y)
  BY <1>2, SameSound
<1>4. ASSUME Going(y) PROVE Grows(s, x, v)
  <2> DEFINE q == y.new
  <2>1. RegionShape(q) /\ q.ops # "anon" /\ Sized(q)
    <3>1. q.start <= q.end /\ q.end - q.start + 1 < Width
      <4> DEFINE m == r.pages * PageSize
      <4>1. q.start = r.start /\ q.end = At(r.start + m - 1)
        BY <1>2, <1>4
      <4>2. r.start \in Int
        BY InSpaceIs, StartIs
      <4>3. At(r.start + m - 1) = r.start + m - 1 /\ r.start <= r.start + m - 1 /\ m \in Nat /\ m < Width
        BY InSpaceEnds
      <4> HIDE DEF m, q
      <4>4. QED
        BY <4>1, <4>2, <4>3
    <3>2. QED
      BY <1>2, <1>4, <3>1 DEF Sized, Within
  <2> HIDE DEF q
  <2>2. Grows(s, x, AddRegion(y, s, q))
    BY <1>2, <1>4, <2>1, AddMade
  <2>3. Grows(s, x, z)
    BY <2>2 DEF q
  <2> HIDE DEF z
  <2>4. QED
    BY <2>3, MandatoryGrows
<1>5. QED
  BY <1>1, <1>3, <1>4

LEMMA MapKernelGrows ==
  ASSUME NEW s \in AllSpaces, NEW x, Sound(x)
  PROVE  Grows(s, x, MapKernel(x, s))
<1> DEFINE v == MapKernel(x, s)
<1>1. Len(KernelRanges) \in Nat /\ \A i \in 1 .. Len(KernelRanges) : InSpace(KernelRanges[i]) /\ KernelRanges[i].phys \in Int
  <2>1. Len(KernelRanges) \in Nat /\ \A i \in 1 .. Len(KernelRanges) : InSpace(KernelRanges[i])
    BY RangesAre
  <2>2. KernelRanges \in Seq([start : Starts, pages : 1 .. Pages, phys : Nat])
    BY RangesAssumption
  <2>3. \A i \in 1 .. Len(KernelRanges) : KernelRanges[i] \in [start : Starts, pages : 1 .. Pages, phys : Nat]
    BY <2>2, ElementOfSeq
  <2>4. QED
    BY <2>1, <2>3
<1>2. v = MapKernel(x, s)
  OBVIOUS
<1> HIDE DEF v
<1>3. PICK f, seq, tag, y :
        /\ Run(f, tag, y, seq) /\ v = f[Len(KernelRanges)]
        /\ seq = KernelRanges
        /\ tag = <<"image", s>> /\ y = x
  BY <1>1, <1>2, MapKernelRun
<1>4. ASSUME NEW z, Sound(z), NEW i \in 1 .. Len(seq) PROVE Grows(s, z, StepOf(tag, z, seq[i]))
  <2>1. StepOf(tag, z, seq[i]) = MapRequired(z, s, seq[i], seq[i].phys)
    BY <1>3 DEF StepOf
  <2>2. InSpace(seq[i]) /\ seq[i].phys \in Int
    BY <1>1, <1>3
  <2>3. QED
    BY <1>4, <2>1, <2>2, MapRequiredGrows
<1>5. Grows(s, x, f[Len(seq)])
  BY <1>1, <1>3, <1>4, LoopGrows
<1>6. QED
  BY <1>2, <1>3, <1>5

LEMMA MapImageGrows ==
  ASSUME NEW s \in AllSpaces, NEW x, Sound(x)
  PROVE  Grows(s, x, MapImage(x, s))
<1> DEFINE y == MapKernel(x, s)
           z == MapRequired(y, s, BootStack, BootStack.start \div PageSize)
<1>1. MapImage(x, s) = y \/ MapImage(x, s) = z
  BY DEF MapImage, Then
<1>2. Grows(s, x, y)
  BY MapKernelGrows
<1> HIDE DEF y
<1>3. InSpace(BootStack) /\ BootStack.start \div PageSize \in Int
  BY RangesAssumption, InSpaceIs, StartIs
<1>4. Grows(s, y, z)
  BY <1>2, <1>3, MapRequiredGrows DEF Grows
<1>5. QED
  BY <1>1, <1>2, <1>4, GrowsTrans

LEMMA MapInPlaceMakes ==
  ASSUME NEW x, Shape(x), NEW r, InSpace(r)
  PROVE  LET y == MapInPlace(x, r) IN
         /\ Same(x, y)
         /\ Going(y) => /\ RegionShape(y.new) /\ y.new.ops # "anon" /\ Sized(y.new)
                        /\ y.new.start = r.start /\ y.new.end = r.start + r.pages * PageSize - 1
<1> DEFINE m == r.pages * PageSize
           y == MapInPlace(x, r)
<1>1. r.start \in Starts /\ r.pages \in Int /\ r.pages >= 1 /\ r.start + m <= Width
  BY PageNumbers DEF InSpace
<1>2. /\ Same(x, y)
      /\ Going(y) => /\ RegionShape(y.new) /\ y.new.start = r.start /\ y.new.end = At(r.start + m - 1)
                     /\ y.new.type = "RANGEMAP" /\ y.new.ops = "kernel" /\ y.new.phys = r.start \div PageSize
  BY <1>1, RemapMakes DEF MapInPlace
<1>3. At(r.start + m - 1) = r.start + m - 1 /\ r.start <= r.start + m - 1 /\ m \in Nat /\ m < Width
  BY InSpaceEnds
<1>4. r.start \in Nat /\ r.start \div PageSize \in Int
  BY <1>1, PageNumbers DEF Starts
<1> HIDE DEF m, y
<1>5. (r.start + m - 1) - r.start + 1 = m
  BY <1>3, <1>4
<1>6. Going(y) => Sized(y.new)
  BY <1>2, <1>3, <1>4, <1>5 DEF Sized, Within
<1>7. QED
  BY <1>2, <1>3, <1>6 DEF m, y

LEMMA MapIoRangeGrows ==
  ASSUME NEW s \in AllSpaces, NEW x, Sound(x), NEW r, InSpace(r)
  PROVE  Grows(s, x, MapIoRange(x, s, r))
<1> DEFINE y == MapInPlace(x, r)
           q == y.new
           z == AddRegion(y, s, q)
           v == [z EXCEPT !.ret = 0]
<1>1. MapIoRange(x, s, r) = IF Going(y) THEN v ELSE y
  BY DEF MapIoRange, Then, AddNew
<1>2. Same(x, y) /\ (Going(y) => RegionShape(q) /\ q.ops # "anon" /\ Sized(q))
  BY MapInPlaceMakes DEF Sound
<1> HIDE DEF y, q
<1>3. Grows(s, x, y)
  BY <1>2, SameSound
<1>4. ASSUME Going(y) PROVE Grows(s, x, v)
  <2>1. Grows(s, x, z)
    BY <1>2, <1>4, AddMade
  <2> HIDE DEF z
  <2>2. Same(z, v)
    BY <2>1 DEF Grows, Sound, Same, Shape, Fields
  <2> HIDE DEF v
  <2>3. Grows(s, z, v)
    BY <2>1, <2>2, SameSound DEF Grows
  <2>4. QED
    BY <2>1, <2>3, GrowsTrans
<1>5. QED
  BY <1>1, <1>3, <1>4

LEMMA MapIoRangesGrows ==
  ASSUME NEW s \in AllSpaces, NEW x, Sound(x)
  PROVE  Grows(s, x, MapIoRanges(x, s))
<1> DEFINE v == MapIoRanges(x, s)
<1>1. Len(IoRanges) \in Nat /\ \A i \in 1 .. Len(IoRanges) : InSpace(IoRanges[i])
  BY RangesAre
<1>2. v = MapIoRanges(x, s)
  OBVIOUS
<1> HIDE DEF v
<1>3. PICK f, seq, tag, y :
        /\ Run(f, tag, y, seq) /\ v = f[Len(IoRanges)]
        /\ seq = IoRanges
        /\ tag = <<"io", s>> /\ y = x
  BY <1>1, <1>2, MapIoRangesRun
<1>4. ASSUME NEW z, Sound(z), NEW i \in 1 .. Len(seq) PROVE Grows(s, z, StepOf(tag, z, seq[i]))
  <2>1. StepOf(tag, z, seq[i]) = MapIoRange(z, s, seq[i])
    BY <1>3 DEF StepOf
  <2>2. InSpace(seq[i])
    BY <1>1, <1>3
  <2>3. QED
    BY <1>4, <2>1, <2>2, MapIoRangeGrows
<1>5. Grows(s, x, f[Len(seq)])
  BY <1>1, <1>3, <1>4, LoopGrows
<1>6. QED
  BY <1>2, <1>3, <1>5

LEMMA MapIoGrows ==
  ASSUME NEW s \in AllSpaces, NEW x, Sound(x)
  PROVE  Grows(s, x, MapIo(x, s))
<1> DEFINE u == MapIoRanges(x, s)
           w == MapInPlace(u, Video)
           m == Mandatory(w)
           y == IF Going(u) THEN m ELSE u
           z == AddRegion(y, s, y.new)
           v == IF Going(y) THEN z ELSE y
<1>1. MapIo(x, s) = Mandatory(v)
  BY DEF MapIo, Then, AddNew
<1>2. Grows(s, x, u)
  BY MapIoRangesGrows
<1> HIDE DEF u
<1>3. Sound(u) /\ Same(u, w) /\ (Going(w) => RegionShape(w.new) /\ w.new.ops # "anon" /\ Sized(w.new))
  BY <1>2, RangesAssumption, MapInPlaceMakes DEF Grows, Sound
<1> HIDE DEF w
<1>4. Same(w, m) /\ (m.failure = "none" => m = w /\ w.ret = 0)
  BY <1>3, MandatorySame DEF Same
<1> HIDE DEF m
<1>5. Same(u, m) /\ (Going(m) => RegionShape(m.new) /\ m.new.ops # "anon" /\ Sized(m.new))
  BY <1>3, <1>4, SameTrans DEF Going
<1>6. CASE Going(u)
  <2>1. y = m
    BY <1>6
  <2> HIDE DEF y
  <2> DEFINE q == y.new
  <2>2. Same(u, y) /\ (Going(y) => RegionShape(q) /\ q.ops # "anon" /\ Sized(q))
    BY <1>5, <2>1
  <2> HIDE DEF q
  <2>3. Going(y) => Grows(s, u, AddRegion(y, s, q))
    BY <1>3, <2>2, AddMade
  <2>4. Grows(s, u, y)
    BY <1>3, <2>2, SameSound
  <2>5. Grows(s, u, v)
    BY <2>3, <2>4 DEF q
  <2> HIDE DEF v
  <2>6. Grows(s, x, v)
    BY <1>2, <2>5, GrowsTrans
  <2>7. QED
    BY <1>1, <2>6, MandatoryGrows
<1>7. CASE ~Going(u)
  <2>1. v = u
    BY <1>7
  <2> HIDE DEF v
  <2>2. QED
    BY <1>1, <1>2, <2>1, MandatoryGrows
<1>8. QED
  BY <1>6, <1>7

\* The region all spaces share
LEMMA PersistentIs ==
  ASSUME NEW q, q = [Region(KernelVremap.start, KernelVremap.pages, "PAGEMAP", "vremap_kernel")
                       EXCEPT !.pages = KernelVremap.map]
  PROVE  RegionShape(q) /\ q.ops # "anon" /\ Sized(q) /\ q.start = KernelVremap.start
<1> DEFINE r == Region(KernelVremap.start, KernelVremap.pages, "PAGEMAP", "vremap_kernel")
<1>1. KernelVremap.start \in Starts /\ KernelVremap.pages \in Int
  BY RangesAssumption, InSpaceIs
<1>2. RegionShape(r) /\ r.start = KernelVremap.start /\ r.ops = "vremap_kernel" /\ r.role = "USERMAP"
      /\ r.type = "PAGEMAP" /\ r.end = At(KernelVremap.start + KernelVremap.pages * PageSize - 1)
  BY <1>1, RegionIs
<1>3. q = [r EXCEPT !.pages = KernelVremap.map]
  OBVIOUS
<1> HIDE DEF r
<1>4. /\ DOMAIN q = DOMAIN r /\ q.start = r.start /\ q.end = r.end /\ q.ops = r.ops /\ q.role = r.role
  BY <1>2, <1>3 DEF RegionShape, RegionFields
<1>5. RegionShape(q)
  BY <1>2, <1>4 DEF RegionShape
<1>6. Within(q)
  <2>1. q.pages = KernelVremap.map /\ q.type = "PAGEMAP"
    BY <1>2, <1>3 DEF RegionShape, RegionFields
  <2>2. KernelVremap.start + KernelVremap.pages * PageSize - 1 = q.end
    BY <1>2, <1>4, RangesAssumption, InSpaceEnds
  <2>3. \A o \in DOMAIN q.pages : o \in 0 .. KernelVremap.pages - 1 /\ o \in Nat
    BY <1>1, <2>1, RangesAssumption
  <2> DEFINE b == KernelVremap.start
             m == KernelVremap.pages * PageSize
  <2>4. \A o \in 0 .. KernelVremap.pages - 1 : b + o * PageSize <= b + m - 1
    BY RangesAssumption, InSpaceEnds
  <2>5. q.start = b /\ q.end = b + m - 1
    BY <1>2, <1>4, <2>2
  <2> HIDE DEF b, m
  <2>6. \A o \in DOMAIN q.pages : o \in Nat /\ q.start + o * PageSize <= q.end
    BY <2>3, <2>4, <2>5
  <2>7. QED
    BY <2>1, <2>6 DEF Within
<1>7. QED
  BY <1>2, <1>4, <1>5, <1>6 DEF Sized, Persistent

LEMMA InitVremapGrows ==
  ASSUME NEW s \in AllSpaces, NEW x, Sound(x)
  PROVE  LET v == InitVremap(x, s) IN
         Grows(s, x, v) /\ (Going(v) /\ SegmentsFit => v.space[s].dir # 0)
<1> DEFINE y == VremapNew(x, KernelVremap, "vremap_kernel")
           r == Region(KernelVremap.start, KernelVremap.pages, "PAGEMAP", "vremap_kernel")
           q == [y.new EXCEPT !.pages = KernelVremap.map]
           z == AddRegion(y, s, q)
<1>1. InitVremap(x, s) = IF Going(y) THEN z ELSE y
  BY DEF InitVremap, Then
<1>2. Same(x, y) /\ (Going(y) => y.new = r)
  <2>1. KernelVremap.start \in Starts /\ KernelVremap.pages \in Int
    BY RangesAssumption, InSpaceIs
  <2>2. QED
    BY <2>1, VremapNewMakes DEF Sound
<1> HIDE DEF y
<1>3. Going(y) => RegionShape(q) /\ q.ops # "anon" /\ Sized(q)
  BY <1>2, PersistentIs
<1> HIDE DEF q
<1>4. Going(y) => Grows(s, x, z) /\ (Going(z) /\ SegmentsFit => z.space[s].dir # 0)
  BY <1>2, <1>3, AddMade
<1>5. Grows(s, x, y)
  BY <1>2, SameSound
<1>6. QED
  BY <1>1, <1>4, <1>5

-----------------------------------------------------------------------------
(* The kernel's own space.                                                  *)

\* It has the first i ranges of memory and nothing else.
LastOf(r) == r.start + r.pages * PageSize - 1
Mapped(z, i) ==
  LET R == z.space[Kernel].regions IN
  \A b \in DOMAIN R : \E j \in 1 .. i : b = PhysRanges[j].start /\ R[b].end = LastOf(PhysRanges[j])

LEMMA RangeEnds ==
  ASSUME NEW r, InSpace(r)
  PROVE  r.start \in Nat /\ LastOf(r) \in Nat /\ r.start <= LastOf(r) /\ r.start + r.pages * PageSize = LastOf(r) + 1
<1> DEFINE m == r.pages * PageSize
<1>1. r.start \in Starts /\ r.pages \in Nat /\ r.pages >= 1
  BY InSpaceIs
<1>2. PageSize \in Nat /\ PageSize > 1 /\ Width \in Nat /\ r.start \in Nat
  BY <1>1, PageNumbers DEF Starts
<1>3. m \in Nat /\ m >= PageSize
  <2>1. r.pages * PageSize >= 1 * PageSize
    BY <1>1, <1>2
  <2>2. QED
    BY <1>1, <1>2, <2>1
<1> HIDE DEF m
<1>4. LastOf(r) = r.start + m - 1
  BY DEF LastOf, m
<1>5. QED
  BY <1>2, <1>3, <1>4 DEF m

LEMMA MemoryApart ==
  ASSUME NEW i \in 1 .. Len(PhysRanges), NEW j \in 1 .. Len(PhysRanges), i # j
  PROVE  \/ LastOf(PhysRanges[i]) < PhysRanges[j].start
         \/ LastOf(PhysRanges[j]) < PhysRanges[i].start
<1> DEFINE q == PhysRanges[i]
           r == PhysRanges[j]
<1>1. InSpace(q) /\ InSpace(r)
  BY RangesAre
<1>2. DOMAIN PhysRanges = 1 .. Len(PhysRanges)
  BY RangesAssumption, LenProperties
<1>3. q.start + q.pages * PageSize <= r.start \/ r.start + r.pages * PageSize <= q.start
  BY <1>2, MemoryAssumption
<1> HIDE DEF q, r
<1>4. /\ q.start \in Nat /\ LastOf(q) \in Nat /\ q.start + q.pages * PageSize = LastOf(q) + 1
      /\ r.start \in Nat /\ LastOf(r) \in Nat /\ r.start + r.pages * PageSize = LastOf(r) + 1
  BY <1>1, RangeEnds
<1>5. LastOf(q) + 1 <= r.start \/ LastOf(r) + 1 <= q.start
  BY <1>3, <1>4
<1>6. LastOf(q) < r.start \/ LastOf(r) < q.start
  BY <1>4, <1>5
<1>7. QED
  BY <1>6 DEF q, r

LEMMA MapMemoryGrows ==
  ASSUME NEW x, Sound(x), Going(x), NEW i \in 1 .. Len(PhysRanges), Mapped(x, i - 1)
  PROVE  LET v == MapMemory(x, PhysRanges[i]) IN
         Grows(Kernel, x, v) /\ (v.failure = "none" => Mapped(v, i))
<1> DEFINE r == PhysRanges[i]
           y == MapInPlace(x, r)
           q == y.new
           v == OverlapRegion(y, Kernel, q)
           R == x.space[Kernel].regions
<1>0. Kernel \in AllSpaces
  BY DEF AllSpaces
<1>1. MapMemory(x, r) = IF Going(y) THEN v ELSE y
  BY DEF MapMemory, Then
<1>2. InSpace(r) /\ Len(PhysRanges) \in Nat
  BY RangesAre
<1>3. \A b \in DOMAIN R : \E j \in 1 .. Len(PhysRanges) :
        j < i /\ b = PhysRanges[j].start /\ R[b].end = LastOf(PhysRanges[j])
  BY <1>2 DEF Mapped
<1>4. r.start \in Nat /\ LastOf(r) \in Nat /\ r.start <= LastOf(r)
  BY <1>2, RangeEnds
<1>5. ASSUME NEW b \in DOMAIN R
      PROVE  b \in Nat /\ R[b].end \in Nat /\ b <= R[b].end /\ (R[b].end < r.start \/ LastOf(r) < b)
  <2>1. PICK j \in 1 .. Len(PhysRanges) : j < i /\ b = PhysRanges[j].start /\ R[b].end = LastOf(PhysRanges[j])
    BY <1>3
  <2>2. InSpace(PhysRanges[j])
    BY RangesAre
  <2>3. b \in Nat /\ R[b].end \in Nat /\ b <= R[b].end
    BY <2>1, <2>2, RangeEnds
  <2>4. i # j
    BY <2>1
  <2>5. LastOf(r) < b \/ R[b].end < r.start
    BY <2>1, <2>4, MemoryApart
  <2>6. QED
    BY <2>3, <2>5
<1>6. Mapped(x, i)
  BY <1>2 DEF Mapped
<1>7. /\ Same(x, y)
      /\ Going(y) => /\ RegionShape(q) /\ q.ops # "anon" /\ Sized(q)
                     /\ q.start = r.start /\ q.end = LastOf(r)
  BY <1>2, MapInPlaceMakes DEF Sound, LastOf
<1>8. Sound(y) /\ Grows(Kernel, x, y)
  BY <1>0, <1>7, SameSound
<1> HIDE DEF y, q, r
<1>9. CASE Going(y)
  <2>1. y.space[Kernel].regions = R
    BY <1>7 DEF Same
  <2>2. Waiting(y, q)
    BY <1>7, <1>8, <1>9, SoundWaiting
  <2>3. /\ \A b \in DOMAIN y.space[Kernel].regions : b < q.start => y.space[Kernel].regions[b].end < q.start
        /\ \A b \in DOMAIN y.space[Kernel].regions : b > q.start => q.end < b
        /\ q.start \in DOMAIN y.space[Kernel].regions => y.space[Kernel].regions[q.start].end < q.start
    <3>1. q.start = r.start /\ q.end = LastOf(r)
      BY <1>7, <1>9
    <3> HIDE DEF R
    <3>2. ASSUME NEW b \in DOMAIN R
          PROVE  (b < q.start => R[b].end < q.start) /\ (b > q.start => q.end < b) /\ (b = q.start => R[b].end < q.start)
      <4>1. b \in Nat /\ R[b].end \in Nat /\ b <= R[b].end /\ (R[b].end < r.start \/ LastOf(r) < b)
        BY <1>5
      <4>2. QED
        BY <1>4, <3>1, <4>1
    <3>3. QED
      BY <2>1, <3>2
  <2>4. /\ Shape(v)
        /\ v.ret = -1 => Same(y, v)
        /\ v.ret = 0 => Grows(Kernel, y, v)
        /\ Going(v) => /\ q.start \in DOMAIN v.space[Kernel].regions /\ v.space[Kernel].regions[q.start] = q
                       /\ DOMAIN v.space[Kernel].regions = DOMAIN y.space[Kernel].regions \cup {q.start}
    BY <1>0, <1>7, <1>9, <2>2, <2>3, OverlapRegionGrows
  <2> HIDE DEF v
  <2>5. v.ret \in {0, -1}
    BY <2>4 DEF Shape
  <2>6. Grows(Kernel, x, v)
    <3>1. Grows(Kernel, y, v)
      BY <1>0, <1>8, <2>4, <2>5, SameSound
    <3>2. QED
      BY <1>8, <3>1, GrowsTrans
  <2>7. ASSUME v.failure = "none" PROVE Mapped(v, i)
    <3>1. CASE v.ret = -1
      <4>1. v.space = x.space
        BY <1>7, <2>4, <3>1 DEF Same
      <4>2. QED
        BY <1>6, <4>1 DEF Mapped
    <3>2. CASE v.ret = 0
      <4> DEFINE Q == v.space[Kernel].regions
      <4>1. Going(v)
        BY <2>7, <3>2 DEF Going
      <4>2. DOMAIN Q = DOMAIN R \cup {q.start} /\ Q[q.start].end = LastOf(r)
        BY <1>7, <1>9, <2>1, <2>4, <4>1
      <4>3. \A b \in DOMAIN R : R[b].start = b
        BY <2>7, <1>8, <2>1, <1>0, <1>9 DEF Sound, Disjoint, Going
      <4>4. \A b \in DOMAIN R : Q[b] = R[b]
        BY <1>5, <2>1, <2>4, <2>7, <3>2, <4>3 DEF Grows
      <4>5. \A b \in DOMAIN Q : \E j \in 1 .. i : b = PhysRanges[j].start /\ Q[b].end = LastOf(PhysRanges[j])
        <5> SUFFICES ASSUME NEW b \in DOMAIN Q
                     PROVE  \E j \in 1 .. i : b = PhysRanges[j].start /\ Q[b].end = LastOf(PhysRanges[j])
          OBVIOUS
        <5>1. CASE b \in DOMAIN R
          BY <1>2, <1>3, <4>4, <5>1
        <5>2. CASE b = q.start
          <6>1. b = PhysRanges[i].start /\ Q[b].end = LastOf(PhysRanges[i]) /\ i \in 1 .. i
            BY <1>2, <1>7, <1>9, <4>2, <5>2 DEF r
          <6>2. QED
            BY <6>1
        <5>3. QED
          BY <4>2, <5>1, <5>2
      <4>6. QED
        BY <4>5 DEF Mapped
    <3>3. QED
      BY <2>5, <3>1, <3>2
  <2>8. QED
    BY <1>1, <1>9, <2>6, <2>7 DEF r
<1>10. CASE ~Going(y)
  <2>1. y.space = x.space
    BY <1>7 DEF Same
  <2>2. Mapped(y, i)
    BY <1>6, <2>1 DEF Mapped
  <2>3. QED
    BY <1>1, <1>8, <1>10, <2>2 DEF r
<1>11. QED
  BY <1>9, <1>10

LEMMA MapRegionsGrows ==
  ASSUME NEW x, Sound(x), DOMAIN x.space[Kernel].regions = {}
  PROVE  Grows(Kernel, x, MapRegions(x))
<1> DEFINE v == MapRegions(x)
           n == Len(PhysRanges)
<1>1. n \in Nat
  BY RangesAre
<1>2. v = MapRegions(x)
  OBVIOUS
<1> HIDE DEF v
<1>3. PICK f, seq, tag, y :
        /\ Run(f, tag, y, seq) /\ v = f[n]
        /\ seq = PhysRanges
        /\ tag = <<"memory">> /\ y = x
  BY <1>1, <1>2, MapRegionsRun
<1> DEFINE S == {i \in 0 .. n : Grows(Kernel, x, f[i]) /\ (f[i].failure = "none" => Mapped(f[i], i))}
<1>4. 0 \in S
  BY <1>1, <1>3, GrowsRefl DEF Run, Mapped
<1>5. ASSUME NEW i \in 1 .. n, i - 1 \in S PROVE i \in S
  <2> DEFINE z == f[i - 1]
  <2>1. f[i] = IF Going(z) THEN MapMemory(z, PhysRanges[i]) ELSE z
    BY <1>3 DEF Run, TurnOf, StepOf
  <2>2. Grows(Kernel, x, z) /\ (z.failure = "none" => Mapped(z, i - 1))
    BY <1>5
  <2> HIDE DEF z
  <2>3. Sound(z)
    BY <2>2 DEF Grows
  <2>4. CASE Going(z)
    <3> DEFINE w == MapMemory(z, PhysRanges[i])
    <3>1. Mapped(z, i - 1)
      BY <2>2, <2>4 DEF Going
    <3>2. Grows(Kernel, z, w) /\ (w.failure = "none" => Mapped(w, i))
      BY <2>3, <2>4, <3>1, MapMemoryGrows
    <3> HIDE DEF w
    <3>3. Grows(Kernel, x, w)
      BY <2>2, <3>2, GrowsTrans
    <3>4. f[i] = w
      BY <2>1, <2>4 DEF w
    <3>5. QED
      BY <3>2, <3>3, <3>4
  <2>5. CASE ~Going(z)
    <3>1. z.failure = "none" => Mapped(z, i)
      BY <2>2 DEF Mapped
    <3>2. f[i] = z
      BY <2>1, <2>5
    <3>3. QED
      BY <2>2, <3>1, <3>2
  <2>6. QED
    BY <2>4, <2>5
<1> HIDE DEF S
<1>6. \A i \in 0 .. n : i \in S
  BY <1>1, <1>4, <1>5, UpTo
<1>7. n \in S
  BY <1>1, <1>6
<1>8. QED
  BY <1>2, <1>3, <1>7 DEF S

LEMMA KernelSpaceGrows ==
  ASSUME NEW x, Sound(x), DOMAIN x.space[Kernel].regions = {}
  PROVE  LET v == KernelSpace(x) IN
         Grows(Kernel, x, v) /\ (Going(v) /\ SegmentsFit => v.space[Kernel].dir # 0)
<1> DEFINE h1 == HeapAlloc(x)
           h2 == IF Going(h1) THEN HeapAlloc(h1) ELSE h1
           m == IF Going(h2) THEN MapRegions(h2) ELSE h2
           i == IF Going(m) THEN MapImage(m, Kernel) ELSE m
           o == IF Going(i) THEN MapIo(i, Kernel) ELSE i
           v == IF Going(o) THEN InitVremap(o, Kernel) ELSE o
<1>0. Kernel \in AllSpaces
  BY DEF AllSpaces
<1>1. KernelSpace(x) = v
  BY DEF KernelSpace, Then
<1>2. Same(x, h1)
  BY HeapAllocSame DEF Sound
<1>3. Same(x, h2)
  BY <1>2, HeapAllocSame, SameTrans DEF Same
<1> HIDE DEF h2
<1>4. Sound(h2) /\ Grows(Kernel, x, h2) /\ DOMAIN h2.space[Kernel].regions = {}
  BY <1>0, <1>3, SameSound DEF Same
<1>5. Grows(Kernel, h2, m)
  BY <1>4, MapRegionsGrows, GrowsRefl
<1> HIDE DEF m
<1>6. Grows(Kernel, m, i)
  BY <1>0, <1>5, MapImageGrows, GrowsRefl DEF Grows
<1> HIDE DEF i
<1>7. Grows(Kernel, i, o)
  BY <1>0, <1>6, MapIoGrows, GrowsRefl DEF Grows
<1> HIDE DEF o
<1>8. Sound(o)
  BY <1>7 DEF Grows
<1>9. Grows(Kernel, o, v) /\ (Going(v) /\ SegmentsFit => v.space[Kernel].dir # 0)
  BY <1>0, <1>8, InitVremapGrows, GrowsRefl
<1> HIDE DEF v
<1>10. Grows(Kernel, x, v)
  BY <1>4, <1>5, <1>6, <1>7, <1>9, GrowsTrans
<1>11. QED
  BY <1>1, <1>9, <1>10

-----------------------------------------------------------------------------
(* Destroying a space.                                                      *)

LEMMA NoSpaceIs ==
  /\ SpaceShape(NoSpace) /\ Own(NoSpace) = {} /\ DOMAIN NoSpace.regions = {} /\ NoSpace.phase = "none"
  /\ NoSpace.dir = 0 /\ Tabled(NoSpace)
<1>1. DOMAIN << >> = {}
  OBVIOUS
<1>2. TablesIn(NoSpace) = {}
  BY DEF NoSpace, TablesIn
<1>3. SpaceShape(NoSpace)
  BY DEF NoSpace, SpaceShape, SpaceFields, TableIndices
<1>4. NoSpace.dir = 0 /\ NoSpace.regions = << >> /\ NoSpace.phase = "none"
  BY DEF NoSpace
<1>5. Anonymous(NoSpace.regions) = {}
  BY <1>1, <1>4 DEF Anonymous
<1>6. Own(NoSpace) = {}
  BY <1>2, <1>4, <1>5 DEF Own, DirOwn, TableOwn, PageOwn
<1>7. Tabled(NoSpace)
  <2>1. NoSpace.entry = [p \in PageNumber |-> NoEntry] /\ DOMAIN NoSpace.regions = {}
    BY <1>1 DEF NoSpace, PageNumber
  <2>2. QED
    BY <2>1 DEF Tabled, Agrees
<1>8. QED
  BY <1>1, <1>3, <1>4, <1>6, <1>7

\* The pages of the first i places of R
PagesUpTo(R, i) ==
  UNION {PagesOf(R[b]) : b \in {c \in Anonymous(R) : \E p \in 1 .. i : c = (p - 1) * PageSize}}

LEMMA PagesUpToNext ==
  ASSUME NEW R, NEW i \in Nat, i > 0, NEW b, b = (i - 1) * PageSize
  PROVE  PagesUpTo(R, i) = PagesUpTo(R, i - 1) \cup (IF b \in Anonymous(R) THEN PagesOf(R[b]) ELSE {})
<1>1. \A c : (\E p \in 1 .. i : c = (p - 1) * PageSize) <=> c = b \/ \E p \in 1 .. i - 1 : c = (p - 1) * PageSize
  <2>1. \A p : p \in 1 .. i <=> p = i \/ p \in 1 .. i - 1
    OBVIOUS
  <2>2. QED
    BY <2>1
<1> DEFINE C == {c \in Anonymous(R) : \E p \in 1 .. i : c = (p - 1) * PageSize}
           D == {c \in Anonymous(R) : \E p \in 1 .. i - 1 : c = (p - 1) * PageSize}
<1>2. \A c : c \in C <=> c \in D \/ (c = b /\ b \in Anonymous(R))
  BY <1>1
<1>3. PagesUpTo(R, i) = UNION {PagesOf(R[c]) : c \in C} /\ PagesUpTo(R, i - 1) = UNION {PagesOf(R[c]) : c \in D}
  BY DEF PagesUpTo
<1> HIDE DEF C, D
<1>4. UNION {PagesOf(R[c]) : c \in C} = (UNION {PagesOf(R[c]) : c \in D}) \cup (IF b \in Anonymous(R) THEN PagesOf(R[b]) ELSE {})
  <2>1. ASSUME NEW f PROVE f \in UNION {PagesOf(R[c]) : c \in C} <=> \E c \in C : f \in PagesOf(R[c])
    OBVIOUS
  <2>2. ASSUME NEW f PROVE f \in UNION {PagesOf(R[c]) : c \in D} <=> \E c \in D : f \in PagesOf(R[c])
    OBVIOUS
  <2> DEFINE U == UNION {PagesOf(R[c]) : c \in C}
             V == UNION {PagesOf(R[c]) : c \in D}
  <2>3. (\A f : f \in U <=> \E c \in C : f \in PagesOf(R[c])) /\ \A f : f \in V <=> \E c \in D : f \in PagesOf(R[c])
    BY <2>1, <2>2
  <2> HIDE DEF U, V
  <2>4. \A f : f \in U <=> f \in V \/ (b \in Anonymous(R) /\ f \in PagesOf(R[b]))
    BY <1>2, <2>3
  <2>5. U = V \cup (IF b \in Anonymous(R) THEN PagesOf(R[b]) ELSE {})
    BY <2>4
  <2>6. QED
    BY <2>5 DEF U, V
<1>5. QED
  BY <1>3, <1>4

\* One region of a space that is destroyed
LEMMA DestroyAtIs ==
  ASSUME NEW z, Shape(z), NEW R, NEW b, SegmentsFit => \A c \in DOMAIN R : Sized(R[c])
  PROVE  LET y == DestroyAt(z, R, b) IN
         /\ Shape(y) /\ y.ret = z.ret /\ y.space = z.space
         /\ y.failure = "none" =>
              /\ z.failure = "none"
              /\ SegmentsFit => y.free = z.free \cup (IF b \in Anonymous(R) THEN PagesOf(R[b]) ELSE {})
<1> DEFINE r == R[b]
           F == PagesOf(r)
           y == FreeFrames(z, F)
<1>1. CASE b \notin DOMAIN R
  BY <1>1 DEF DestroyAt, Anonymous
<1>2. CASE b \in DOMAIN R /\ (Persistent(r) \/ r.type # "PAGEMAP")
  <2>1. DestroyAt(z, R, b) = z
    BY <1>2 DEF DestroyAt, DestroyRegion
  <2>2. SegmentsFit => b \notin Anonymous(R)
    BY <1>2 DEF Sized, Anonymous, Persistent
  <2>3. QED
    BY <2>1, <2>2
<1>3. CASE b \in DOMAIN R /\ ~(Persistent(r) \/ r.type # "PAGEMAP")
  <2>1. DestroyAt(z, R, b) = y
    BY <1>3 DEF DestroyAt, DestroyRegion
  <2>2. /\ Shape(y) /\ y.ret = z.ret /\ y.space = z.space
        /\ y.failure = "none" => z.failure = "none" /\ F \cap Foreign = {} /\ y.free = z.free \cup F
    BY FreeFramesIs
  <2>3. SegmentsFit /\ b \notin Anonymous(R) => F \subseteq Foreign
    BY <1>3 DEF Sized, PagesOf, Anonymous
  <2> HIDE DEF y, F
  <2>4. (y.failure = "none" /\ SegmentsFit) => y.free = z.free \cup (IF b \in Anonymous(R) THEN F ELSE {})
    BY <2>2, <2>3
  <2>5. QED
    BY <2>1, <2>2, <2>4 DEF F
<1>4. QED
  BY <1>1, <1>2, <1>3

LEMMA DestroyRegionsIs ==
  ASSUME NEW x, Shape(x), x.ret = 0, NEW R, DOMAIN R \subseteq Starts,
         SegmentsFit => \A c \in DOMAIN R : Sized(R[c])
  PROVE  LET y == DestroyRegions(x, R) IN
         /\ Shape(y) /\ y.space = x.space
         /\ y.failure = "none" =>
              /\ x.failure = "none"
              /\ SegmentsFit => y.free = x.free \cup UNION {PagesOf(R[b]) : b \in Anonymous(R)}
<1> DEFINE v == DestroyRegions(x, R)
<1>1. v = DestroyRegions(x, R)
  OBVIOUS
<1> HIDE DEF v
<1>2. PICK f, seq, tag, y :
        /\ Run(f, tag, y, seq) /\ v = f[Pages]
        /\ Len(seq) = Pages /\ \A p \in 1 .. Pages : seq[p] = (p - 1) * PageSize
        /\ tag = <<"destroy", R>> /\ y = x
  BY <1>1, DestroyRegionsRun
<1>3. Pages \in Nat
  BY PageNumbers
<1> DEFINE Freed(z, i) == /\ Shape(z) /\ z.ret = 0 /\ z.space = x.space
                          /\ z.failure = "none" => /\ x.failure = "none"
                                                   /\ SegmentsFit => z.free = x.free \cup PagesUpTo(R, i)
           S == {i \in 0 .. Pages : Freed(f[i], i)}
<1>4. 0 \in S
  <2>1. f[0] = x
    BY <1>2 DEF Run
  <2>2. PagesUpTo(R, 0) = {}
    BY DEF PagesUpTo
  <2>3. QED
    BY <1>3, <2>1, <2>2
<1>5. ASSUME NEW i \in 1 .. Pages, i - 1 \in S PROVE i \in S
  <2> DEFINE z == f[i - 1]
             b == (i - 1) * PageSize
             w == DestroyAt(z, R, b)
  <2>1. f[i] = IF Going(z) THEN w ELSE z
    BY <1>2 DEF Run, TurnOf, StepOf
  <2>2. Freed(z, i - 1)
    BY <1>5
  <2> HIDE DEF z
  <2>3. /\ Shape(w) /\ w.ret = z.ret /\ w.space = z.space
        /\ w.failure = "none" =>
             /\ z.failure = "none"
             /\ SegmentsFit => w.free = z.free \cup (IF b \in Anonymous(R) THEN PagesOf(R[b]) ELSE {})
    BY <2>2, DestroyAtIs
  <2>4. PagesUpTo(R, i) = PagesUpTo(R, i - 1) \cup (IF b \in Anonymous(R) THEN PagesOf(R[b]) ELSE {})
    BY <1>3, PagesUpToNext
  <2> HIDE DEF b, w
  <2>5. Freed(w, i)
    BY <2>2, <2>3, <2>4
  <2>6. CASE Going(z)
    BY <1>3, <2>1, <2>5, <2>6
  <2>7. CASE ~Going(z)
    <3>1. z.failure # "none"
      BY <2>2, <2>7 DEF Going
    <3>2. QED
      BY <1>3, <2>1, <2>2, <2>7, <3>1
  <2>8. QED
    BY <2>6, <2>7
<1> HIDE DEF S
<1>6. \A i \in 0 .. Pages : i \in S
  BY <1>3, <1>4, <1>5, UpTo
<1>7. Freed(f[Pages], Pages)
  BY <1>3, <1>6 DEF S
<1>8. PagesUpTo(R, Pages) = UNION {PagesOf(R[b]) : b \in Anonymous(R)}
  <2>1. ASSUME NEW c \in Anonymous(R) PROVE \E p \in 1 .. Pages : c = (p - 1) * PageSize
    <3>1. PICK p \in 0 .. Pages - 1 : c = p * PageSize
      BY StartPages DEF Anonymous
    <3>2. p + 1 \in 1 .. Pages /\ (p + 1) - 1 = p
      BY <1>3
    <3>3. QED
      BY <3>1, <3>2
  <2>2. {c \in Anonymous(R) : \E p \in 1 .. Pages : c = (p - 1) * PageSize} = Anonymous(R)
    BY <2>1
  <2>3. QED
    BY <2>2 DEF PagesUpTo
<1>9. QED
  BY <1>1, <1>2, <1>7, <1>8

\* The pages a space owns
LEMMA OwnPages ==
  ASSUME NEW sp, sp.dir # 0, NEW f
  PROVE  (\E e \in Own(sp) : e[4] = f) <=>
           \/ f \in UNION {PagesOf(sp.regions[b]) : b \in Anonymous(sp.regions)}
           \/ f \in ({sp.tables[g] : g \in DOMAIN sp.tables} \ {0}) \cup {sp.dir}
<1> DEFINE R == sp.regions
<1>1. ASSUME NEW e \in Own(sp), e[4] = f
      PROVE  \/ f \in UNION {PagesOf(R[b]) : b \in Anonymous(R)}
             \/ f \in ({sp.tables[g] : g \in DOMAIN sp.tables} \ {0}) \cup {sp.dir}
  <2>1. CASE e \in DirOwn(sp)
    BY <1>1, <2>1 DEF DirOwn
  <2>2. CASE e \in TableOwn(sp)
    <3>1. PICK g \in TablesIn(sp) : e = <<"table", g, 0, sp.tables[g]>>
      BY <2>2 DEF TableOwn
    <3>2. f = sp.tables[g] /\ f # 0 /\ g \in DOMAIN sp.tables
      BY <1>1, <3>1 DEF TablesIn
    <3>3. QED
      BY <3>2
  <2>3. CASE e \in PageOwn(R)
    <3>1. PICK b \in Anonymous(R) : e \in PagesHeld(b, R[b])
      BY <2>3 DEF PageOwn
    <3>2. f \in PagesOf(R[b])
      BY <1>1, <3>1, PagesHeldAre
    <3>3. QED
      BY <3>2
  <2>4. QED
    BY <2>1, <2>2, <2>3 DEF Own
<1>2. ASSUME f \in UNION {PagesOf(R[b]) : b \in Anonymous(R)} PROVE \E e \in Own(sp) : e[4] = f
  <2>1. PICK b \in Anonymous(R) : f \in PagesOf(R[b])
    BY <1>2
  <2>2. PICK e \in PagesHeld(b, R[b]) : e[4] = f
    BY <2>1, PagesHeldAre
  <2>3. e \in PageOwn(R)
    BY <2>2 DEF PageOwn
  <2>4. QED
    BY <2>2, <2>3 DEF Own
<1>3. ASSUME f \in {sp.tables[g] : g \in DOMAIN sp.tables} \ {0} PROVE \E e \in Own(sp) : e[4] = f
  <2>1. PICK g \in DOMAIN sp.tables : f = sp.tables[g] /\ f # 0
    BY <1>3
  <2> DEFINE e == <<"table", g, 0, sp.tables[g]>>
  <2>2. e \in TableOwn(sp) /\ e[4] = f
    BY <2>1 DEF TableOwn, TablesIn
  <2>3. QED
    BY <2>2 DEF Own
<1>4. ASSUME f = sp.dir PROVE \E e \in Own(sp) : e[4] = f
  <2> DEFINE e == <<"dir", 0, 0, sp.dir>>
  <2>1. e \in DirOwn(sp) /\ e[4] = f
    BY <1>4 DEF DirOwn
  <2>2. QED
    BY <2>1 DEF Own
<1>5. QED
  BY <1>1, <1>2, <1>3, <1>4

LEMMA DestroySpaceIs ==
  ASSUME NEW s \in AllSpaces, NEW x, Sound(x), x.failure = "none"
  PROVE  LET y == DestroySpace(x, s) IN
         /\ Sound(y) /\ y.ret = -1
         /\ y.failure = "none" => /\ y.space[s] = NoSpace
                                  /\ \A t \in AllSpaces \ {s} : y.space[t] = x.space[t]
<1> DEFINE sp == x.space[s]
           x0 == [x EXCEPT !.ret = 0]
           y == DestroyRegions(x0, sp.regions)
           T == ({sp.tables[g] : g \in DOMAIN sp.tables} \ {0}) \cup {sp.dir}
           z == IF sp.dir = 0 THEN Failing(y, "null_page_directory") ELSE FreeFrames(y, T)
           v == [z EXCEPT !.space[s] = NoSpace, !.exec[s] = << >>, !.ret = -1]
           F == UNION {PagesOf(sp.regions[b]) : b \in Anonymous(sp.regions)}
<1>1. DestroySpace(x, s) = v
  BY DEF DestroySpace, FreeTables
<1>2. Shape(x0) /\ x0.ret = 0 /\ x0.space = x.space /\ x0.free = x.free /\ x0.failure = "none"
  BY DEF Sound, Shape, Fields
<1> HIDE DEF x0
<1>3. /\ Shape(y) /\ y.space = x.space
      /\ (y.failure = "none" /\ SegmentsFit) => y.free = x.free \cup F
  <2>1. DOMAIN sp.regions \subseteq Starts /\ (SegmentsFit => \A c \in DOMAIN sp.regions : Sized(sp.regions[c]))
    BY DEF Sound, Disjoint
  <2> DEFINE R == sp.regions
  <2>2. DOMAIN R \subseteq Starts /\ (SegmentsFit => \A c \in DOMAIN R : Sized(R[c]))
    BY <2>1
  <2> HIDE DEF R
  <2>3. LET w == DestroyRegions(x0, R) IN
         /\ Shape(w) /\ w.space = x0.space
         /\ w.failure = "none" =>
              /\ x0.failure = "none"
              /\ SegmentsFit => w.free = x0.free \cup UNION {PagesOf(R[b]) : b \in Anonymous(R)}
    BY <1>2, <2>2, DestroyRegionsIs
  <2>4. QED
    BY <1>2, <2>3 DEF R
<1> HIDE DEF y
<1>4. /\ Shape(z) /\ z.space = x.space
      /\ z.failure = "none" => sp.dir # 0 /\ (SegmentsFit => z.free = (x.free \cup F) \cup T)
  <2>1. CASE sp.dir = 0
    BY <1>3, <2>1, FailingSame DEF Same
  <2>2. CASE sp.dir # 0
    <3>1. z = FreeFrames(y, T)
      BY <2>2
    <3> HIDE DEF z, T, F
    <3>2. /\ Shape(z) /\ z.space = y.space
          /\ z.failure = "none" => y.failure = "none" /\ z.free = y.free \cup T
      BY <1>3, <3>1, FreeFramesIs
    <3>3. QED
      BY <1>3, <2>2, <3>2
  <2>3. QED
    BY <2>1, <2>2
<1> HIDE DEF z
<1>5. /\ Shape(v) /\ v.ret = -1 /\ v.failure = z.failure /\ v.free = z.free
      /\ v.space[s] = NoSpace /\ \A t \in AllSpaces : t # s => v.space[t] = x.space[t]
  BY <1>4, NoSpaceIs DEF Shape, Fields
<1> HIDE DEF v
<1>6. Booked(v)
  <2> SUFFICES ASSUME v.failure = "none", SegmentsFit PROVE Ledger(v.free, {}, Holdings(v))
    BY DEF Booked
  <2> DEFINE free == x.free
             own == Holdings(x)
             own2 == Holdings(v)
             G == F \cup T
  <2>1. Ledger(free, {}, own)
    BY DEF Sound, Booked
  <2>2. own2[s] = {} /\ \A t \in AllSpaces : t # s => own2[t] = own[t]
    BY <1>5, NoSpaceIs DEF Holdings
  <2>3. Told(G, own[s])
    <3>1. ASSUME NEW f PROVE (\E e \in Own(sp) : e[4] = f) <=> f \in F \/ f \in T
      BY <1>4, <1>5, OwnPages
    <3>2. own[s] = Own(sp)
      BY DEF Holdings
    <3> HIDE DEF own, sp, F, T
    <3>3. QED
      BY <3>1, <3>2 DEF Told
  <2>4. v.free = free \cup G
    <3> HIDE DEF F, T
    <3>1. v.free = (x.free \cup F) \cup T
      BY <1>4, <1>5
    <3>2. QED
      BY <3>1
  <2> HIDE DEF free, own, own2, G
  <2>5. Ledger(free \cup G, {}, own2)
    BY <2>1, <2>2, <2>3, LedgerReturned
  <2>6. QED
    BY <2>4, <2>5 DEF own2
<1>7. Sound(v)
  <2>1. v.failure = "none" => \A t \in AllSpaces : Disjoint(v.space[t].regions)
    <3>1. Disjoint(NoSpace.regions)
      BY NoSpaceIs DEF Disjoint
    <3>2. QED
      BY <1>5, <3>1 DEF Sound
  <2>2. (v.failure = "none" /\ SegmentsFit) =>
          \A t \in AllSpaces : \A b \in DOMAIN v.space[t].regions : Sized(v.space[t].regions[b])
    BY <1>5, NoSpaceIs DEF Sound
  <2>3. QED
    BY <1>5, <1>6, <2>1, <2>2 DEF Sound
<1>8. QED
  BY <1>1, <1>5, <1>7

-----------------------------------------------------------------------------
(* Building the space of a task.                                            *)

\* What a space is apart from its pages and its regions does not matter.
LEMMA SoundLike ==
  ASSUME NEW x, Sound(x), NEW y, Shape(y), y.free = x.free, y.failure = x.failure,
         \A t \in AllSpaces : /\ y.space[t].regions = x.space[t].regions /\ y.space[t].dir = x.space[t].dir
                              /\ y.space[t].tables = x.space[t].tables
  PROVE  Sound(y)
<1>1. \A t \in AllSpaces : Own(y.space[t]) = Own(x.space[t])
  BY DEF Own, DirOwn, TableOwn, TablesIn
<1>2. Holdings(y) = Holdings(x)
  BY <1>1 DEF Holdings
<1>3. Booked(y)
  BY <1>2 DEF Sound, Booked
<1>4. QED
  BY <1>3 DEF Sound

\* What does not change the regions or the tables leaves them agreeing.
LEMMA TabledLike ==
  ASSUME NEW sp, NEW sq, sq.regions = sp.regions, sq.entry = sp.entry, sq.tables = sp.tables,
         sq.unmapped = sp.unmapped, Tabled(sp)
  PROVE  Tabled(sq)
BY DEF Tabled, Agrees

LEMMA OpenExecSame ==
  ASSUME NEW x, Shape(x), NEW st
  PROVE  Same(x, OpenExec(x, st)) /\ (Going(OpenExec(x, st)) => st.ok)
<1> DEFINE h1 == HeapAlloc(x)
           h2 == IF Going(h1) THEN HeapAlloc(h1) ELSE h1
<1>1. OpenExec(x, st) = IF ~st.ok THEN [x EXCEPT !.ret = -1]
                        ELSE IF st.undefined THEN Failing(x, "read_through_no_pointer") ELSE h2
  BY DEF OpenExec, Then
<1>2. Same(x, h1)
  BY HeapAllocSame
<1>3. Same(x, h2)
  BY <1>2, HeapAllocSame, SameTrans DEF Same
<1> HIDE DEF h2
<1>4. CASE ~st.ok
  BY <1>1, <1>4 DEF Shape, Fields, Same, Going
<1>5. CASE st.ok /\ st.undefined
  BY <1>1, <1>5, FailingSame
<1>6. CASE st.ok /\ ~st.undefined
  BY <1>1, <1>3, <1>6
<1>7. QED
  BY <1>4, <1>5, <1>6

LEMMA LoadAbiGrows ==
  ASSUME NEW s \in AllSpaces, NEW x, Sound(x), NEW abi
  PROVE  Grows(s, x, LoadAbi(x, s, abi))
<1> DEFINE st == Rebase(Open(Vdso), VdsoBase)
           o == OpenExec(x, Open(Vdso))
           w == IF Going(o) THEN WalkExec(o, s, st) ELSE o
           v == IF Going(w) THEN LoaderRelocate(w, s, st) ELSE w
<1>1. LoadAbi(x, s, abi) = IF abi # "linux" THEN [x EXCEPT !.ret = -1] ELSE v
  BY DEF LoadAbi, Then
<1>2. Placed(st, Vdso)
  BY DEF Placed
<1> HIDE DEF st
<1>3. Same(x, o) /\ (Going(o) => Open(Vdso).ok)
  BY OpenExecSame DEF Sound
<1> HIDE DEF o
<1>4. Sound(o) /\ Grows(s, x, o)
  BY <1>3, SameSound
<1>5. Grows(s, o, w)
  BY <1>2, <1>4, WalkExecGrows, GrowsRefl
<1>6. Going(w) => Open(Vdso).ok
  BY <1>3
<1> HIDE DEF w
<1>7. Sound(w)
  BY <1>5 DEF Grows
<1>8. Grows(s, w, v)
  BY <1>2, <1>6, <1>7, LoaderRelocateGrows, GrowsRefl
<1> HIDE DEF v
<1>9. Grows(s, x, v)
  BY <1>4, <1>5, <1>8, GrowsTrans
<1>10. Grows(s, x, [x EXCEPT !.ret = -1])
  <2>1. Same(x, [x EXCEPT !.ret = -1])
    BY DEF Sound, Same, Shape, Fields
  <2>2. QED
    BY <2>1, SameSound
<1>11. QED
  BY <1>1, <1>9, <1>10

\* What the construction of s makes of its place: a space without a task, or
\* nothing.
Builds(s, x, y) ==
  /\ Sound(y)
  /\ y.failure = "none" =>
       /\ x.failure = "none"
       /\ \A t \in AllSpaces \ {s} : y.space[t] = x.space[t]
       /\ y.ret = 0 => y.space[s].phase = "none" /\ (SegmentsFit => y.space[s].dir # 0)
       /\ y.ret # 0 => y.space[s] = NoSpace
       /\ SegmentsFit /\ Tabled(x.space[s]) => Tabled(y.space[s])

LEMMA BuildsTrans ==
  ASSUME NEW s, NEW x, NEW y, NEW z, Builds(s, x, y), Builds(s, y, z)
  PROVE  Builds(s, x, z)
BY DEF Builds

LEMMA ElseDestroys ==
  ASSUME NEW s \in AllSpaces, NEW x, NEW z, Grows(s, x, z), x.space[s].phase = "none",
         (Going(z) /\ SegmentsFit) => z.space[s].dir # 0,
         NEW v, v = IF z.failure = "none" /\ z.ret = -1 THEN [DestroySpace(z, s) EXCEPT !.ret = -1] ELSE z
  PROVE  Builds(s, x, v)
<1> DEFINE d == DestroySpace(z, s)
<1>0. Sound(z) /\ z.ret \in {0, -1}
  BY DEF Grows, Sound, Shape
<1>1. CASE z.failure = "none" /\ z.ret = -1
  <2>1. /\ Sound(d) /\ d.ret = -1
        /\ d.failure = "none" => /\ d.space[s] = NoSpace
                                 /\ \A t \in AllSpaces \ {s} : d.space[t] = z.space[t]
    BY <1>0, <1>1, DestroySpaceIs
  <2>2. v = [d EXCEPT !.ret = -1]
    BY <1>1
  <2> HIDE DEF d
  <2>3. Shape(v) /\ v.space = d.space /\ v.free = d.free /\ v.failure = d.failure /\ v.ret = -1
    BY <2>1, <2>2 DEF Sound, Shape, Fields
  <2>4. Sound(v)
    BY <2>1, <2>3, SoundLike
  <2>5. QED
    BY <1>1, <2>1, <2>3, <2>4, NoSpaceIs DEF Builds, Grows
<1>2. CASE ~(z.failure = "none" /\ z.ret = -1)
  <2>1. v = z
    BY <1>2
  <2>2. v.failure = "none" => Going(z)
    BY <1>0, <1>2, <2>1 DEF Going
  <2>3. QED
    BY <2>1, <2>2 DEF Builds, Grows, Going
<1>3. QED
  BY <1>1, <1>2

LEMMA BareSpaceBuilds ==
  ASSUME NEW s \in AllSpaces, NEW x, Sound(x), Going(x), x.space[s].phase = "none"
  PROVE  Builds(s, x, BareSpace(x, s))
<1> DEFINE q == [Region(KernelVremap.start, KernelVremap.pages, "PAGEMAP", "vremap_kernel")
                   EXCEPT !.pages = KernelVremap.map]
           m == MapImage(x, s)
           z == IF Going(m) THEN AddRegion(m, s, q) ELSE m
           v == IF z.failure = "none" /\ z.ret = -1 THEN [DestroySpace(z, s) EXCEPT !.ret = -1] ELSE z
<1>1. BareSpace(x, s) = v
  BY DEF BareSpace, Then, Else
<1>2. RegionShape(q) /\ q.ops # "anon" /\ Sized(q)
  BY PersistentIs
<1> HIDE DEF q
<1>3. Sound(m) /\ Grows(s, x, m)
  BY MapImageGrows DEF Grows
<1> HIDE DEF m
<1>4. Grows(s, m, z) /\ (Going(z) /\ SegmentsFit => z.space[s].dir # 0)
  <2>1. CASE Going(m)
    <3> DEFINE a == AddRegion(m, s, q)
    <3>1. Same(m, m)
      BY <1>3 DEF Same, Sound
    <3>2. Grows(s, m, a) /\ (Going(a) => (SegmentsFit => a.space[s].dir # 0))
      BY <1>2, <1>3, <2>1, <3>1, AddMade
    <3>3. z = a
      BY <2>1
    <3> HIDE DEF a, z
    <3>4. QED
      BY <3>2, <3>3
  <2>2. CASE ~Going(m)
    BY <1>3, <2>2, GrowsRefl
  <2>3. QED
    BY <2>1, <2>2
<1> HIDE DEF z
<1>5. Grows(s, x, z)
  BY <1>3, <1>4, GrowsTrans
<1>6. Builds(s, x, v)
  BY <1>4, <1>5, ElseDestroys
<1>7. QED
  BY <1>1, <1>6

LEMMA LoadIntoBuilds ==
  ASSUME NEW s \in AllSpaces, NEW x, Sound(x), Going(x), x.space[s].phase = "none",
         SegmentsFit => x.space[s].dir # 0,
         NEW file, file \in UNION {Executables[t] : t \in Spaces}
  PROVE  Builds(s, x, LoadInto(x, s, Open(file)))
<1> DEFINE st == Open(file)
           o == OpenExec(x, st)
           a == IF Going(o) THEN IF st.abi = "agnostic" THEN o ELSE LoadAbi(o, s, st.abi) ELSE o
           w == IF Going(a) THEN WalkExec(a, s, st) ELSE a
           p == IF Going(w) THEN [w EXCEPT !.space[s].base = BaseAddr(st), !.space[s].top = TopAddr(st)] ELSE w
           z == IF Going(p) THEN LoaderRelocate(p, s, st) ELSE p
           v == IF z.failure = "none" /\ z.ret = -1 THEN [DestroySpace(z, s) EXCEPT !.ret = -1] ELSE z
<1>1. LoadInto(x, s, st) = v
  BY DEF LoadInto, Then, Else
<1>2. Placed(st, file)
  BY DEF Placed
<1>3. Same(x, o) /\ (Going(o) => st.ok)
  BY OpenExecSame DEF Sound
<1> HIDE DEF o
<1>4. Sound(o) /\ Grows(s, x, o)
  BY <1>3, SameSound
<1>5. Sound(a) /\ Grows(s, o, a)
  <2>1. Grows(s, o, LoadAbi(o, s, st.abi)) /\ Grows(s, o, o)
    BY <1>4, LoadAbiGrows, GrowsRefl
  <2>2. Grows(s, o, a)
    BY <2>1
  <2> HIDE DEF a
  <2>3. QED
    BY <2>2 DEF Grows
<1>6. Going(a) => st.ok
  BY <1>3
<1> HIDE DEF a
<1>7. Sound(w) /\ Grows(s, a, w)
  <2>1. Grows(s, a, WalkExec(a, s, st)) /\ Grows(s, a, a)
    BY <1>2, <1>5, WalkExecGrows, GrowsRefl
  <2>2. Grows(s, a, w)
    BY <2>1
  <2> HIDE DEF w
  <2>3. QED
    BY <2>2 DEF Grows
<1>8. Going(w) => st.ok
  BY <1>6
<1> HIDE DEF w, st
<1>9. Sound(p) /\ Grows(s, w, p)
  <2>1. CASE ~Going(w)
    BY <1>7, <2>1, GrowsRefl
  <2>2. CASE Going(w)
    <3> DEFINE y == [w EXCEPT !.space[s].base = BaseAddr(st), !.space[s].top = TopAddr(st)]
    <3>1. /\ Shape(y) /\ y.failure = w.failure /\ y.free = w.free
          /\ \A t \in AllSpaces \ {s} : y.space[t] = w.space[t]
          /\ y.space[s].regions = w.space[s].regions /\ y.space[s].dir = w.space[s].dir
          /\ y.space[s].tables = w.space[s].tables /\ y.space[s].phase = w.space[s].phase
          /\ y.space[s].entry = w.space[s].entry /\ y.space[s].unmapped = w.space[s].unmapped
      BY <1>7 DEF Sound, Shape, SpaceShape, Fields, SpaceFields
    <3>2. p = y
      BY <2>2
    <3> HIDE DEF y, p
    <3>3. Sound(y)
      BY <1>7, <3>1, SoundLike
    <3>4. Grows(s, w, y)
      BY <3>1, <3>3, TabledLike DEF Grows
    <3>5. QED
      BY <3>2, <3>3, <3>4
  <2>3. QED
    BY <2>1, <2>2
<1>10. Going(p) => st.ok
  BY <1>8
<1> HIDE DEF p
<1>11. Grows(s, p, z)
  <2>1. Going(p) => Grows(s, p, LoaderRelocate(p, s, st))
    <3>1. st = Open(file)
      BY DEF st
    <3>2. QED
      BY <1>2, <1>9, <1>10, <3>1, LoaderRelocateGrows
  <2>2. QED
    BY <1>9, <2>1, GrowsRefl
<1> HIDE DEF z
<1>12. Grows(s, x, z)
  BY <1>4, <1>5, <1>7, <1>9, <1>11, GrowsTrans
<1>13. (Going(z) /\ SegmentsFit) => z.space[s].dir # 0
  BY <1>12 DEF Grows, Going
<1>14. Builds(s, x, v)
  BY <1>12, <1>13, ElseDestroys
<1>15. QED
  BY <1>1, <1>14 DEF st

LEMMA LoadFromExecBuilds ==
  ASSUME NEW s \in AllSpaces, NEW x, Sound(x), Going(x), x.space[s] = NoSpace,
         NEW file, file \in UNION {Executables[t] : t \in Spaces}
  PROVE  Builds(s, x, LoadFromExec(x, s, file))
<1> DEFINE h1 == HeapAlloc(x)
           h2 == IF Going(h1) THEN HeapAlloc(h1) ELSE h1
           b == IF Going(h2) THEN BareSpace(h2, s) ELSE h2
           v == IF Going(b) THEN LoadInto(b, s, Open(file)) ELSE b
<1>1. LoadFromExec(x, s, file) = v
  BY DEF LoadFromExec, Then
<1>2. Same(x, h1)
  BY HeapAllocSame DEF Sound
<1>3. Same(x, h2)
  BY <1>2, HeapAllocSame, SameTrans DEF Same
<1> HIDE DEF h2
<1>4. Sound(h2) /\ h2.space[s] = NoSpace /\ h2.space[s].phase = "none"
  BY <1>3, SameSound, NoSpaceIs DEF Same
<1>5. Builds(s, x, b)
  <2>1. CASE Going(h2)
    <3>1. Builds(s, h2, b)
      BY <1>4, <2>1, BareSpaceBuilds
    <3> HIDE DEF b
    <3>2. QED
      BY <1>3, <3>1 DEF Builds, Same
  <2>2. CASE ~Going(h2)
    BY <1>3, <1>4, <2>2 DEF Builds, Same, Going
  <2>3. QED
    BY <2>1, <2>2
<1> HIDE DEF b
<1>6. CASE Going(b)
  <2>1. Sound(b) /\ b.space[s].phase = "none" /\ (SegmentsFit => b.space[s].dir # 0)
    BY <1>5, <1>6 DEF Builds, Going
  <2>2. Builds(s, b, v)
    BY <1>6, <2>1, LoadIntoBuilds
  <2>3. QED
    BY <1>1, <1>5, <2>2, BuildsTrans
<1>7. CASE ~Going(b)
  BY <1>1, <1>5, <1>7
<1>8. QED
  BY <1>6, <1>7

-----------------------------------------------------------------------------
(* A task in its space.                                                     *)

\* The region its messages are mapped in, which has addresses
Receives(sp) ==
  /\ UserVremap.start \in DOMAIN sp.regions
  /\ LET r == sp.regions[UserVremap.start] IN
     r.ops = "vremap" /\ r.type = "PAGEMAP" /\ r.start <= r.end /\ r.end = LastOf(UserVremap)

LEMMA VremapRegionIs ==
  ASSUME NEW w, InSpace(w), NEW r, r = Region(w.start, w.pages, "PAGEMAP", "vremap")
  PROVE  /\ RegionShape(r) /\ r.ops = "vremap" /\ r.type = "PAGEMAP" /\ Sized(r)
         /\ r.start = w.start /\ r.start <= r.end /\ r.end = LastOf(w)
<1>1. w.start \in Starts /\ w.pages \in Int /\ w.start \in Nat
  BY InSpaceIs, RangeEnds
<1>2. /\ RegionShape(r) /\ r.start = w.start /\ r.end = At(w.start + w.pages * PageSize - 1)
      /\ r.ops = "vremap" /\ r.type = "PAGEMAP" /\ r.pages = << >>
  BY <1>1, RegionIs
<1>3. r.start <= r.end /\ r.end = LastOf(w)
  <2>1. w.start <= LastOf(w) /\ LastOf(w) \in Nat /\ w.start + w.pages * PageSize = LastOf(w) + 1
    BY RangeEnds
  <2>2. w.start + w.pages * PageSize <= Width
    BY DEF InSpace
  <2>3. LastOf(w) \in Word
    BY <2>1, <2>2, PageNumbers DEF Word
  <2>4. At(LastOf(w)) = LastOf(w)
    BY <2>3, AtNear
  <2>5. QED
    BY <1>2, <2>1, <2>4 DEF LastOf
<1>4. DOMAIN r.pages = {}
  BY <1>2
<1>5. QED
  BY <1>2, <1>3, <1>4 DEF Sized, Within

\* What a task's region for messages makes of its space
LEMMA WithVremapMakes ==
  ASSUME NEW s \in AllSpaces, NEW x, Sound(x), Going(x), x.space[s].phase = "none",
         SegmentsFit => x.space[s].dir # 0
  PROVE  LET v == WithVremap(x, s) IN
         /\ Sound(v)
         /\ v.failure = "none" =>
              /\ \A t \in AllSpaces \ {s} : v.space[t] = x.space[t]
              /\ SegmentsFit => v.space[s].dir # 0
              /\ v.ret = 0 => v.space[s].phase = "none" /\ Receives(v.space[s])
              /\ v.ret # 0 => v.space[s].phase = "lost"
              /\ SegmentsFit /\ Tabled(x.space[s]) => Tabled(v.space[s])
<1> DEFINE y == VremapNew(x, UserVremap, "vremap")
           r == Region(UserVremap.start, UserVremap.pages, "PAGEMAP", "vremap")
           z == IF Going(y) THEN AddRegion(y, s, y.new) ELSE y
           l == [[z EXCEPT !.space[s].phase = "lost"] EXCEPT !.ret = -1]
           v == IF z.failure = "none" /\ z.ret = -1 THEN l ELSE z
<1>1. WithVremap(x, s) = v
  BY DEF WithVremap, Then, Else, AddNew
<1>2. /\ RegionShape(r) /\ r.ops = "vremap" /\ r.type = "PAGEMAP" /\ Sized(r)
      /\ r.start = UserVremap.start /\ r.start <= r.end /\ r.end = LastOf(UserVremap)
  BY RangesAssumption, VremapRegionIs
<1>3. Same(x, y) /\ (Going(y) => y.new = r)
  <2>1. UserVremap.start \in Starts /\ UserVremap.pages \in Int
    BY RangesAssumption, InSpaceIs
  <2>2. QED
    BY <2>1, VremapNewMakes DEF Sound
<1> HIDE DEF y, r
<1>4. Shape(z) /\ Grows(s, x, z) /\ (Going(z) => Receives(z.space[s]))
  <2>1. CASE Going(y)
    <3> DEFINE a == AddRegion(y, s, r)
    <3>1. Grows(s, x, a) /\ Shape(a) /\ (Going(a) => r.start \in DOMAIN a.space[s].regions /\ a.space[s].regions[r.start] = r)
      BY <1>2, <1>3, <2>1, AddMade
    <3>2. z = a
      BY <1>3, <2>1
    <3> HIDE DEF a, z
    <3>3. QED
      BY <1>2, <3>1, <3>2 DEF Receives
  <2>2. CASE ~Going(y)
    BY <1>3, <2>2, SameSound DEF Same
  <2>3. QED
    BY <2>1, <2>2
<1> HIDE DEF z
<1>5. z.failure = "none" => z.space[s].phase = "none" /\ (SegmentsFit => z.space[s].dir # 0)
  BY <1>4 DEF Grows
<1>6. CASE z.failure = "none" /\ z.ret = -1
  <2>1. v = l
    BY <1>6
  <2>2. /\ Shape(l) /\ l.free = z.free /\ l.failure = z.failure /\ l.ret = -1
        /\ l.space[s].regions = z.space[s].regions /\ l.space[s].dir = z.space[s].dir
        /\ l.space[s].tables = z.space[s].tables /\ l.space[s].phase = "lost"
        /\ l.space[s].entry = z.space[s].entry /\ l.space[s].unmapped = z.space[s].unmapped
        /\ \A t \in AllSpaces \ {s} : l.space[t] = z.space[t]
    BY <1>4 DEF Shape, SpaceShape, Fields, SpaceFields
  <2> HIDE DEF l, v
  <2>3. Sound(l)
    BY <1>4, <2>2, SoundLike DEF Grows
  <2>4. QED
    BY <1>1, <1>4, <1>5, <1>6, <2>1, <2>2, <2>3, TabledLike DEF Grows
<1>7. CASE ~(z.failure = "none" /\ z.ret = -1)
  <2>1. v = z
    BY <1>7
  <2> HIDE DEF v
  <2>2. z.failure = "none" => Going(z)
    BY <1>4, <1>7 DEF Shape, Going
  <2>3. QED
    BY <1>1, <1>4, <1>5, <2>1, <2>2 DEF Grows, Going
<1>8. QED
  BY <1>6, <1>7

LEMMA StackIs ==
  LET start == StackBottom - StackPages * PageSize IN
  start \in Starts /\ StackPages \in Nat /\ StackPages < Pages /\ start + StackPages * PageSize <= Width
<1> DEFINE m == StackPages * PageSize
           start == StackBottom - m
           w == Pages * PageSize
<1>1. start \in Starts /\ start # 0 /\ StackBottom \in 0 .. Width /\ StackPages \in Nat
  BY RangesAssumption
<1>2. PageSize \in Nat /\ PageSize > 0 /\ Pages \in Nat /\ Width = w
  BY MachineAssumption DEF Width
<1>3. m \in Int /\ w \in Int
  BY <1>1, <1>2
<1>4. start \in Nat
  BY <1>1, PageNumbers DEF Starts
<1>5. start + m = StackBottom /\ start + m <= Width /\ m < w
  <2> HIDE DEF m, w
  <2>1. StackBottom \in Int /\ StackBottom <= w
    BY <1>1, <1>2, <1>3
  <2>2. QED
    BY <1>1, <1>2, <1>3, <1>4, <2>1
<1>6. StackPages < Pages
  <2> SUFFICES ASSUME StackPages >= Pages PROVE FALSE
    BY <1>1, <1>2
  <2>1. m >= w
    BY <1>1, <1>2
  <2>2. QED
    BY <1>3, <1>5, <2>1
<1>7. QED
  BY <1>1, <1>5, <1>6

\* The stack of a task, in the space it has
LEMMA WithStackMakes ==
  ASSUME NEW s \in AllSpaces, NEW x, Sound(x), Going(x)
  PROVE  LET v == WithStack(x, s) IN
         /\ Sound(v)
         /\ v.failure = "none" =>
              /\ \A t \in AllSpaces \ {s} : v.space[t] = x.space[t]
              /\ v.ret = 0 => Grows(s, x, v)
              /\ v.ret # 0 => v.space[s] = NoSpace
<1> DEFINE start == StackBottom - StackPages * PageSize
           i == Instance(x)
           y == AnonMap(i, start, StackPages)
           r == [y.new EXCEPT !.role = "STACK"]
           q == IF Going(y) THEN [y EXCEPT !.new.role = "STACK"] ELSE y
           g == IF Going(i) THEN q ELSE i
           z == AddRegion(g, s, g.new)
           w == IF z.failure = "none" /\ z.ret = -1 THEN [DestroyRegion(z, g.new) EXCEPT !.ret = -1] ELSE z
           a == IF Going(g) THEN w ELSE g
           v == IF a.failure = "none" /\ a.ret = -1 THEN [DestroySpace(a, s) EXCEPT !.ret = -1] ELSE a
<1>1. WithStack(x, s) = v
  BY DEF WithStack, StackRegion, Then, Else, AddNew
<1>2. Same(x, i) /\ Sound(i) /\ Grows(s, x, i)
  <2>1. Same(x, i)
    BY InstanceSame DEF Sound
  <2>2. QED
    BY <2>1, SameSound
<1> HIDE DEF i
\* the state with the region it has made, or without
<1>3. /\ Shape(g)
      /\ g.failure = "none" => g.space = i.space /\ i.failure = "none"
      /\ g.ret = -1 => Sound(g) /\ Grows(s, i, g)
      /\ g.ret = 0 /\ g.failure = "none" => Waiting(g, g.new) /\ RegionShape(g.new)
  <2>1. CASE ~Going(i)
    <3>1. g = i
      BY <2>1
    <3> HIDE DEF g
    <3>2. Sound(i) /\ Grows(s, i, i) /\ Shape(i)
      BY <1>2, GrowsRefl DEF Sound
    <3>3. QED
      BY <2>1, <3>1, <3>2 DEF Going
  <2>2. CASE Going(i)
    <3>1. start \in Starts /\ StackPages \in Nat /\ StackPages < Pages /\ start + StackPages * PageSize <= Width
      BY StackIs
    <3> HIDE DEF start
    <3>2. /\ Shape(y)
          /\ y.failure = "none" => i.failure = "none" /\ y.space = i.space
          /\ y.ret = -1 => Same(i, y)
          /\ Going(y) => /\ Waiting(y, y.new) /\ RegionShape(y.new) /\ y.new.ops = "anon"
      BY <1>2, <2>2, <3>1, AnonMapMakes
    <3> HIDE DEF y
    <3>3. g = q
      BY <2>2
    <3>4. CASE ~Going(y)
      <4>1. g = y
        BY <3>3, <3>4
      <4> HIDE DEF g
      <4>2. y.ret = -1 => Sound(y) /\ Grows(s, i, y)
        BY <1>2, <3>2, SameSound
      <4>3. QED
        BY <3>2, <3>4, <4>1, <4>2 DEF Going
    <3>5. CASE Going(y)
      <4>1. g = [y EXCEPT !.new.role = "STACK"]
        BY <3>3, <3>5
      <4> HIDE DEF g
      <4>2. g.new = r /\ g.space = y.space /\ g.free = y.free /\ g.failure = y.failure /\ g.ret = 0 /\ Shape(g)
        BY <3>2, <3>5, <4>1 DEF Shape, Fields, Going
      <4>3. Same(y, g)
        BY <3>5, <4>2 DEF Same, Going
      <4>4. Waiting(y, r) /\ RegionShape(r)
        <5>1. Waiting(y, y.new) /\ RegionShape(y.new) /\ y.new.ops = "anon"
          BY <3>2, <3>5
        <5>2. r = [y.new EXCEPT !.role = "STACK"]
          OBVIOUS
        <5> HIDE DEF r
        <5>3. QED
          BY <5>1, <5>2, WaitingRole
      <4> HIDE DEF r
      <4>5. Waiting(g, g.new) /\ RegionShape(g.new)
        BY <4>2, <4>3, <4>4, WaitingSame
      <4>6. QED
        BY <3>2, <3>5, <4>2, <4>5
    <3>6. QED
      BY <3>4, <3>5
  <2>3. QED
    BY <2>1, <2>2
<1> HIDE DEF g
<1>4. Sound(a) /\ Grows(s, x, a)
  <2>1. CASE g.failure # "none"
    <3>1. a = g
      BY <2>1 DEF Going
    <3>2. Sound(g)
      BY <1>3, <2>1 DEF Sound, Booked
    <3>3. QED
      BY <2>1, <3>1, <3>2 DEF Grows
  <2>2. CASE g.failure = "none" /\ g.ret = -1
    <3>1. a = g
      BY <2>2 DEF Going
    <3> HIDE DEF a
    <3>2. QED
      BY <1>2, <1>3, <2>2, <3>1, GrowsTrans
  <2>3. CASE g.failure = "none" /\ g.ret = 0
    <3>1. Going(g) /\ a = w
      BY <2>3 DEF Going
    <3> HIDE DEF a
    <3> DEFINE n == g.new
    <3>2. Waiting(g, n) /\ RegionShape(n) /\ g.space = i.space
      BY <1>3, <2>3
    <3> HIDE DEF n
    <3>3. Grows(s, i, w)
      <4> DEFINE zz == AddRegion(g, s, n)
                 d == DestroyRegion(zz, n)
      <4>0. w = IF zz.failure = "none" /\ zz.ret = -1 THEN [d EXCEPT !.ret = -1] ELSE zz
        BY DEF n
      <4> HIDE DEF z, w
      <4>1. /\ Shape(zz)
            /\ zz.ret = -1 => Same(g, zz)
            /\ zz.ret = 0 => Grows(s, g, zz)
        BY <3>1, <3>2, AddRegionGrows
      <4> HIDE DEF zz
      <4>2. i.failure = "none"
        BY <1>3, <2>3
      <4>3. CASE zz.ret = 0
        <5>1. Grows(s, i, zz)
          BY <3>2, <4>1, <4>2, <4>3 DEF Grows
        <5>2. QED
          BY <4>0, <4>3, <5>1
      <4>4. CASE zz.ret = -1
        <5>1. Waiting(zz, n) /\ zz.space = i.space
          BY <3>2, <4>1, <4>4, WaitingSame DEF Same
        <5>2. Sound(d) /\ d.ret = -1 /\ d.space = i.space
          BY <4>4, <5>1, DestroyNew
        <5> HIDE DEF d
        <5>3. Same(d, [d EXCEPT !.ret = -1]) /\ [d EXCEPT !.ret = -1].failure = d.failure
          BY <5>2 DEF Sound, Same, Shape, Fields
        <5>4. Sound([d EXCEPT !.ret = -1])
          BY <5>2, <5>3, SameSound
        <5>5. Grows(s, i, [d EXCEPT !.ret = -1])
          BY <4>2, <5>2, <5>3, <5>4 DEF Grows, Same
        <5>6. CASE zz.failure = "none"
          BY <4>0, <4>4, <5>5, <5>6
        <5>7. CASE zz.failure # "none"
          <6>1. Grows(s, i, zz)
            BY <4>1, <5>7 DEF Grows, Sound, Booked
          <6>2. QED
            BY <4>0, <5>7, <6>1
        <5>8. QED
          BY <5>6, <5>7
      <4>5. QED
        BY <4>1, <4>3, <4>4 DEF Shape
    <3>4. QED
      BY <1>2, <3>1, <3>3, GrowsTrans DEF Grows
  <2>4. QED
    BY <1>3, <2>1, <2>2, <2>3 DEF Shape
<1> HIDE DEF a
<1>5. CASE a.failure = "none" /\ a.ret = -1
  <2> DEFINE d == DestroySpace(a, s)
  <2>1. /\ Sound(d) /\ d.ret = -1
        /\ d.failure = "none" => /\ d.space[s] = NoSpace
                                 /\ \A t \in AllSpaces \ {s} : d.space[t] = a.space[t]
    BY <1>4, <1>5, DestroySpaceIs
  <2>2. v = [d EXCEPT !.ret = -1]
    BY <1>5
  <2> HIDE DEF d
  <2>3. Shape(v) /\ v.space = d.space /\ v.free = d.free /\ v.failure = d.failure /\ v.ret = -1
    BY <2>1, <2>2 DEF Sound, Shape, Fields
  <2> HIDE DEF v
  <2>4. Sound(v)
    BY <2>1, <2>3, SoundLike
  <2>5. QED
    BY <1>1, <1>4, <1>5, <2>1, <2>3, <2>4 DEF Grows
<1>6. CASE ~(a.failure = "none" /\ a.ret = -1)
  <2>1. v = a
    BY <1>6
  <2> HIDE DEF v
  <2>2. a.failure = "none" => a.ret = 0
    BY <1>4, <1>6 DEF Sound, Shape
  <2>3. QED
    BY <1>1, <1>4, <2>1, <2>2 DEF Grows
<1>7. QED
  BY <1>5, <1>6

-----------------------------------------------------------------------------
(* The inductive invariant.                                                 *)

\* No space has a part of another; one that is used has a directory, and its
\* task, once it runs, the region its messages are mapped in.
Fitted(sp) ==
  /\ sp.phase = "none" => sp = NoSpace
  /\ (SegmentsFit /\ sp.phase # "none") => sp.dir # 0
  /\ sp.phase = "ready" => Receives(sp)

\* And its page tables are what its regions say.
Settled(sp) == Fitted(sp) /\ (SegmentsFit => Tabled(sp))

Standing(x) == Sound(x) /\ (x.failure = "none" => \A s \in AllSpaces : Settled(x.space[s]))

IInv ==
  /\ Shape(k) /\ k.ret = 0
  /\ \A s \in AllSpaces : Disjoint(k.space[s].regions)
  /\ k.failure = "none" => Standing(k)

LEMMA InitInv ==
  ASSUME Init
  PROVE  IInv
<1>1. k.free = Frames /\ k.failure = "none" /\ k.ret = 0 /\ \A s \in AllSpaces : k.space[s] = NoSpace
  BY DEF Init
<1>2. Shape(k)
  BY NoSpaceIs DEF Init, Shape, Fields
<1>3. Disjoint(NoSpace.regions)
  BY NoSpaceIs DEF Disjoint
<1>4. Booked(k)
  <2>1. \A s \in AllSpaces : Holdings(k)[s] = {}
    BY <1>1, NoSpaceIs DEF Holdings
  <2>2. Ledger(k.free, {}, Holdings(k))
    BY <1>1, <2>1 DEF Ledger
  <2>3. QED
    BY <2>2 DEF Booked
<1>5. Sound(k)
  BY <1>1, <1>2, <1>3, <1>4, NoSpaceIs DEF Sound
<1>6. Settled(NoSpace)
  BY NoSpaceIs DEF Settled, Fitted
<1>7. QED
  BY <1>1, <1>2, <1>3, <1>5, <1>6 DEF IInv, Standing

\* What a call leaves
LEMMA DoneInv ==
  ASSUME IInv, NEW x, Standing(x), k' = Done(x)
  PROVE  IInv'
<1>1. CASE x.failure # "none"
  <2>1. k' = [k EXCEPT !.failure = x.failure]
    BY <1>1 DEF Done
  <2>2. Shape(k') /\ k'.space = k.space /\ k'.ret = 0 /\ k'.failure # "none"
    BY <1>1, <2>1 DEF IInv, Shape, Fields
  <2>3. QED
    BY <2>2 DEF IInv
<1>2. CASE x.failure = "none"
  <2>1. k' = [x EXCEPT !.mem = 0, !.ret = 0, !.new = << >>]
    BY <1>2 DEF Done
  <2>2. Shape(k') /\ k'.space = x.space /\ k'.free = x.free /\ k'.ret = 0 /\ k'.failure = "none"
    BY <1>2, <2>1 DEF Standing, Sound, Shape, Fields
  <2>3. Sound(k')
    BY <1>2, <2>2, SoundLike DEF Standing
  <2>4. Standing(k')
    BY <1>2, <2>2, <2>3 DEF Standing
  <2>5. QED
    BY <2>2, <2>3, <2>4 DEF IInv, Sound
<1>3. QED
  BY <1>1, <1>2

LEMMA CallBegins ==
  ASSUME IInv, k.failure = "none", NEW mem
  PROVE  LET x == [k EXCEPT !.mem = mem] IN
         Standing(x) /\ Sound(x) /\ Going(x) /\ x.space = k.space
<1> DEFINE x == [k EXCEPT !.mem = mem]
<1>1. Shape(x) /\ x.space = k.space /\ x.free = k.free /\ x.failure = "none" /\ x.ret = 0
  BY DEF IInv, Shape, Fields
<1> HIDE DEF x
<1>2. Sound(x)
  BY <1>1, SoundLike DEF IInv, Standing
<1>3. QED
  BY <1>1, <1>2 DEF IInv, Standing, Going, x

\* A call that works on the space of s only
LEMMA CallOn ==
  ASSUME NEW x, Standing(x), NEW s \in AllSpaces, NEW y, Sound(y),
         y.failure = "none" => /\ x.failure = "none" /\ Settled(y.space[s])
                               /\ \A t \in AllSpaces \ {s} : y.space[t] = x.space[t]
  PROVE  Standing(y)
BY DEF Standing

LEMMA DestroySpaceStands ==
  ASSUME NEW s \in AllSpaces, NEW x, Standing(x), x.failure = "none"
  PROVE  Standing(DestroySpace(x, s))
<1> DEFINE y == DestroySpace(x, s)
<1>1. /\ Sound(y)
      /\ y.failure = "none" => /\ y.space[s] = NoSpace
                               /\ \A t \in AllSpaces \ {s} : y.space[t] = x.space[t]
  BY DestroySpaceIs DEF Standing
<1> HIDE DEF y
<1>2. Settled(NoSpace)
  BY NoSpaceIs DEF Settled, Fitted
<1>3. Standing(y)
  BY <1>1, <1>2, CallOn
<1>4. QED
  BY <1>3 DEF y

LEMMA ExitInv ==
  ASSUME IInv, NEW s \in Spaces, Exit(s)
  PROVE  IInv'
<1>1. s \in AllSpaces /\ k.failure = "none" /\ k' = Done(DestroySpace(k, s))
  BY DEF Exit, Ready, Running, AllSpaces
<1>2. Standing(DestroySpace(k, s))
  BY <1>1, DestroySpaceStands DEF IInv
<1>3. QED
  BY <1>1, <1>2, DoneInv

LEMMA FaultInv ==
  ASSUME IInv, NEW s \in Spaces, NEW a, Fault(s, a)
  PROVE  IInv'
<1>1. s \in AllSpaces /\ k.failure = "none" /\ k' = Done(DestroySpace(k, s))
  BY DEF Fault, Ready, Running, AllSpaces
<1>2. Standing(DestroySpace(k, s))
  BY <1>1, DestroySpaceStands DEF IInv
<1>3. QED
  BY <1>1, <1>2, DoneInv

LEMMA KernelStartInv ==
  ASSUME IInv, NEW mem, KernelStart(mem)
  PROVE  IInv'
<1> DEFINE x == [k EXCEPT !.mem = mem]
           a == KernelSpace(x)
           b == Mandatory(a)
           c == IF Going(b) THEN Instance(b) ELSE b
           d == Mandatory(c)
           e == IF Going(d) THEN VremapNew(d, MsgqVremap, "vremap") ELSE d
           f == Mandatory(e)
           g == IF Going(f) THEN AddRegion(f, Kernel, f.new) ELSE f
           h == Mandatory(g)
           l == IF Going(h) THEN [h EXCEPT !.space[Kernel].phase = "kernel"] ELSE h
           r == Region(MsgqVremap.start, MsgqVremap.pages, "PAGEMAP", "vremap")
<1>0. Kernel \in AllSpaces
  BY DEF AllSpaces
<1>1. k.failure = "none" /\ k.space[Kernel].phase = "none" /\ k' = Done(l)
  BY Zenon DEF KernelStart, Running, Then, AddNew
<1>2. Standing(x) /\ Sound(x) /\ Going(x) /\ x.space = k.space
  BY <1>1, CallBegins, Zenon
<1> HIDE DEF l, x
<1>3. DOMAIN x.space[Kernel].regions = {} /\ x.failure = "none"
  BY <1>0, <1>1, <1>2, NoSpaceIs DEF Standing, Settled, Fitted, Going
<1> USE DEF l
<1>4. Grows(Kernel, x, a) /\ (Going(a) /\ SegmentsFit => a.space[Kernel].dir # 0)
  BY <1>2, <1>3, KernelSpaceGrows
<1> HIDE DEF a
<1>5. Grows(Kernel, x, b) /\ (b.failure = "none" => Going(b) /\ (SegmentsFit => b.space[Kernel].dir # 0))
  BY <1>0, <1>4, MandatoryGrows DEF Going
<1> HIDE DEF b
<1>6. Same(b, f) /\ (f.failure = "none" => Going(f) /\ f.new = r)
  <2>1. Shape(b) /\ Same(b, b)
    BY <1>5 DEF Grows, Sound, Same
  <2>2. Same(b, c)
    BY <2>1, InstanceSame
  <2> HIDE DEF c
  <2>3. Same(b, d) /\ (d.failure = "none" => d.ret = 0)
    BY <2>2, MandatorySame, SameTrans DEF Same
  <2> HIDE DEF d
  <2>4. Same(b, e) /\ (Going(e) => e.new = r)
    <3>1. CASE Going(d)
      <4>1. MsgqVremap.start \in Starts /\ MsgqVremap.pages \in Int
        BY RangesAssumption, InSpaceIs
      <4> DEFINE vv == VremapNew(d, MsgqVremap, "vremap")
      <4>2. Same(d, vv) /\ (Going(vv) => vv.new = r)
        BY <2>3, <4>1, VremapNewMakes DEF Same
      <4>3. e = vv
        BY <3>1
      <4> HIDE DEF vv, e, r
      <4>4. QED
        BY <2>3, <4>2, <4>3, SameTrans
    <3>2. CASE ~Going(d)
      BY <2>3, <3>2
    <3>3. QED
      BY <3>1, <3>2
  <2> HIDE DEF e, r
  <2>5. Same(b, f) /\ (f.failure = "none" => f = e /\ f.ret = 0)
    BY <2>4, MandatorySame, SameTrans DEF Same
  <2> HIDE DEF f
  <2>6. QED
    BY <2>4, <2>5 DEF Going
<1>7. RegionShape(r) /\ r.ops # "anon" /\ Sized(r)
  <2>1. InSpace(MsgqVremap)
    BY RangesAssumption
  <2>2. RegionShape(r) /\ r.ops = "vremap" /\ Sized(r)
    BY <2>1, VremapRegionIs
  <2> HIDE DEF r
  <2>3. QED
    BY <2>2
<1> HIDE DEF f, r
<1>8. Grows(Kernel, b, g)
  <2>1. Sound(b)
    BY <1>5 DEF Grows
  <2>2. CASE Going(f)
    <3> DEFINE z == AddRegion(f, Kernel, r)
    <3>1. Grows(Kernel, b, z)
      BY <1>0, <1>6, <1>7, <2>1, <2>2, AddMade
    <3>2. g = z
      BY <1>6, <2>2 DEF Going
    <3> HIDE DEF z, g
    <3>3. QED
      BY <3>1, <3>2
  <2>3. CASE ~Going(f)
    BY <1>0, <1>6, <2>1, <2>3, SameSound
  <2>4. QED
    BY <2>2, <2>3
<1> HIDE DEF g
<1>9. Grows(Kernel, b, h) /\ (h.failure = "none" => Going(h))
  BY <1>0, <1>8, MandatoryGrows DEF Going
<1> HIDE DEF h
<1>10. Grows(Kernel, x, h)
  BY <1>5, <1>9, GrowsTrans
<1>11. Standing(l)
  <2>1. CASE Going(h)
    <3>1. l = [h EXCEPT !.space[Kernel].phase = "kernel"]
      BY <2>1
    <3>2. /\ Shape(l) /\ l.free = h.free /\ l.failure = h.failure
          /\ l.space[Kernel].regions = h.space[Kernel].regions /\ l.space[Kernel].dir = h.space[Kernel].dir
          /\ l.space[Kernel].tables = h.space[Kernel].tables /\ l.space[Kernel].phase = "kernel"
          /\ l.space[Kernel].entry = h.space[Kernel].entry /\ l.space[Kernel].unmapped = h.space[Kernel].unmapped
          /\ \A t \in AllSpaces \ {Kernel} : l.space[t] = h.space[t]
      BY <1>0, <1>10, <3>1 DEF Grows, Sound, Shape, SpaceShape, Fields, SpaceFields
    <3> HIDE DEF l
    <3>3. Sound(l)
      BY <1>0, <1>10, <3>2, SoundLike DEF Grows
    <3>4. SegmentsFit => l.space[Kernel].dir # 0
      BY <1>5, <1>9, <2>1, <3>2 DEF Grows, Going
    <3>5. Settled(l.space[Kernel])
      <4>1. SegmentsFit => Tabled(x.space[Kernel])
        BY <1>0, <1>2, <1>3 DEF Standing, Settled
      <4>2. h.failure = "none"
        BY <2>1 DEF Going
      <4>3. SegmentsFit => Tabled(h.space[Kernel])
        BY <1>10, <4>1, <4>2 DEF Grows
      <4>4. SegmentsFit => Tabled(l.space[Kernel])
        BY <3>2, <4>3, TabledLike
      <4>5. QED
        BY <3>2, <3>4, <4>4 DEF Settled, Fitted
    <3>6. QED
      BY <1>0, <1>2, <1>3, <1>10, <3>2, <3>3, <3>5, CallOn DEF Grows
  <2>2. CASE ~Going(h)
    BY <1>9, <1>10, <2>2 DEF Grows, Standing
  <2>3. QED
    BY <2>1, <2>2
<1>12. QED
  BY <1>1, <1>11, DoneInv

LEMMA StartInv ==
  ASSUME IInv, NEW s \in Spaces, NEW exe \in Executables[s], NEW mem, Start(s, exe, mem)
  PROVE  IInv'
<1> DEFINE x == [k EXCEPT !.mem = mem]
           a == LoadFromExec(x, s, exe)
           b == IF Going(a) THEN WithVremap(a, s) ELSE a
           c == IF Going(b) THEN WithStack(b, s) ELSE b
           l == IF Going(c) THEN [c EXCEPT !.space[s].phase = "ready", !.exec[s] = Images(exe)] ELSE c
<1>0. s \in AllSpaces
  BY DEF AllSpaces
<1>1. k.failure = "none" /\ k.space[s].phase = "none" /\ k' = Done(l)
  BY DEF Start, Running, Then
<1>2. Standing(x) /\ Sound(x) /\ Going(x) /\ x.space = k.space
  BY <1>1, CallBegins
<1> HIDE DEF l, x
<1>3. x.space[s] = NoSpace /\ x.failure = "none" /\ x.space[s].phase = "none"
  BY <1>0, <1>1, <1>2 DEF Standing, Settled, Fitted, Going
<1>4. Builds(s, x, a)
  BY <1>0, <1>2, <1>3, LoadFromExecBuilds
<1> HIDE DEF a
<1>5. Sound(b)
  <2>1. CASE Going(a)
    <3>1. Sound(a) /\ a.space[s].phase = "none" /\ (SegmentsFit => a.space[s].dir # 0)
      BY <1>4, <2>1 DEF Builds, Going
    <3>2. Sound(WithVremap(a, s))
      BY <1>0, <2>1, <3>1, WithVremapMakes
    <3>3. QED
      BY <2>1, <3>2
  <2>2. CASE ~Going(a)
    BY <1>4, <2>2 DEF Builds
  <2>3. QED
    BY <2>1, <2>2
<1>6. b.failure = "none" =>
        /\ \A t \in AllSpaces \ {s} : b.space[t] = x.space[t]
        /\ b.ret = 0 => b.space[s].phase = "none" /\ Receives(b.space[s]) /\ (SegmentsFit => b.space[s].dir # 0)
        /\ b.ret # 0 => Settled(b.space[s])
        /\ SegmentsFit => Tabled(b.space[s])
  <2>1. CASE Going(a)
    <3>1. /\ Sound(a) /\ a.space[s].phase = "none" /\ (SegmentsFit => a.space[s].dir # 0)
          /\ \A t \in AllSpaces \ {s} : a.space[t] = x.space[t]
          /\ SegmentsFit => Tabled(a.space[s])
      BY <1>3, <1>4, <2>1, NoSpaceIs DEF Builds, Going
    <3> DEFINE v == WithVremap(a, s)
    <3>2. v.failure = "none" =>
              /\ \A t \in AllSpaces \ {s} : v.space[t] = a.space[t]
              /\ SegmentsFit => v.space[s].dir # 0
              /\ v.ret = 0 => v.space[s].phase = "none" /\ Receives(v.space[s])
              /\ v.ret # 0 => v.space[s].phase = "lost"
              /\ SegmentsFit => Tabled(v.space[s])
      BY <1>0, <2>1, <3>1, WithVremapMakes
    <3>3. b = v
      BY <2>1
    <3> HIDE DEF b, v
    <3>4. QED
      BY <3>1, <3>2, <3>3 DEF Settled, Fitted
  <2>2. CASE ~Going(a)
    <3>1. b = a
      BY <2>2
    <3> HIDE DEF b
    <3>2. Settled(NoSpace)
      BY NoSpaceIs DEF Settled, Fitted
    <3>3. QED
      BY <1>3, <1>4, <2>2, <3>1, <3>2, NoSpaceIs DEF Builds, Going
  <2>3. QED
    BY <2>1, <2>2
<1> HIDE DEF b
<1>7. CASE ~Going(b)
  <2>1. l = b
    BY <1>7 DEF l, Going
  <2>2. b.failure = "none" => Settled(b.space[s]) /\ \A t \in AllSpaces \ {s} : b.space[t] = x.space[t]
    BY <1>6, <1>7 DEF Going
  <2>3. Standing(b)
    BY <1>0, <1>2, <1>3, <1>5, <2>2, CallOn
  <2>4. QED
    BY <1>1, <2>1, <2>3, DoneInv
<1>8. CASE Going(b)
  <2>1. c = WithStack(b, s)
    BY <1>8
  <2>2. /\ Sound(c)
        /\ c.failure = "none" =>
              /\ \A t \in AllSpaces \ {s} : c.space[t] = b.space[t]
              /\ c.ret = 0 => Grows(s, b, c)
              /\ c.ret # 0 => c.space[s] = NoSpace
    BY <1>0, <1>5, <1>8, <2>1, WithStackMakes
  <2>3. b.failure = "none" /\ b.ret = 0
    BY <1>8 DEF Going
  <2>4. l = IF Going(c) THEN [c EXCEPT !.space[s].phase = "ready", !.exec[s] = Images(exe)] ELSE c
    BY DEF l
  <2> HIDE DEF c
  <2>5. CASE ~Going(c)
    <3>1. Settled(NoSpace)
      BY NoSpaceIs DEF Settled, Fitted
    <3>2. c.failure = "none" => Settled(c.space[s]) /\ \A t \in AllSpaces \ {s} : c.space[t] = x.space[t]
      BY <1>6, <2>2, <2>3, <2>5, <3>1 DEF Going
    <3>3. Standing(c)
      BY <1>0, <1>2, <1>3, <2>2, <3>2, CallOn
    <3>4. l = c
      BY <2>4, <2>5
    <3>5. QED
      BY <1>1, <3>3, <3>4, DoneInv
  <2>6. CASE Going(c)
    <3>1. c.failure = "none" /\ c.ret = 0 /\ Grows(s, b, c) /\ \A t \in AllSpaces \ {s} : c.space[t] = x.space[t]
      BY <1>6, <2>2, <2>3, <2>6 DEF Going
    <3>2. Receives(c.space[s])
      <4> DEFINE a0 == UserVremap.start
                 R == b.space[s].regions
      <4>1. a0 \in DOMAIN R /\ R[a0].ops = "vremap" /\ R[a0].type = "PAGEMAP" /\ R[a0].start <= R[a0].end
            /\ R[a0].end = LastOf(UserVremap)
        BY <1>6, <2>3 DEF Receives
      <4>2. QED
        BY <3>1, <4>1 DEF Grows, Receives
    <3>3. SegmentsFit => c.space[s].dir # 0
      BY <1>6, <2>3, <3>1 DEF Grows
    <3>4. l = [c EXCEPT !.space[s].phase = "ready", !.exec[s] = Images(exe)]
      BY <2>4, <2>6
    <3>5. /\ Shape(l) /\ l.free = c.free /\ l.failure = c.failure
          /\ l.space[s].regions = c.space[s].regions /\ l.space[s].dir = c.space[s].dir
          /\ l.space[s].tables = c.space[s].tables /\ l.space[s].phase = "ready"
          /\ l.space[s].entry = c.space[s].entry /\ l.space[s].unmapped = c.space[s].unmapped
          /\ \A t \in AllSpaces \ {s} : l.space[t] = c.space[t]
      BY <1>0, <2>2, <3>4 DEF Sound, Shape, SpaceShape, Fields, SpaceFields
    <3>6. Sound(l)
      BY <1>0, <2>2, <3>5, SoundLike
    <3>7. Settled(l.space[s])
      <4>1. SegmentsFit => Tabled(c.space[s])
        BY <1>6, <2>3, <3>1 DEF Grows
      <4>2. SegmentsFit => Tabled(l.space[s])
        BY <3>5, <4>1, TabledLike
      <4>3. QED
        BY <3>2, <3>3, <3>5, <4>2 DEF Settled, Fitted, Receives
    <3>8. Standing(l)
      BY <1>0, <1>2, <1>3, <3>1, <3>5, <3>6, <3>7, CallOn
    <3>9. QED
      BY <1>1, <3>8, DoneInv
  <2>7. QED
    BY <2>5, <2>6
<1>9. QED
  BY <1>7, <1>8

\* x is z with the region at b of s, new or with more pages, that is not in the
\* page tables yet.
Awaits(s, z, x, b) ==
  /\ Sound(x) /\ Going(x) /\ Fitted(x.space[s]) /\ x.space[s].phase = "ready"
  /\ \A t \in AllSpaces \ {s} : x.space[t] = z.space[t]
  /\ x.space[s].entry = z.space[s].entry /\ x.space[s].tables = z.space[s].tables
  /\ x.space[s].unmapped = z.space[s].unmapped
  /\ b \in DOMAIN x.space[s].regions
  /\ SegmentsFit => Joined(z.space[s].regions, x.space[s].regions, b, x.space[s].regions[b])

LEMMA UpdateStands ==
  ASSUME NEW s \in AllSpaces, NEW z, Standing(z), z.failure = "none", NEW x, NEW b, Awaits(s, z, x, b)
  PROVE  Standing(UpdateRegion(x, s, x.space[s].regions[b]))
<1> DEFINE r == x.space[s].regions[b]
           y == UpdateRegion(x, s, r)
<1>1. RegionShape(r) /\ Shape(x) /\ x.failure = "none" /\ Disjoint(x.space[s].regions)
  BY DEF Awaits, Sound, Disjoint, Going
<1> HIDE DEF r
<1>2. Keeps(s, x, y)
  BY <1>1, UpdateRegionKeeps
<1>3. SegmentsFit /\ y.failure = "none" => Tabled(y.space[s])
  <2> SUFFICES ASSUME SegmentsFit, y.failure = "none" PROVE Tabled(y.space[s])
    OBVIOUS
  <2>1. Tabled(z.space[s])
    BY DEF Standing, Settled
  <2>2. x.free \subseteq Frames
    BY <1>1 DEF Awaits, Sound, Booked, Ledger
  <2>3. Within(r)
    BY <1>1, SizedWithin DEF Awaits, Sound, r
  <2>4. y = UpdateRegion(x, s, r)
    OBVIOUS
  <2>5. /\ Going(x) /\ Joined(z.space[s].regions, x.space[s].regions, b, r)
        /\ x.space[s].entry = z.space[s].entry /\ x.space[s].tables = z.space[s].tables
        /\ x.space[s].unmapped = z.space[s].unmapped
    BY DEF Awaits, r
  <2> HIDE DEF y
  <2>6. QED
    BY <1>1, <2>1, <2>2, <2>3, <2>4, <2>5, RegionTabled
<1> HIDE DEF y
<1>4. Sound(y)
  BY <1>2, KeepsSound DEF Awaits
<1>5. y.failure = "none" => Settled(y.space[s])
  BY <1>2, <1>3 DEF Awaits, Keeps, Settled, Fitted, Receives
<1>6. y.failure = "none" => \A t \in AllSpaces \ {s} : y.space[t] = z.space[t]
  BY <1>2 DEF Awaits, Keeps
<1>7. Standing(y)
  BY <1>4, <1>5, <1>6, CallOn
<1>8. QED
  BY <1>7 DEF y, r

LEMMA PutPageIs ==
  ASSUME NEW pages, NEW o, NEW f
  PROVE  LET p == PutPage(pages, o, f) IN
         \A i \in DOMAIN p : p[i].phys = f \/ (i \in DOMAIN pages /\ p[i] = pages[i])
BY DEF PutPage

\* The region for messages with one more
LEMMA MessageMapped ==
  ASSUME NEW R, Disjoint(R), NEW a \in DOMAIN R, a = UserVremap.start,
         R[a].ops = "vremap", R[a].type = "PAGEMAP", R[a].end = LastOf(UserVremap),
         NEW offset \in Nat, offset < UserVremap.pages, NEW f \in Foreign,
         NEW p, p = PutPage(R[a].pages, offset, f), NEW r, r = [R[a] EXCEPT !.pages = p],
         NEW Q, DOMAIN Q = DOMAIN R, Q[a] = r, \A b \in DOMAIN R : b # a => Q[b] = R[b]
  PROVE  /\ Disjoint(Q) /\ r.ops = "vremap" /\ r.type = "PAGEMAP" /\ r.start = R[a].start /\ r.end = R[a].end
         /\ (\A b \in DOMAIN R : Sized(R[b])) => \A b \in DOMAIN Q : Sized(Q[b])
         /\ Joined(R, Q, a, r)
<1>1. RegionShape(R[a]) /\ R[a].start = a
  BY DEF Disjoint
<1>2. DOMAIN R[a] = RegionFields
  BY <1>1 DEF RegionShape
<1>3. /\ DOMAIN r = RegionFields /\ r.pages = p
      /\ r.start = R[a].start /\ r.end = R[a].end /\ r.ops = "vremap" /\ r.type = "PAGEMAP" /\ r.role = R[a].role
  BY <1>2 DEF RegionFields
<1>4. RegionShape(r)
  BY <1>1, <1>3 DEF RegionShape
<1>5. Disjoint(Q)
  <2>1. \A b \in DOMAIN Q : Q[b].start = R[b].start /\ Q[b].end = R[b].end /\ (RegionShape(R[b]) => RegionShape(Q[b]))
    <3>1. Q[a].start = R[a].start /\ Q[a].end = R[a].end /\ RegionShape(Q[a])
      BY <1>3, <1>4
    <3>2. QED
      BY <3>1
  <2>2. QED
    BY <2>1 DEF Disjoint
<1>6. DOMAIN p = DOMAIN R[a].pages \cup {offset}
  BY DEF PutPage
<1>7. a + offset * PageSize <= LastOf(UserVremap)
  <2> DEFINE m == UserVremap.pages * PageSize
  <2>1. InSpace(UserVremap) /\ UserVremap.pages \in Nat /\ m = UserVremap.pages * PageSize
    BY RangesAssumption, InSpaceIs
  <2>2. offset \in 0 .. UserVremap.pages - 1
    BY <2>1
  <2> HIDE DEF m
  <2>3. UserVremap.start + offset * PageSize <= UserVremap.start + m - 1
    BY <2>1, <2>2, InSpaceEnds
  <2>4. QED
    BY <2>1, <2>3 DEF LastOf
<1>8. ASSUME Sized(R[a]) PROVE Sized(r)
  <2>1. /\ Within(R[a])
        /\ \A o \in DOMAIN R[a].pages : R[a].pages[o].phys \in Foreign
    BY <1>8 DEF Sized, Persistent
  <2>2. \A o \in DOMAIN p : p[o].phys \in Foreign
    BY <2>1, PutPageIs
  <2>3. \A o \in DOMAIN R[a].pages : o \in Nat /\ a + o * PageSize <= R[a].end
    BY <1>1, <2>1 DEF Within
  <2>4. Within(r)
    BY <1>1, <1>3, <1>6, <1>7, <2>3 DEF Within
  <2>5. QED
    BY <1>3, <2>2, <2>4, Zenon DEF Sized
<1>9. \A v \in PageNumber : Backs(R[a], v) => Backs(r, v)
  <2>1. \A v : Offset(r, v) = Offset(R[a], v)
    BY <1>3 DEF Offset
  <2>2. DOMAIN R[a].pages \subseteq DOMAIN r.pages
    BY <1>3, <1>6
  <2>3. QED
    BY <1>3, <2>1, <2>2 DEF Backs
<1>10. Joined(R, Q, a, r)
  BY <1>9 DEF Joined
<1>11. QED
  BY <1>3, <1>5, <1>8, <1>10

LEMMA MapMessageInv ==
  ASSUME IInv, NEW s \in Spaces, NEW offset \in Nat, NEW f \in Foreign, MapMessage(s, offset, f)
  PROVE  IInv'
<1> DEFINE a == UserVremap.start
           x == MapPage(k, s, a, offset, f)
           y == UpdateRegion(x, s, x.space[s].regions[a])
           R == k.space[s].regions
           Q == x.space[s].regions
           p == PutPage(R[a].pages, offset, f)
<1>0. s \in AllSpaces
  BY DEF AllSpaces
<1>1. k.failure = "none" /\ k.space[s].phase = "ready" /\ k' = Done(y) /\ offset < UserVremap.pages
      /\ offset \notin DOMAIN R[a].pages
  BY DEF MapMessage, Ready, Running
<1>2. Standing(k) /\ Sound(k) /\ Settled(k.space[s]) /\ Shape(k) /\ k.ret = 0
  BY <1>0, <1>1 DEF IInv, Standing
<1>3. a \in DOMAIN R /\ R[a].ops = "vremap" /\ R[a].type = "PAGEMAP" /\ R[a].end = LastOf(UserVremap)
  BY <1>1, <1>2 DEF Settled, Fitted, Receives
<1>4. Disjoint(R) /\ RegionShape(R[a])
  BY <1>0, <1>1, <1>2, <1>3 DEF Sound, Disjoint
<1>5. /\ Shape(x) /\ x.ret = 0 /\ x.failure = "none" /\ x.free = k.free
      /\ x.space[s].dir = k.space[s].dir /\ x.space[s].tables = k.space[s].tables
      /\ x.space[s].phase = "ready"
      /\ x.space[s].entry = k.space[s].entry /\ x.space[s].unmapped = k.space[s].unmapped
      /\ \A t \in AllSpaces \ {s} : x.space[t] = k.space[t]
      /\ Q = [R EXCEPT ![a].pages = p]
  <2>1. x = [k EXCEPT !.space[s].regions[a].pages = p]
    BY DEF MapPage
  <2>2. DOMAIN k = Fields /\ s \in DOMAIN k.space /\ DOMAIN k.space[s] = SpaceFields
    BY <1>0, <1>2 DEF Shape, SpaceShape
  <2> HIDE DEF x, p, a
  <2>3. QED
    BY <1>0, <1>1, <1>2, <2>1, <2>2 DEF Shape, SpaceShape, Fields, SpaceFields
<1>6. /\ DOMAIN Q = DOMAIN R /\ \A b \in DOMAIN R : b # a => Q[b] = R[b]
      /\ Q[a] = [R[a] EXCEPT !.pages = p]
  BY <1>3, <1>5
<1> HIDE DEF x, y
<1> DEFINE r == Q[a]
<1>7. /\ Disjoint(Q) /\ r.ops = "vremap" /\ r.type = "PAGEMAP" /\ r.start = R[a].start /\ r.end = R[a].end
      /\ (\A b \in DOMAIN R : Sized(R[b])) => \A b \in DOMAIN Q : Sized(Q[b])
      /\ Joined(R, Q, a, r)
  <2>1. a = UserVremap.start /\ p = PutPage(R[a].pages, offset, f) /\ r = [R[a] EXCEPT !.pages = p]
    BY <1>6
  <2> HIDE DEF R, Q, a, p, r
  <2>2. Q[a] = r
    BY DEF r
  <2>3. QED
    BY <1>1, <1>3, <1>4, <1>6, <2>1, <2>2, MessageMapped
<1> HIDE DEF Q
<1>8. SegmentsFit => \A b \in DOMAIN Q : Sized(Q[b])
  BY <1>0, <1>1, <1>2, <1>7 DEF Sound
<1>9. Own(x.space[s]) = Own(k.space[s])
  <2>1. /\ DOMAIN Q = DOMAIN R \cup {a} /\ a \notin Anonymous(R) /\ Q[a].ops # "anon"
        /\ \A b \in DOMAIN R : b # a => Q[b] = R[b]
    <3>1. Q[a].ops = "vremap"
      BY <1>7
    <3>2. a \in DOMAIN R /\ R[a].ops = "vremap"
      BY <1>3
    <3> HIDE DEF R, a, r, p
    <3>3. QED
      BY <1>6, <3>1, <3>2 DEF Anonymous
  <2> HIDE DEF R, a, r
  <2>2. PageOwn(Q) = PageOwn(R) \cup (IF Q[a].ops = "anon" THEN PagesHeld(a, Q[a]) ELSE {})
    BY <2>1, PageOwnInsert
  <2>3. PageOwn(Q) = PageOwn(R)
    BY <2>1, <2>2
  <2>4. QED
    BY <1>5, <2>3 DEF Own, DirOwn, TableOwn, TablesIn, Q, R
<1>10. Booked(x)
  <2>1. Holdings(x) = Holdings(k)
    BY <1>5, <1>9 DEF Holdings
  <2>2. QED
    BY <1>1, <1>2, <1>5, <2>1 DEF Sound, Booked
<1>11. Sound(x)
  <2>1. Disjoint(x.space[s].regions) /\ \A t \in AllSpaces \ {s} : Disjoint(x.space[t].regions)
    <3>1. \A t \in AllSpaces : Disjoint(k.space[t].regions)
      BY <1>1, <1>2 DEF Sound
    <3>2. Disjoint(x.space[s].regions)
      BY <1>7 DEF Q
    <3>3. QED
      BY <1>5, <3>1, <3>2
  <2>2. SegmentsFit => \A t \in AllSpaces : \A b \in DOMAIN x.space[t].regions : Sized(x.space[t].regions[b])
    <3> SUFFICES ASSUME SegmentsFit
                 PROVE  \A t \in AllSpaces : \A b \in DOMAIN x.space[t].regions : Sized(x.space[t].regions[b])
      OBVIOUS
    <3>1. \A t \in AllSpaces : \A b \in DOMAIN k.space[t].regions : Sized(k.space[t].regions[b])
      BY <1>1, <1>2 DEF Sound
    <3>2. \A b \in DOMAIN x.space[s].regions : Sized(x.space[s].regions[b])
      BY <1>8 DEF Q
    <3>3. QED
      BY <1>5, <3>1, <3>2
  <2>3. QED
    BY <1>5, <1>10, <2>1, <2>2 DEF Sound
<1>12. Fitted(x.space[s])
  <2>1. /\ a \in DOMAIN Q /\ Q[a].ops = "vremap" /\ Q[a].type = "PAGEMAP" /\ Q[a].start <= Q[a].end
        /\ Q[a].end = LastOf(UserVremap)
    BY <1>1, <1>2, <1>3, <1>6, <1>7 DEF Settled, Fitted, Receives
  <2>2. SegmentsFit => x.space[s].dir # 0
    BY <1>1, <1>2, <1>5 DEF Settled, Fitted
  <2>3. QED
    BY <1>5, <2>1, <2>2 DEF Fitted, Receives, Q
<1>13. Awaits(s, k, x, a)
  <2>1. /\ a \in DOMAIN x.space[s].regions
        /\ Joined(k.space[s].regions, x.space[s].regions, a, x.space[s].regions[a])
    BY <1>3, <1>6, <1>7 DEF Q
  <2> HIDE DEF a, r, p
  <2>2. QED
    BY <1>5, <1>11, <1>12, <2>1 DEF Awaits, Going
<1>14. Standing(y)
  <2> HIDE DEF a
  <2>1. QED
    BY <1>0, <1>1, <1>2, <1>13, UpdateStands DEF y
<1>15. QED
  BY <1>1, <1>14, DoneInv

-----------------------------------------------------------------------------
(* Growing the data segment.                                                *)

LEMMA UnitsBound ==
  ASSUME NEW n \in Int
  PROVE  Units(n) \in Int /\ Units(n) * PageSize < n + PageSize
<1> DEFINE p == PageSize
           v == n + p - 1
           q == v \div p
           m == v % p
<1>1. p \in Nat /\ p > 0 /\ v \in Int
  BY PageNumbers
<1>2. q \in Int /\ m \in 0 .. p - 1 /\ v = q * p + m
  <2> HIDE DEF p, v
  <2>1. QED
    BY <1>1
<1>5. q = Units(n)
  BY DEF q, Units
<1> HIDE DEF q, m
<1> DEFINE w == q * p
<1>3. w \in Int
  BY <1>1, <1>2
<1> HIDE DEF w
<1>4. w < n + p
  <2>1. n + p - 1 = w + m
    BY <1>2 DEF w
  <2>2. QED
    BY <1>1, <1>2, <1>3, <2>1
<1>6. QED
  BY <1>2, <1>4, <1>5 DEF w

\* The pages up to an address end within the address space.
LEMMA GrownIs ==
  ASSUME NEW start \in Starts, NEW a \in Word, NEW n, n = Units(a - start), n >= 1
  PROVE  /\ n \in Nat /\ start + n * PageSize <= Width
         /\ At(start + n * PageSize - 1) = start + n * PageSize - 1
         /\ start # 0 => n < Pages
<1> DEFINE p == PageSize
           m == n * p
<1>1. PICK c \in 0 .. Pages - 1 : start = c * p
  BY StartPages
<1>2. p \in Nat /\ p > 1 /\ Pages \in Nat /\ Pages > 0 /\ Width = p * Pages /\ Width \in Nat
  BY PageNumbers
<1>3. a \in Int /\ a <= Width - 1 /\ start \in Int /\ start >= 0 /\ a - start \in Int
  BY <1>2 DEF Word, Starts
<1>4. n \in Int /\ m < a - start + p
  BY <1>3, UnitsBound
<1>5. n <= Pages - c
  <2> SUFFICES ASSUME n >= Pages - c + 1 PROVE FALSE
    BY <1>1, <1>2, <1>4
  <2>1. n * p >= (Pages - c + 1) * p
    BY <1>1, <1>2, <1>4
  <2>2. (Pages - c + 1) * p = Width - start + p
    BY <1>1, <1>2
  <2>3. m \in Int /\ m >= Width - start + p
    BY <1>2, <1>4, <2>1, <2>2
  <2> HIDE DEF m, p
  <2>4. QED
    BY <1>2, <1>3, <1>4, <2>3
<1>6. m <= Width - start
  <2>1. n * p <= (Pages - c) * p
    BY <1>1, <1>2, <1>4, <1>5
  <2>2. (Pages - c) * p = Width - start
    BY <1>1, <1>2
  <2>3. QED
    BY <2>1, <2>2
<1>7. m \in Nat /\ m >= 1
  BY <1>2, <1>4
<1>8. start + m - 1 \in Word
  <2> HIDE DEF m
  <2>1. QED
    BY <1>2, <1>3, <1>6, <1>7 DEF Word
<1>9. start # 0 => n < Pages
  <2>1. start # 0 => c # 0
    BY <1>1, <1>2
  <2>2. QED
    BY <1>1, <1>2, <1>4, <1>5, <2>1
<1>10. start + m <= Width
  <2> HIDE DEF m
  <2>1. QED
    BY <1>2, <1>3, <1>6, <1>7
<1>11. At(start + m - 1) = start + m - 1
  BY <1>8, AtNear
<1>12. QED
  BY <1>4, <1>9, <1>10, <1>11

\* How many pages a region has is told by its end.
LEMMA PagesTold ==
  ASSUME NEW r, r.start \in Starts, NEW m \in Nat, HasPages(r, m)
  PROVE  Units(At(r.end - r.start + 1)) = m
<1> DEFINE p == PageSize
           w == m * p
           start == r.start
<1>1. p \in Nat /\ p > 1 /\ Pages \in Nat /\ Pages > 0 /\ Width = p * Pages /\ Width \in Nat /\ Width > 0
  BY PageNumbers
<1>2. m < Pages /\ start + w <= Width /\ r.end = At(start + w - 1)
  BY DEF HasPages
<1>3. start \in Nat /\ start < Width /\ start \in Word
  BY <1>1 DEF Starts, Word
<1>4. CASE m = 0
  <2>1. w = 0
    BY <1>1, <1>4
  <2>2. r.end = At(start - 1)
    BY <1>2, <1>3, <2>1
  <2>3. At(r.end - start + 1) = 0
    <3>1. CASE start = 0
      <4>1. Width - 1 \in Word
        BY <1>1 DEF Word
      <4>2. At(Width - 1 - Width) = Width - 1 /\ Width - 1 - Width = start - 1
        BY <1>1, <3>1, <4>1, AtNear
      <4>3. r.end = Width - 1
        BY <2>2, <4>2
      <4>4. 0 \in Word /\ r.end - start + 1 = 0 + Width
        BY <1>1, <3>1, <4>3 DEF Word
      <4>5. QED
        BY <4>4, AtNear
    <3>2. CASE start # 0
      <4>1. start - 1 \in Word
        BY <1>1, <1>3, <3>2 DEF Word
      <4>2. r.end = start - 1
        BY <2>2, <4>1, AtNear
      <4>3. 0 \in Word /\ r.end - start + 1 = 0
        BY <1>1, <1>3, <4>2 DEF Word
      <4>4. QED
        BY <4>3, AtNear
    <3>3. QED
      BY <3>1, <3>2
  <2>4. Units(0) \in Nat /\ Units(0) * p < 0 + p
    BY UnitsHold
  <2>5. Units(0) = 0
    <3> SUFFICES ASSUME Units(0) >= 1 PROVE FALSE
      BY <2>4
    <3>1. Units(0) * p >= 1 * p
      BY <1>1, <2>4
    <3>2. QED
      BY <1>1, <2>4, <3>1
  <2>6. QED
    BY <1>4, <2>3, <2>5
<1>5. CASE m # 0
  <2>1. w \in Nat /\ w >= 1
    BY <1>1, <1>5
  <2>2. w < Width
    <3>1. m <= Pages - 1 /\ Pages - 1 \in Nat
      BY <1>1, <1>2
    <3>2. m * p <= (Pages - 1) * p
      BY <1>1, <3>1
    <3>3. (Pages - 1) * p = Width - p
      BY <1>1
    <3>4. w <= Width - p
      BY <3>2, <3>3
    <3> HIDE DEF w, p
    <3>5. QED
      BY <1>1, <2>1, <3>4
  <2>3. Units(w) = m
    <3>1. p - 1 \in 0 .. p - 1 /\ p > 0
      BY <1>1
    <3>2. (m * p + (p - 1)) \div p = m
      BY <1>1, <3>1, ModIs
    <3>3. m * p + (p - 1) = w + p - 1
      BY <1>1, <2>1
    <3>4. QED
      BY <3>2, <3>3 DEF Units
  <2> HIDE DEF w
  <2>4. start + w - 1 \in Word /\ w \in Word
    BY <1>1, <1>2, <1>3, <2>1, <2>2 DEF Word
  <2>5. r.end = start + w - 1
    BY <1>2, <2>4, AtNear
  <2>6. At(r.end - start + 1) = w
    <3>1. r.end - start + 1 = w
      BY <1>3, <2>1, <2>5
    <3>2. QED
      BY <2>4, <3>1, AtNear
  <2>7. QED
    BY <2>3, <2>6
<1>6. QED
  BY <1>4, <1>5

LEMMA PageOwnChange ==
  ASSUME NEW R, NEW Q, NEW a \in DOMAIN R, DOMAIN Q = DOMAIN R, \A b \in DOMAIN R : b # a => Q[b] = R[b],
         R[a].ops = "anon", Q[a].ops = "anon", NEW E, PagesHeld(a, Q[a]) = PagesHeld(a, R[a]) \cup E
  PROVE  PageOwn(Q) = PageOwn(R) \cup E
<1> DEFINE O == [b \in DOMAIN R \ {a} |-> R[b]]
<1>1. /\ DOMAIN R = DOMAIN O \cup {a} /\ DOMAIN Q = DOMAIN O \cup {a} /\ a \notin Anonymous(O)
      /\ \A b \in DOMAIN O : b # a => R[b] = O[b]
      /\ \A b \in DOMAIN O : b # a => Q[b] = O[b]
  BY DEF Anonymous
<1> HIDE DEF O
<1>2. PageOwn(R) = PageOwn(O) \cup (IF R[a].ops = "anon" THEN PagesHeld(a, R[a]) ELSE {})
  BY <1>1, PageOwnInsert
<1>3. PageOwn(Q) = PageOwn(O) \cup (IF Q[a].ops = "anon" THEN PagesHeld(a, Q[a]) ELSE {})
  BY <1>1, PageOwnInsert
<1>4. QED
  BY <1>2, <1>3

LEMMA SameStands ==
  ASSUME NEW x, Standing(x), NEW y, Same(x, y)
  PROVE  Standing(y)
<1>1. Kernel \in AllSpaces
  BY DEF AllSpaces
<1>2. Sound(y)
  BY <1>1, SameSound DEF Standing
<1>3. QED
  BY <1>2 DEF Standing, Same

\* The new pages of a region that grows from m pages to n
NewPages(r, m, n) == {r.pages[o].phys : o \in m .. n - 1}
NewSlots(b, r, m, n) == {<<"page", b, o, r.pages[o].phys>> : o \in m .. n - 1}

\* q is r with more pages, which are its own.
Refills(r, q, m, n) ==
  /\ m \in Nat /\ n \in Nat /\ m <= n
  /\ DOMAIN r.pages = 0 .. m - 1 /\ DOMAIN q.pages = 0 .. n - 1
  /\ \A o \in 0 .. m - 1 : q.pages[o] = r.pages[o]
  /\ \A o, u \in m .. n - 1 : q.pages[o].phys = q.pages[u].phys => o = u

LEMMA NewSlotsAre ==
  ASSUME NEW r, NEW q, NEW b, NEW m, NEW n, Refills(r, q, m, n)
  PROVE  /\ PagesHeld(b, q) = PagesHeld(b, r) \cup NewSlots(b, q, m, n)
         /\ Tells(NewSlots(b, q, m, n), NewPages(q, m, n))
<1>0. /\ m \in Nat /\ n \in Nat /\ m <= n
      /\ DOMAIN r.pages = 0 .. m - 1 /\ DOMAIN q.pages = 0 .. n - 1
      /\ \A o \in 0 .. m - 1 : q.pages[o] = r.pages[o]
      /\ \A o, u \in m .. n - 1 : q.pages[o].phys = q.pages[u].phys => o = u
  BY DEF Refills
<1>1. \A o : o \in 0 .. n - 1 <=> o \in 0 .. m - 1 \/ o \in m .. n - 1
  BY <1>0
<1>2. PagesHeld(b, q) = PagesHeld(b, r) \cup NewSlots(b, q, m, n)
  <2> DEFINE I == 0 .. m - 1
             J == m .. n - 1
             K == 0 .. n - 1
             F(o) == <<"page", b, o, q.pages[o].phys>>
             G(o) == <<"page", b, o, r.pages[o].phys>>
  <2>1. PagesHeld(b, q) = {F(o) : o \in K} /\ PagesHeld(b, r) = {G(o) : o \in I}
        /\ NewSlots(b, q, m, n) = {F(o) : o \in J}
    BY <1>0 DEF PagesHeld, NewSlots
  <2>2. \A o \in I : F(o) = G(o)
    BY <1>0
  <2>3. \A o : o \in K <=> o \in I \/ o \in J
    BY <1>1
  <2> HIDE DEF I, J, K, F, G
  <2>4. QED
    BY <2>1, <2>2, <2>3
<1>3. Tells(NewSlots(b, q, m, n), NewPages(q, m, n))
  <2> DEFINE J == m .. n - 1
             f(o) == q.pages[o].phys
  <2>1. \A o, u \in J : f(o) = f(u) => o = u
    BY <1>0
  <2>2. NewSlots(b, q, m, n) = {<<"page", b, o, f(o)>> : o \in J} /\ NewPages(q, m, n) = {f(o) : o \in J}
    BY DEF NewSlots, NewPages
  <2> HIDE DEF J, f
  <2> DEFINE E == NewSlots(b, q, m, n)
             P == NewPages(q, m, n)
  <2>3. \A e \in E : \E o \in J : e[3] = o /\ e[4] = f(o) /\ e = <<"page", b, o, f(o)>>
    BY <2>2
  <2>4. \A o \in J : \E e \in E : e[4] = f(o)
    <3> SUFFICES ASSUME NEW o \in J PROVE <<"page", b, o, f(o)>> \in E
      OBVIOUS
    <3>1. QED
      BY <2>2
  <2>5. \A g : g \in P <=> \E o \in J : g = f(o)
    BY <2>2
  <2> HIDE DEF E, P
  <2>6. /\ \A e \in E : e[4] \in P
        /\ \A g \in P : \E e \in E : e[4] = g
    BY <2>3, <2>4, <2>5
  <2>7. \A e, d \in E : e[4] = d[4] => e = d
    BY <2>1, <2>3
  <2>8. Tells(E, P)
    BY <2>6, <2>7 DEF Tells
  <2>9. QED
    BY <2>8 DEF E, P
<1>4. QED
  BY <1>2, <1>3

\* y has pages m to n - 1 for a region that has m; nothing else has changed.
Grown(x, y, r, m, n) ==
  /\ Shape(y) /\ y.ret = 0 /\ y.failure = "none" /\ y.space = x.space
  /\ DOMAIN y.new = RegionFields
  /\ \A field \in RegionFields \ {"pages"} : y.new[field] = r[field]
  /\ DOMAIN y.new.pages = DOMAIN r.pages \cup (m .. n - 1)
  /\ \A o \in DOMAIN r.pages \ (m .. n - 1) : y.new.pages[o] = r.pages[o]
  /\ x.free \subseteq Frames =>
       /\ \A o \in m .. n - 1 : y.new.pages[o].phys \in x.free
       /\ \A o, u \in m .. n - 1 : y.new.pages[o].phys = y.new.pages[u].phys => o = u
       /\ \A f : f \in y.free <=> f \in x.free /\ \A o \in m .. n - 1 : y.new.pages[o].phys # f

LEMMA GotGrown ==
  ASSUME NEW x, NEW w, Same(x, w), Going(w), NEW m \in Nat, NEW n \in Nat, m < n,
         NEW y, Got(w, y, m, n - m), Going(y)
  PROVE  Grown(x, y, w.new, m, n)
<1>1. m .. m + (n - m) - 1 = m .. n - 1
  OBVIOUS
<1> DEFINE J == m .. n - 1
<1>2. m .. m + (n - m) - 1 = J
  BY <1>1
<1> HIDE DEF J
<1>3. w.ret = 0 /\ w.failure = "none" /\ y.failure = "none" /\ w.space = x.space /\ w.free = x.free
  BY DEF Going, Same
<1>4. Grown(x, y, w.new, m, n) <=>
  /\ Shape(y) /\ y.ret = 0 /\ y.failure = "none" /\ y.space = x.space
  /\ DOMAIN y.new = RegionFields
  /\ \A field \in RegionFields \ {"pages"} : y.new[field] = w.new[field]
  /\ DOMAIN y.new.pages = DOMAIN w.new.pages \cup J
  /\ \A o \in DOMAIN w.new.pages \ J : y.new.pages[o] = w.new.pages[o]
  /\ x.free \subseteq Frames =>
       /\ \A o \in J : y.new.pages[o].phys \in x.free
       /\ \A o, u \in J : y.new.pages[o].phys = y.new.pages[u].phys => o = u
       /\ \A f : f \in y.free <=> f \in x.free /\ \A o \in J : y.new.pages[o].phys # f
  BY DEF Grown, J
<1>5. /\ Shape(y) /\ y.ret = w.ret
      /\ y.space = w.space
      /\ DOMAIN y.new = RegionFields
      /\ \A field \in RegionFields \ {"pages"} : y.new[field] = w.new[field]
      /\ DOMAIN y.new.pages = DOMAIN w.new.pages \cup J
      /\ \A o \in DOMAIN w.new.pages \ J : y.new.pages[o] = w.new.pages[o]
      /\ w.free \subseteq Frames =>
            /\ \A o \in J : y.new.pages[o].phys \in w.free
            /\ \A o, q \in J : y.new.pages[o].phys = y.new.pages[q].phys => o = q
            /\ \A f : f \in y.free <=> f \in w.free /\ \A o \in J : y.new.pages[o].phys # f
  BY <1>2, <1>3 DEF Got
<1>6. QED
  BY <1>3, <1>4, <1>5

\* There is room for n pages at start.
Room(R, start, n) ==
  /\ n \in Nat /\ n >= 1 /\ start + n * PageSize <= Width
  /\ start # 0 => n < Pages
  /\ At(start + n * PageSize - 1) = start + n * PageSize - 1
  /\ \A c \in DOMAIN R : c > start => c >= start + n * PageSize

LEMMA StretchedDisjoint ==
  ASSUME NEW R, Disjoint(R), NEW start \in DOMAIN R, NEW q, RegionShape(q), q.start = start,
         \A c \in DOMAIN R : c > start => q.end < c,
         NEW Q, DOMAIN Q = DOMAIN R, Q[start] = q, \A b \in DOMAIN R : b # start => Q[b] = R[b]
  PROVE  Disjoint(Q)
<1>1. \A b \in DOMAIN Q : RegionShape(Q[b]) /\ Q[b].start = b
  BY DEF Disjoint
<1>2. ASSUME NEW b \in DOMAIN Q, NEW c \in DOMAIN Q, b < c PROVE Q[b].end < Q[c].start
  <2>1. Q[c].start = c /\ R[c].start = c
    BY <1>1 DEF Disjoint
  <2>2. CASE b = start
    BY <1>2, <2>1, <2>2
  <2>3. CASE b # start
    BY <1>2, <2>1, <2>3 DEF Disjoint
  <2>4. QED
    BY <2>2, <2>3
<1>3. QED
  BY <1>1, <1>2 DEF Disjoint

\* s has taken P for E.
Takes(s, x, z, P, E) ==
  /\ P \subseteq x.free /\ z.free = x.free \ P /\ Tells(E, P)
  /\ \A t \in AllSpaces \ {s} : z.space[t] = x.space[t]
  /\ z.space[s].dir = x.space[s].dir /\ z.space[s].tables = x.space[s].tables
  /\ PageOwn(z.space[s].regions) = PageOwn(x.space[s].regions) \cup E

LEMMA StretchedLedger ==
  ASSUME NEW s \in AllSpaces, NEW x, Ledger(x.free, {}, Holdings(x)), NEW z, NEW P, NEW E, Takes(s, x, z, P, E)
  PROVE  Ledger(z.free, {}, Holdings(z))
<1> DEFINE free == x.free
           own == Holdings(x)
           own2 == Holdings(z)
<1>1. Own(z.space[s]) = Own(x.space[s]) \cup E
  BY DEF Takes, Own, DirOwn, TableOwn, TablesIn
<1>2. own2[s] = own[s] \cup E /\ \A t \in AllSpaces : t # s => own2[t] = own[t]
  BY <1>1 DEF Holdings, Takes
<1>3. Ledger(free, {}, own) /\ P \subseteq free /\ Tells(E, P) /\ z.free = free \ P
  BY DEF Takes
<1> HIDE DEF free, own, own2
<1>4. Ledger(free \ P, P, own)
  BY <1>3, LedgerReserved
<1>5. Ledger(free \ P, {}, own2)
  BY <1>2, <1>3, <1>4, LedgerGiven
<1>6. QED
  BY <1>3, <1>5 DEF own2

\* A region with an address before the one messages are mapped in
LEMMA RoomIs ==
  ASSUME NEW R, Disjoint(R), NEW start \in DOMAIN R, NEW n, Room(R, start, n),
         NEW u \in DOMAIN R, u # start
  PROVE  n < Pages
<1> DEFINE p == n * PageSize
<1>1. PageSize \in Nat /\ PageSize > 1 /\ Pages \in Nat /\ Width \in Nat /\ Width = PageSize * Pages
  BY PageNumbers
<1>2. start \in Nat /\ u \in Nat /\ u < Width
  BY <1>1 DEF Disjoint, Starts
<1>3. n \in Nat /\ p \in Nat /\ (start # 0 => n < Pages) /\ (u > start => u >= start + p)
  BY <1>1 DEF Room
<1>4. CASE u < start
  BY <1>2, <1>3, <1>4
<1>5. CASE u > start
  <2>1. p < Width
    <3> HIDE DEF p
    <3>1. QED
      BY <1>1, <1>2, <1>3, <1>5
  <2>2. SUFFICES ASSUME n >= Pages PROVE FALSE
    BY <1>1, <1>3
  <2>3. n * PageSize >= Pages * PageSize
    BY <1>1, <1>3, <2>2
  <2>4. p >= Width
    BY <1>1, <2>3
  <2> HIDE DEF p
  <2>5. QED
    BY <1>1, <1>3, <2>1, <2>4
<1>6. QED
  BY <1>2, <1>4, <1>5

\* z is y with the region at start of s, which is x's but for the pages y made
\* for it, ended at a and put in its place.
Made(s, x, y, z, R, start, q, a) ==
  /\ q.pages = y.new.pages /\ q.end = a
  /\ DOMAIN q = RegionFields /\ \A field \in RegionFields \ {"pages", "end"} : q[field] = R[start][field]
  /\ Shape(z) /\ z.ret = 0 /\ z.failure = "none" /\ z.free = y.free
  /\ z.space[s].dir = x.space[s].dir /\ z.space[s].tables = x.space[s].tables
  /\ z.space[s].phase = x.space[s].phase
  /\ z.space[s].entry = x.space[s].entry /\ z.space[s].unmapped = x.space[s].unmapped
  /\ \A t \in AllSpaces \ {s} : z.space[t] = x.space[t]
  /\ DOMAIN z.space[s].regions = DOMAIN R /\ z.space[s].regions[start] = q
  /\ \A b \in DOMAIN R : b # start => z.space[s].regions[b] = R[b]

LEMMA GrownMade ==
  ASSUME NEW s \in AllSpaces, NEW x, NEW R, R = x.space[s].regions, NEW start \in DOMAIN R, NEW y, NEW m, NEW n,
         Grown(x, y, R[start], m, n), NEW a,
         NEW z, z = [y EXCEPT !.space[s].regions[start] = [y.new EXCEPT !.end = a]]
  PROVE  Made(s, x, y, z, R, start, [y.new EXCEPT !.end = a], a)
<1> DEFINE q == [y.new EXCEPT !.end = a]
<1>1. /\ Shape(y) /\ y.ret = 0 /\ y.failure = "none" /\ y.space = x.space
      /\ DOMAIN y.new = RegionFields
      /\ \A field \in RegionFields \ {"pages"} : y.new[field] = R[start][field]
  BY DEF Grown
<1>2. /\ DOMAIN q = RegionFields /\ q.pages = y.new.pages /\ q.end = a
      /\ \A field \in RegionFields \ {"pages", "end"} : q[field] = R[start][field]
  BY <1>1 DEF RegionFields
<1> HIDE DEF q
<1>3. z = [y EXCEPT !.space[s].regions[start] = q]
  BY DEF q
<1>4. /\ Shape(z) /\ z.ret = 0 /\ z.failure = "none" /\ z.free = y.free
      /\ z.space[s].dir = x.space[s].dir /\ z.space[s].tables = x.space[s].tables
      /\ z.space[s].phase = x.space[s].phase
      /\ z.space[s].entry = x.space[s].entry /\ z.space[s].unmapped = x.space[s].unmapped
      /\ \A t \in AllSpaces \ {s} : z.space[t] = x.space[t]
      /\ z.space[s].regions = [R EXCEPT ![start] = q]
  BY <1>1, <1>3 DEF Shape, SpaceShape, Fields, SpaceFields
<1>5. /\ DOMAIN z.space[s].regions = DOMAIN R /\ z.space[s].regions[start] = q
      /\ \A b \in DOMAIN R : b # start => z.space[s].regions[b] = R[b]
  BY <1>4
<1>6. QED
  BY <1>2, <1>4, <1>5 DEF Made, q

\* A region of anonymous pages that has grown in its place
LEMMA GrownStands ==
  ASSUME NEW s \in AllSpaces, NEW x, Standing(x), x.failure = "none", x.space[s].phase = "ready",
         NEW R, R = x.space[s].regions, NEW start \in DOMAIN R, NEW r, r = R[start], r.ops = "anon",
         NEW n, Room(R, start, n), NEW m \in Nat, m < n, SegmentsFit => DOMAIN r.pages = 0 .. m - 1,
         NEW y, Grown(x, y, r, m, n),
         NEW q, NEW z, NEW a, a = At(start + n * PageSize - 1), Made(s, x, y, z, R, start, q, a)
  PROVE  Awaits(s, x, z, start)
<1> DEFINE Q == z.space[s].regions
           u == UserVremap.start
<1>1. Sound(x) /\ Disjoint(R) /\ Settled(x.space[s])
  BY DEF Standing, Sound
<1>2. RegionShape(r) /\ r.start = start /\ start \in Starts
  BY <1>1 DEF Disjoint
<1>3. n \in Nat /\ n \in Int
  BY DEF Room
<1>6. a \in Word /\ (a + 1) % PageSize = 0
  BY <1>2, <1>3, PagesOn
<1>7. \A c \in DOMAIN R : c > start => a < c
  <2> DEFINE p == n * PageSize
  <2>1. start \in Nat /\ \A c \in DOMAIN R : c \in Nat
    BY <1>1, PageNumbers, SMTT(30) DEF Disjoint, Starts
  <2>2. PageSize \in Nat
    BY PageNumbers
  <2>3. p \in Nat
    BY <1>3, <2>2
  <2>4. a = start + p - 1 /\ \A c \in DOMAIN R : c > start => c >= start + p
    BY DEF Room
  <2> HIDE DEF p
  <2>5. QED
    BY <2>1, <2>3, <2>4
<1>8. /\ DOMAIN q = RegionFields /\ q.pages = y.new.pages /\ q.end = a
      /\ q.start = r.start /\ q.type = r.type /\ q.ops = r.ops /\ q.role = r.role
  BY DEF Made, RegionFields
<1>9. RegionShape(q)
  BY <1>2, <1>6, <1>8 DEF RegionShape
<1>10. /\ Shape(z) /\ z.ret = 0 /\ z.failure = "none" /\ z.free = y.free
       /\ z.space[s].dir = x.space[s].dir /\ z.space[s].tables = x.space[s].tables
       /\ z.space[s].phase = "ready"
       /\ z.space[s].entry = x.space[s].entry /\ z.space[s].unmapped = x.space[s].unmapped
       /\ \A t \in AllSpaces \ {s} : z.space[t] = x.space[t]
  BY DEF Made
<1>11. DOMAIN Q = DOMAIN R /\ Q[start] = q /\ \A b \in DOMAIN R : b # start => Q[b] = R[b]
  BY DEF Made
<1> HIDE DEF Q
<1>12. Disjoint(Q)
  <2>1. \A c \in DOMAIN R : c > start => q.end < c
    BY <1>7, <1>8
  <2>2. q.start = start
    BY <1>2, <1>8
  <2>3. QED
    BY <1>1, <1>9, <1>11, <2>1, <2>2, StretchedDisjoint
<1>13. u \in DOMAIN R /\ R[u].ops = "vremap" /\ R[u].type = "PAGEMAP" /\ R[u].start <= R[u].end /\ u # start
       /\ R[u].end = LastOf(UserVremap)
  BY <1>1 DEF Settled, Fitted, Receives
<1> HIDE DEF u
<1>14. ASSUME SegmentsFit PROVE (\A b \in DOMAIN Q : Sized(Q[b])) /\ Ledger(z.free, {}, Holdings(z))
  <2>1. \A b \in DOMAIN R : Sized(R[b])
    BY <1>1, <1>14 DEF Sound
  <2>2. r.type = "PAGEMAP" /\ DOMAIN r.pages = 0 .. m - 1
    BY <1>14, <2>1 DEF Sized
  <2>3. DOMAIN q.pages = 0 .. n - 1 /\ \A o \in 0 .. m - 1 : q.pages[o] = r.pages[o]
    <3>1. (0 .. m - 1) \cup (m .. n - 1) = 0 .. n - 1 /\ \A o \in 0 .. m - 1 : o \notin m .. n - 1
      BY <1>3
    <3>2. DOMAIN y.new.pages = DOMAIN r.pages \cup (m .. n - 1)
          /\ \A o \in DOMAIN r.pages \ (m .. n - 1) : y.new.pages[o] = r.pages[o]
      BY DEF Grown
    <3>3. QED
      BY <1>8, <2>2, <3>1, <3>2
  <2>4. Sized(q)
    <3>1. n < Pages
      BY <1>1, <1>13, RoomIs
    <3>2. start + n * PageSize <= Width
      BY DEF Room
    <3>3. HasPages(q, n)
      BY <1>2, <1>8, <2>3, <3>1, <3>2 DEF HasPages
    <3>4. QED
      BY <1>3, <1>8, <2>2, <3>3 DEF Sized
  <2>5. \A b \in DOMAIN Q : Sized(Q[b])
    BY <1>11, <2>1, <2>4
  <2>6. Ledger(x.free, {}, Holdings(x))
    BY <1>1, <1>14 DEF Sound, Booked
  <2>7. x.free \subseteq Frames
    BY <2>6 DEF Ledger
  <2>8. /\ \A o \in m .. n - 1 : q.pages[o].phys \in x.free
        /\ \A o, v \in m .. n - 1 : q.pages[o].phys = q.pages[v].phys => o = v
        /\ \A f : f \in z.free <=> f \in x.free /\ \A o \in m .. n - 1 : q.pages[o].phys # f
    BY <1>8, <1>10, <2>7 DEF Grown
  <2> DEFINE P == NewPages(q, m, n)
             E == NewSlots(start, q, m, n)
  <2>9. m <= n
    BY <1>3
  <2>10. PagesHeld(start, q) = PagesHeld(start, r) \cup E /\ Tells(E, P)
    <3>1. Refills(r, q, m, n)
      BY <1>3, <2>2, <2>3, <2>8, <2>9 DEF Refills
    <3>2. QED
      BY <3>1, NewSlotsAre
  <2>11. P \subseteq x.free /\ z.free = x.free \ P
    BY <2>8 DEF NewPages
  <2> HIDE DEF P, E
  <2>12. PageOwn(Q) = PageOwn(R) \cup E
    <3>1. DOMAIN Q = DOMAIN R /\ (\A b \in DOMAIN R : b # start => Q[b] = R[b])
      BY <1>11
    <3>2. R[start].ops = "anon" /\ Q[start].ops = "anon"
      BY <1>8, <1>11
    <3>3. PagesHeld(start, Q[start]) = PagesHeld(start, R[start]) \cup E
      BY <1>11, <2>10
    <3>4. start \in DOMAIN R
      OBVIOUS
    <3>5. QED
      BY ONLY <3>1, <3>2, <3>3, <3>4, PageOwnChange
  <2>13. Ledger(z.free, {}, Holdings(z))
    <3>1. Takes(s, x, z, P, E)
      BY <1>10, <2>10, <2>11, <2>12 DEF Takes, Q
    <3>2. QED
      BY <2>6, <3>1, StretchedLedger
  <2>14. QED
    BY <2>5, <2>13
<1>15. Sound(z)
  <2>1. \A t \in AllSpaces : Disjoint(z.space[t].regions)
    BY <1>1, <1>10, <1>12 DEF Sound, Q
  <2>2. SegmentsFit => \A t \in AllSpaces : \A b \in DOMAIN z.space[t].regions : Sized(z.space[t].regions[b])
    BY <1>1, <1>10, <1>14 DEF Sound, Q
  <2>3. QED
    BY <1>10, <1>14, <2>1, <2>2 DEF Sound, Booked
<1>16. Fitted(z.space[s])
  <2>1. u \in DOMAIN Q /\ Q[u] = R[u]
    BY <1>11, <1>13
  <2>2. SegmentsFit => z.space[s].dir # 0
    BY <1>1, <1>10 DEF Settled, Fitted
  <2>3. QED
    BY <1>10, <1>13, <2>1, <2>2 DEF Fitted, Receives, u, Q
<1>17. ASSUME SegmentsFit PROVE Joined(R, Q, start, q)
  <2>1. q.type # "RANGEMAP" /\ Sized(q)
    BY <1>8, <1>11, <1>14, <1>17 DEF Sized
  <2>2. DOMAIN r.pages \subseteq DOMAIN q.pages
    BY <1>8 DEF Grown
  <2>3. Within(q)
    BY <1>9, <2>1, SizedWithin
  <2>4. \A p \in PageNumber : Backs(r, p) => Backs(q, p)
    BY <1>8, <1>9, <2>1, <2>2, <2>3, MoreBacks
  <2>5. QED
    BY <1>11, <2>4 DEF Joined
<1>18. QED
  BY <1>10, <1>11, <1>15, <1>16, <1>17 DEF Awaits, Going, Q

\* What the region to the right of start says of all the others
LEMMA PastIs ==
  ASSUME NEW R, DOMAIN R \subseteq Nat, NEW start \in Nat, NEW e \in Int,
         ~(\E b \in {b \in DOMAIN R : b > start /\ \A c \in DOMAIN R : c > start => c >= b} : b < e)
  PROVE  \A c \in DOMAIN R : c > start => c >= e
<1> DEFINE S == DOMAIN R
<1>1. S \in SUBSET Nat /\ start + 1 \in Nat
  OBVIOUS
<1>2. SUFFICES ASSUME NEW c \in S, c > start PROVE c >= e
  OBVIOUS
<1> HIDE DEF S
<1>3. c >= start + 1 /\ c \in Nat
  BY <1>1, <1>2
<1>4. \E m \in S : m >= start + 1 /\ \A b \in S : b >= start + 1 => b >= m
  BY <1>1, <1>2, <1>3, NearestAbove
<1>5. PICK m \in S : m >= start + 1 /\ \A b \in S : b >= start + 1 => b >= m
  BY <1>4
<1>6. m \in Nat /\ m > start /\ \A b \in S : b > start => b >= m
  BY <1>1, <1>5
<1>7. ~(m < e)
  BY <1>5, <1>6 DEF S
<1>8. c >= m
  BY <1>2, <1>6
<1>9. QED
  BY <1>3, <1>6, <1>7, <1>8

LEMMA GotReturns ==
  ASSUME NEW x, NEW y, NEW from, NEW m, Got(x, y, from, m)
  PROVE  Shape(y) /\ y.ret = x.ret
BY DEF Got

LEMMA ResizeStands ==
  ASSUME NEW s \in AllSpaces, NEW x, Standing(x), Going(x), x.space[s].phase = "ready",
         NEW R, R = x.space[s].regions, NEW start \in DOMAIN R, NEW r, r = R[start], r.ops = "anon",
         NEW a \in Word, NEW n, n = Units(a - start), NEW m, m = Units(At(r.end - r.start + 1)), n # m
  PROVE  LET z == Resize(x, s, start, n) IN
         IF Going(z) THEN Awaits(s, x, z, start) ELSE Standing(z)
<1> DEFINE past == {b \in DOMAIN R : b > start /\ \A c \in DOMAIN R : c > start => c >= b}
           x1 == [x EXCEPT !.new = r]
           w == [x1 EXCEPT !.new = r]
           v == AllocColored(w, m, n - m)
           y == IF n = m THEN x1 ELSE IF n < m THEN [x1 EXCEPT !.ret = -1] ELSE v
           e == At(start + n * PageSize - 1)
           q == [y.new EXCEPT !.end = e]
           t == [y EXCEPT !.space[s].regions[start] = q]
           z == Resize(x, s, start, n)
           no == [x EXCEPT !.ret = -1]
           left == At(start + n * PageSize) < start
           over == \E b \in past : b < start + n * PageSize
<1>1. z = CASE left -> no [] over -> no [] OTHER -> IF Going(y) THEN t ELSE y
  BY DEF Resize, AnonResize, Then
<1>2. Sound(x) /\ Shape(x) /\ Disjoint(R) /\ x.failure = "none" /\ x.ret = 0
  BY DEF Standing, Sound, Going
<1>3. RegionShape(r) /\ r.start = start /\ start \in Starts
  BY <1>2 DEF Disjoint
<1>4. Same(x, no) /\ no.ret = -1
  BY <1>2 DEF Same, Shape, Fields
<1>5. Standing(no) /\ ~Going(no)
  BY <1>4, SameStands DEF Going
<1>6. Same(x, x1) /\ x1.new = r /\ x1.ret = 0 /\ x1.failure = "none"
  BY <1>2 DEF Same, Shape, Fields
<1>7. Same(x, w) /\ w.new = r /\ w.ret = 0 /\ w.failure = "none"
  BY <1>2 DEF Same, Shape, Fields
<1>8. Same(x, [x1 EXCEPT !.ret = -1]) /\ [x1 EXCEPT !.ret = -1].ret = -1
  BY <1>2 DEF Same, Shape, Fields
<1>9. m \in Nat /\ n \in Int /\ start \in Nat /\ DOMAIN R \subseteq Nat
  <2>1. r.end \in Int /\ start \in Nat /\ DOMAIN R \subseteq Nat
    <3>1. r.end \in Word /\ DOMAIN R \subseteq Starts
      BY <1>2, <1>3 DEF RegionShape, Disjoint
    <3>2. QED
      BY <1>3, <3>1, StartIs, WordsAre
  <2>2. At(r.end - r.start + 1) \in Nat
    BY <1>3, <2>1, PageNumbers, WordsAre
  <2>3. a - start \in Int
    BY <2>1, WordsAre
  <2>4. QED
    BY <2>1, <2>2, <2>3, UnitsNat, UnitsBound
<1> HIDE DEF w, no, left
<1>10. CASE left \/ over
  <2> HIDE DEF y, t, z, over
  <2>1. z = no
    BY <1>1, <1>10
  <2>2. QED
    BY <1>5, <2>1 DEF z
<1>11. CASE ~left /\ ~over
  <2>1. z = IF Going(y) THEN t ELSE y
    <3> HIDE DEF y, t, z, over
    <3>1. QED
      BY <1>1, <1>11
  <2>2. CASE n < m
    <3>1. y = [x1 EXCEPT !.ret = -1]
      BY <1>9, <2>2
    <3> HIDE DEF y, z, x1
    <3>2. Standing(y) /\ ~Going(y)
      BY <1>8, <3>1, SameStands DEF Going
    <3>3. z = y
      BY <2>1, <3>2
    <3>4. QED
      BY <3>2, <3>3 DEF z
  <2>3. CASE ~(n < m)
    <3>1. n \in Nat /\ m < n /\ n >= 1 /\ n - m \in Nat
      BY <1>9, <2>3
    <3>2. y = v
      BY <2>3
    <3> HIDE DEF y, z
    <3>3. Got(w, v, m, n - m)
      <4>1. Shape(w) /\ Going(w) /\ DOMAIN w.new = RegionFields
        BY <1>3, <1>7 DEF Same, Going, RegionShape
      <4>2. QED
        BY <1>9, <3>1, <4>1, AllocColoredGot
    <3> HIDE DEF v
    <3>4. CASE ~Going(v)
      <4>1. Shape(v) /\ v.failure # "none"
        BY <1>7, <3>3, <3>4, GotReturns DEF Going
      <4>2. Standing(v)
        BY <4>1 DEF Standing, Sound, Booked
      <4>3. z = v
        BY <2>1, <3>2, <3>4
      <4>4. QED
        BY <3>4, <4>2, <4>3 DEF z
    <3>5. CASE Going(v)
      <4>1. Grown(x, v, r, m, n)
        BY <1>7, <1>9, <3>1, <3>3, <3>5, GotGrown, Zenon DEF Going
      <4>2. /\ start + n * PageSize <= Width
            /\ At(start + n * PageSize - 1) = start + n * PageSize - 1
            /\ start # 0 => n < Pages
        BY <1>3, <3>1, GrownIs
      <4>3. start + n * PageSize \in Int
        BY <1>9, PageNumbers
      <4>4. \A c \in DOMAIN R : c > start => c >= start + n * PageSize
        <5> DEFINE d == start + n * PageSize
        <5>1. d \in Int /\ ~(\E b \in past : b < d)
          BY <1>11, <4>3
        <5> HIDE DEF d
        <5>2. \A c \in DOMAIN R : c > start => c >= d
          BY <1>9, <5>1, PastIs
        <5>3. QED
          BY <5>2 DEF d
      <4>5. Room(R, start, n)
        BY <3>1, <4>2, <4>4 DEF Room
      <4>6. SegmentsFit => DOMAIN r.pages = 0 .. m - 1
        <5> SUFFICES ASSUME SegmentsFit PROVE DOMAIN r.pages = 0 .. m - 1
          OBVIOUS
        <5>1. Sized(r)
          BY <1>2 DEF Sound
        <5>2. PICK j \in Nat : HasPages(r, j)
          BY <5>1 DEF Sized
        <5>3. Units(At(r.end - r.start + 1)) = j
          BY <1>3, <5>2, PagesTold
        <5>4. QED
          BY <5>2, <5>3 DEF HasPages
      <4>7. z = [v EXCEPT !.space[s].regions[start] = [v.new EXCEPT !.end = e]]
        BY <2>1, <3>2, <3>5
      <4>8. Made(s, x, v, z, R, start, [v.new EXCEPT !.end = e], e)
        BY <4>1, <4>7, GrownMade
      <4>9. Awaits(s, x, z, start)
        <5> DEFINE qq == [v.new EXCEPT !.end = e]
        <5>1. Made(s, x, v, z, R, start, qq, e) /\ e = At(start + n * PageSize - 1)
          BY <4>8
        <5> HIDE DEF qq, e
        <5>2. QED
          BY <1>2, <1>9, <3>1, <4>1, <4>5, <4>6, <5>1, GrownStands, Zenon
      <4>10. QED
        BY <4>9 DEF z, Awaits
    <3>6. QED
      BY <3>4, <3>5
  <2>4. QED
    BY <2>2, <2>3
<1>12. QED
  BY <1>10, <1>11

LEMMA BrkInv ==
  ASSUME IInv, NEW s \in Spaces, NEW a \in Word, NEW mem, Brk(s, a, mem)
  PROVE  IInv'
<1> DEFINE x == [k EXCEPT !.mem = mem]
           R == k.space[s].regions
           start == DataRegion(R)
           n == Units(a - start)
           z == Resize(x, s, start, n)
           y == IF Going(z) THEN UpdateRegion(z, s, z.space[s].regions[start]) ELSE z
<1>0. s \in AllSpaces
  BY DEF AllSpaces
<1>1. /\ k.failure = "none" /\ k.space[s].phase = "ready" /\ DataRegions(R) # {}
      /\ n # Units(At(R[start].end - start + 1))
      /\ k' = Done(y)
  BY Zenon DEF Brk, Ready, Running, Then
<1>2. Standing(x) /\ Sound(x) /\ Going(x) /\ x.space = k.space
  BY <1>1, CallBegins
<1>3. Disjoint(R)
  BY <1>0 DEF IInv
<1>4. start \in DataRegions(R)
  <2>1. DataRegions(R) \in SUBSET Nat
    BY <1>3, PageNumbers DEF Disjoint, DataRegions, Starts
  <2>2. \E b \in DataRegions(R) : \A c \in DataRegions(R) : b <= c
    BY <1>1, <2>1, Least
  <2> HIDE DEF R
  <2>3. QED
    BY <2>2 DEF DataRegion
<1> HIDE DEF x, start
<1>5. start \in DOMAIN R /\ R[start].ops = "anon" /\ R[start].start = start
  BY <1>3, <1>4 DEF DataRegions, Disjoint, RegionShape
<1>6. IF Going(z) THEN Awaits(s, x, z, start) ELSE Standing(z)
  <2> DEFINE r == R[start]
             m == Units(At(r.end - r.start + 1))
  <2>1. R = x.space[s].regions /\ r = R[start] /\ r.ops = "anon" /\ n # m /\ x.space[s].phase = "ready"
    BY <1>1, <1>2, <1>5
  <2>2. start \in DOMAIN R /\ m = Units(At(r.end - r.start + 1)) /\ n = Units(a - start)
    BY <1>5
  <2> HIDE DEF R, r, m, n
  <2>3. QED
    BY <1>0, <1>2, <2>1, <2>2, ResizeStands
<1> HIDE DEF z
<1>7. Standing(y)
  <2>1. CASE Going(z)
    <3>1. Standing(UpdateRegion(z, s, z.space[s].regions[start]))
      BY <1>0, <1>2, <1>6, <2>1, UpdateStands DEF Going
    <3>2. QED
      BY <2>1, <3>1
  <2>2. CASE ~Going(z)
    BY <1>6, <2>2
  <2>3. QED
    BY <2>1, <2>2
<1> HIDE DEF y
<1>8. QED
  BY <1>1, <1>7, DoneInv

-----------------------------------------------------------------------------
(* Every call keeps the invariant.                                          *)

LEMMA NextInv ==
  ASSUME IInv, [Next]_k
  PROVE  IInv'
<1>1. CASE UNCHANGED k
  BY <1>1 DEF IInv, Shape, Standing, Sound, Booked, Holdings
<1>2. ASSUME NEW mem \in 0 .. Heap, KernelStart(mem) PROVE IInv'
  BY <1>2, KernelStartInv
<1>3. ASSUME NEW s \in Spaces, NEW exe \in Executables[s], NEW mem \in 0 .. Heap, Start(s, exe, mem) PROVE IInv'
  BY <1>3, StartInv
<1>4. ASSUME NEW s \in Spaces, NEW a \in 0 .. Width - 1, NEW mem \in {0, Heap}, Brk(s, a, mem) PROVE IInv'
  BY <1>4, BrkInv DEF Word
<1>5. ASSUME NEW s \in Spaces, NEW offset \in 0 .. Pages - 1, NEW f \in Foreign, MapMessage(s, offset, f) PROVE IInv'
  BY <1>5, PageNumberIs, MapMessageInv DEF PageNumber
<1>6. ASSUME NEW s \in Spaces, NEW a \in 0 .. Width - 1, Fault(s, a) PROVE IInv'
  BY <1>6, FaultInv
<1>7. ASSUME NEW s \in Spaces, Exit(s) PROVE IInv'
  BY <1>7, ExitInv
<1>8. QED
  BY <1>1, <1>2, <1>3, <1>4, <1>5, <1>6, <1>7 DEF Next

THEOREM SpacesAlwaysStand == Spec => []IInv
<1>1. Init => IInv
  BY InitInv
<1>2. IInv /\ [Next]_k => IInv'
  BY NextInv
<1>3. QED
  BY <1>1, <1>2, PTL DEF Spec

\* No two regions of a space share an address, whatever the machine, the
\* executables and the order of the calls: vm_space_add_region looks for the
\* region to the left and the one to the right, and vm_region_resize for the
\* one that follows.
THEOREM RegionsAlwaysDisjoint == Spec => []RegionsDisjoint
<1>1. IInv => RegionsDisjoint
  BY DEF IInv, RegionsDisjoint, Disjoint
<1>2. QED
  BY <1>1, SpacesAlwaysStand, PTL

-----------------------------------------------------------------------------
(* The ledger counts.                                                       *)

SlotsOf(R) == {e \in (DOMAIN R) \X (0 .. Pages - 1) : R[e[1]].ops = "anon" /\ e[2] \in DOMAIN R[e[1]].pages}
AllOf(sp) ==
  {sp.dir} \cup {sp.tables[g] : g \in TablesIn(sp)}
    \cup {sp.regions[e[1]].pages[e[2]].phys : e \in SlotsOf(sp.regions)}

LEMMA ImageCount ==
  ASSUME NEW S, IsFiniteSet(S), NEW f, DOMAIN f = S, \A x, y \in S : f[x] = f[y] => x = y,
         NEW T, T = {f[x] : x \in S}
  PROVE  IsFiniteSet(T) /\ Cardinality(T) = Cardinality(S)
<1> DEFINE g == [x \in S |-> f[x]]
<1>1. g \in [S -> T]
  OBVIOUS
<1>2. g \in Bijection(S, T)
  <2>1. g \in Injection(S, T)
    BY <1>1 DEF Injection, IsInjective
  <2>2. g \in Surjection(S, T)
    BY <1>1 DEF Surjection
  <2>3. QED
    BY <2>1, <2>2 DEF Bijection
<1>3. ExistsBijection(S, T)
  BY <1>2 DEF ExistsBijection
<1>4. QED
  BY <1>3, FS_Bijection

LEMMA SlotIs ==
  ASSUME NEW R, \A b \in DOMAIN R : Sized(R[b]), NEW b \in Anonymous(R), NEW o \in DOMAIN R[b].pages
  PROVE  <<b, o>> \in SlotsOf(R)
<1>1. R[b].ops = "anon" /\ b \in DOMAIN R
  BY DEF Anonymous
<1>2. PICK n \in Nat : HasPages(R[b], n)
  BY <1>1 DEF Sized
<1>3. DOMAIN R[b].pages = 0 .. n - 1 /\ n < Pages /\ Pages \in Nat
  BY <1>2, PageNumbers DEF HasPages
<1>4. o \in 0 .. Pages - 1
  BY <1>3
<1>5. QED
  BY <1>1, <1>4 DEF SlotsOf

LEMMA AllAre ==
  ASSUME NEW sp, sp.dir # 0, \A b \in DOMAIN sp.regions : Sized(sp.regions[b]), NEW f
  PROVE  f \in AllOf(sp) <=> \E e \in Own(sp) : e[4] = f
<1> DEFINE R == sp.regions
           slot(e) == <<"page", e[1], e[2], R[e[1]].pages[e[2]].phys>>
<1>1. ASSUME f = sp.dir PROVE \E e \in Own(sp) : e[4] = f
  <2>1. <<"dir", 0, 0, sp.dir>> \in Own(sp)
    BY DEF Own, DirOwn
  <2>2. <<"dir", 0, 0, sp.dir>>[4] = f
    BY <1>1
  <2>3. QED
    BY <2>1, <2>2
<1>2. ASSUME NEW g \in TablesIn(sp), f = sp.tables[g] PROVE \E e \in Own(sp) : e[4] = f
  <2>1. <<"table", g, 0, sp.tables[g]>> \in Own(sp)
    BY DEF Own, TableOwn
  <2>2. <<"table", g, 0, sp.tables[g]>>[4] = f
    BY <1>2
  <2>3. QED
    BY <2>1, <2>2
<1>3. ASSUME NEW e \in SlotsOf(R), f = R[e[1]].pages[e[2]].phys PROVE \E d \in Own(sp) : d[4] = f
  <2>1. e[1] \in Anonymous(R) /\ e[2] \in DOMAIN R[e[1]].pages
    BY DEF SlotsOf, Anonymous
  <2>2. slot(e) \in PagesHeld(e[1], R[e[1]])
    BY <2>1 DEF PagesHeld
  <2>3. slot(e) \in PageOwn(R)
    BY <2>1, <2>2 DEF PageOwn
  <2>4. slot(e)[4] = f
    BY <1>3
  <2> HIDE DEF slot
  <2>5. QED
    BY <2>3, <2>4 DEF Own
<1>4. ASSUME NEW e \in DirOwn(sp), e[4] = f PROVE f = sp.dir
  BY <1>4 DEF DirOwn
<1>5. ASSUME NEW e \in TableOwn(sp), e[4] = f PROVE \E g \in TablesIn(sp) : f = sp.tables[g]
  BY <1>5 DEF TableOwn
<1>6. ASSUME NEW e \in PageOwn(R), e[4] = f
      PROVE \E d \in SlotsOf(R) : f = R[d[1]].pages[d[2]].phys
  <2>1. PICK b \in Anonymous(R) : e \in PagesHeld(b, R[b])
    BY <1>6 DEF PageOwn
  <2>2. PICK o \in DOMAIN R[b].pages : e = <<"page", b, o, R[b].pages[o].phys>>
    BY <2>1 DEF PagesHeld
  <2>3. <<b, o>> \in SlotsOf(R)
    BY SlotIs
  <2>4. <<b, o>>[1] = b /\ <<b, o>>[2] = o /\ f = R[b].pages[o].phys
    BY <1>6, <2>2
  <2>5. QED
    BY <2>3, <2>4
<1>7. QED
  BY <1>1, <1>2, <1>3, <1>4, <1>5, <1>6 DEF AllOf, Own

LEMMA AllCount ==
  ASSUME NEW sp, SpaceShape(sp), sp.dir # 0, DOMAIN sp.regions \subseteq Starts,
         \A b \in DOMAIN sp.regions : Sized(sp.regions[b]),
         \A e, d \in Own(sp) : e[4] = d[4] => e = d
  PROVE  Cardinality(AllOf(sp)) = 1 + Cardinality(TablesIn(sp)) + Cardinality(SlotsOf(sp.regions))
<1> DEFINE R == sp.regions
           G == TablesIn(sp)
           S == SlotsOf(R)
           D == {sp.dir}
           A == {sp.tables[g] : g \in G}
           B == {R[e[1]].pages[e[2]].phys : e \in S}
           table(g) == <<"table", g, 0, sp.tables[g]>>
           page(e) == <<"page", e[1], e[2], R[e[1]].pages[e[2]].phys>>
           dir == <<"dir", 0, 0, sp.dir>>
<1>1. \A g \in G : table(g) \in Own(sp) /\ table(g)[4] = sp.tables[g] /\ table(g)[1] = "table" /\ table(g)[2] = g
  BY DEF Own, TableOwn
<1>2. \A e \in S : /\ page(e) \in Own(sp) /\ page(e)[4] = R[e[1]].pages[e[2]].phys
                   /\ page(e)[1] = "page" /\ page(e)[2] = e[1] /\ page(e)[3] = e[2]
  <2> SUFFICES ASSUME NEW e \in S PROVE page(e) \in Own(sp)
    OBVIOUS
  <2>1. e[1] \in Anonymous(R) /\ e[2] \in DOMAIN R[e[1]].pages
    BY DEF SlotsOf, Anonymous
  <2>2. page(e) \in PagesHeld(e[1], R[e[1]])
    BY <2>1 DEF PagesHeld
  <2>3. page(e) \in PageOwn(R)
    BY <2>1, <2>2 DEF PageOwn
  <2> HIDE DEF page
  <2>4. QED
    BY <2>3 DEF Own
<1>3. dir \in Own(sp) /\ dir[4] = sp.dir /\ dir[1] = "dir"
  BY DEF Own, DirOwn
<1>4. \A e \in S : e = <<e[1], e[2]>>
  BY DEF SlotsOf
<1> HIDE DEF table, page, dir
<1>5. D \cap A = {} /\ (D \cup A) \cap B = {}
  <2>1. ASSUME NEW g \in G PROVE sp.tables[g] # sp.dir
    BY <1>1, <1>3
  <2>2. ASSUME NEW e \in S PROVE R[e[1]].pages[e[2]].phys # sp.dir
    BY <1>2, <1>3
  <2>3. ASSUME NEW e \in S, NEW g \in G PROVE R[e[1]].pages[e[2]].phys # sp.tables[g]
    BY <1>1, <1>2
  <2> HIDE DEF G, S
  <2>4. QED
    BY <2>1, <2>2, <2>3
<1>6. \A g, h \in G : sp.tables[g] = sp.tables[h] => g = h
  BY <1>1
<1>7. \A e, d \in S : R[e[1]].pages[e[2]].phys = R[d[1]].pages[d[2]].phys => e = d
  <2> SUFFICES ASSUME NEW e \in S, NEW d \in S, R[e[1]].pages[e[2]].phys = R[d[1]].pages[d[2]].phys
               PROVE  e = d
    OBVIOUS
  <2>1. page(e) = page(d)
    BY <1>2
  <2>2. e[1] = d[1] /\ e[2] = d[2]
    BY <1>2, <2>1
  <2>3. QED
    BY <1>4, <2>2
<1>8. IsFiniteSet(G)
  <2>1. (Pages - 1) \div PagesPerTable \in Int
    BY MachineAssumption
  <2>2. IsFiniteSet(TableIndices)
    BY <2>1, FS_Interval DEF TableIndices
  <2>3. G \in SUBSET TableIndices
    BY DEF TablesIn, SpaceShape
  <2>4. QED
    BY <2>2, <2>3, FS_Subset
<1>9. IsFiniteSet(S)
  <2>1. Width - 1 \in Int /\ Pages - 1 \in Int
    BY PageNumbers
  <2>2. IsFiniteSet(0 .. Width - 1) /\ IsFiniteSet(0 .. Pages - 1)
    BY <2>1, FS_Interval
  <2>3. DOMAIN R \in SUBSET (0 .. Width - 1)
    BY DEF Starts
  <2>4. IsFiniteSet(DOMAIN R)
    BY <2>2, <2>3, FS_Subset
  <2>5. IsFiniteSet((DOMAIN R) \X (0 .. Pages - 1))
    BY <2>2, <2>4, FS_Product
  <2>6. S \in SUBSET ((DOMAIN R) \X (0 .. Pages - 1))
    BY DEF SlotsOf
  <2>7. QED
    BY <2>5, <2>6, FS_Subset
<1>10. IsFiniteSet(A) /\ Cardinality(A) = Cardinality(G)
  <2> DEFINE f == [g \in G |-> sp.tables[g]]
  <2>1. DOMAIN f = G /\ (\A g, h \in G : f[g] = f[h] => g = h) /\ A = {f[g] : g \in G}
    BY <1>6
  <2> HIDE DEF f, G, A
  <2>2. QED
    BY <1>8, <2>1, ImageCount
<1>11. IsFiniteSet(B) /\ Cardinality(B) = Cardinality(S)
  <2> DEFINE f == [e \in S |-> R[e[1]].pages[e[2]].phys]
  <2>1. DOMAIN f = S /\ (\A e, d \in S : f[e] = f[d] => e = d) /\ B = {f[e] : e \in S}
    BY <1>7
  <2> HIDE DEF f, S, B
  <2>2. QED
    BY <1>9, <2>1, ImageCount
<1>12. IsFiniteSet(D) /\ Cardinality(D) = 1
  BY FS_Singleton
<1>13. AllOf(sp) = (D \cup A) \cup B
  BY DEF AllOf
<1>14. Cardinality(A) \in Nat /\ Cardinality(B) \in Nat
  BY <1>10, <1>11, FS_CardinalityType, Zenon
<1> HIDE DEF D, A, B, G, S
<1>15. IsFiniteSet(D \cup A) /\ Cardinality(D \cup A) = 1 + Cardinality(A) - Cardinality(D \cap A)
  BY <1>10, <1>12, FS_Union
<1>16. Cardinality((D \cup A) \cup B) = Cardinality(D \cup A) + Cardinality(B) - Cardinality((D \cup A) \cap B)
  BY <1>11, <1>15, FS_Union
<1>17. Cardinality({}) = 0
  BY FS_EmptySet
<1>18. Cardinality(D \cap A) = 0 /\ Cardinality((D \cup A) \cap B) = 0
  BY <1>5, <1>17
<1>19. Cardinality(D \cup A) = 1 + Cardinality(A)
  BY <1>14, <1>15, <1>18
<1>20. Cardinality(AllOf(sp)) = 1 + Cardinality(A) + Cardinality(B)
  BY <1>13, <1>14, <1>16, <1>18, <1>19
<1>21. QED
  BY <1>10, <1>11, <1>20 DEF G, S

\* A space in use holds as many frames as it owns tables and pages, and one.
LEMMA SpaceExact ==
  ASSUME Shape(k), Standing(k), k.failure = "none", SegmentsFit, NEW s \in AllSpaces, Used(s)
  PROVE  /\ Cardinality(AllOf(k.space[s]))
              = 1 + Cardinality(TablesIn(k.space[s])) + Cardinality(SlotsOf(k.space[s].regions))
         /\ \A f : f \in AllOf(k.space[s]) <=> \E e \in Own(k.space[s]) : e[4] = f
<1> DEFINE sp == k.space[s]
<1>1. SpaceShape(sp) /\ DOMAIN sp.regions \subseteq Starts
  BY DEF Shape, Standing, Sound, Disjoint
<1>2. sp.dir # 0
  BY DEF Standing, Settled, Fitted, Used
<1>3. \A b \in DOMAIN sp.regions : Sized(sp.regions[b])
  BY DEF Standing, Sound
<1>4. Ledger(k.free, {}, Holdings(k))
  BY DEF Standing, Sound, Booked
<1>5. \A e, d \in Own(sp) : e[4] = d[4] => e = d
  <2>1. Holdings(k)[s] = Own(sp)
    BY DEF Holdings
  <2>2. QED
    BY <1>4, <2>1 DEF Ledger
<1> HIDE DEF sp
<1>6. Cardinality(AllOf(sp)) = 1 + Cardinality(TablesIn(sp)) + Cardinality(SlotsOf(sp.regions))
  BY <1>1, <1>2, <1>3, <1>5, AllCount
<1>7. \A f : f \in AllOf(sp) <=> \E e \in Own(sp) : e[4] = f
  BY <1>2, <1>3, AllAre
<1>8. QED
  BY <1>6, <1>7 DEF sp

LEMMA UnusedHolds ==
  ASSUME Standing(k), k.failure = "none", NEW s \in AllSpaces, ~Used(s)
  PROVE  Own(k.space[s]) = {}
<1>1. k.space[s] = NoSpace
  BY DEF Standing, Settled, Fitted, Used
<1>2. QED
  BY <1>1, NoSpaceIs

LEMMA StandingExact ==
  ASSUME IInv, SegmentsFit
  PROVE  FramesExact
<1> SUFFICES ASSUME k.failure = "none" PROVE FramesExact
  BY Zenon DEF FramesExact
<1>1. Shape(k) /\ Standing(k)
  BY DEF IInv
<1> DEFINE all(s) == AllOf(k.space[s])
<1>2. \A s \in AllSpaces : Holdings(k)[s] = Own(k.space[s])
  BY DEF Holdings
<1>3. Ledger(k.free, {}, Holdings(k))
  BY <1>1 DEF Standing, Sound, Booked
<1>4. \A s \in AllSpaces : Used(s) => \A f : f \in all(s) <=> \E e \in Own(k.space[s]) : e[4] = f
  BY <1>1, SpaceExact
<1>5. \A s \in AllSpaces : Used(s) =>
        Cardinality(all(s)) = 1 + Cardinality(TablesIn(k.space[s])) + Cardinality(SlotsOf(k.space[s].regions))
  BY <1>1, SpaceExact
<1>6. \A s \in AllSpaces : ~Used(s) => Own(k.space[s]) = {}
  BY <1>1, UnusedHolds
<1> HIDE DEF all
<1>7. \A s \in AllSpaces : Used(s) => all(s) \cap k.free = {}
  <2> SUFFICES ASSUME NEW s \in AllSpaces, Used(s), NEW f \in all(s) PROVE f \notin k.free
    OBVIOUS
  <2>1. PICK e \in Own(k.space[s]) : e[4] = f
    BY <1>4
  <2>2. QED
    BY <1>2, <1>3, <2>1 DEF Ledger
<1>8. \A s, t \in AllSpaces : s # t /\ Used(s) /\ Used(t) => all(s) \cap all(t) = {}
  <2> SUFFICES ASSUME NEW s \in AllSpaces, NEW t \in AllSpaces, s # t, Used(s), Used(t),
                      NEW f, f \in all(s), f \in all(t)
               PROVE  FALSE
    OBVIOUS
  <2>1. PICK e \in Own(k.space[s]) : e[4] = f
    BY <1>4
  <2>2. PICK d \in Own(k.space[t]) : d[4] = f
    BY <1>4
  <2>3. QED
    BY <1>2, <1>3, <2>1, <2>2 DEF Ledger
<1>9. k.free \cup UNION {all(s) : s \in {t \in AllSpaces : Used(t)}} = Frames
  <2>1. ASSUME NEW f \in Frames, f \notin k.free
        PROVE  \E s \in {t \in AllSpaces : Used(t)} : f \in all(s)
    <3>1. PICK s \in AllSpaces : \E e \in Own(k.space[s]) : e[4] = f
      BY <1>2, <1>3, <2>1 DEF Ledger
    <3>2. Used(s)
      BY <1>6, <3>1
    <3>3. QED
      BY <1>4, <3>1, <3>2
  <2>2. ASSUME NEW s \in AllSpaces, Used(s), NEW f \in all(s) PROVE f \in Frames
    <3>1. PICK e \in Own(k.space[s]) : e[4] = f
      BY <1>4, <2>2
    <3>2. QED
      BY <1>2, <1>3, <3>1 DEF Ledger
  <2>3. k.free \subseteq Frames
    BY <1>3 DEF Ledger
  <2>4. QED
    BY <2>1, <2>2, <2>3
<1>10. QED
  BY <1>5, <1>7, <1>8, <1>9, Zenon DEF FramesExact, all, AllOf, TablesIn, SlotsOf

\* Every page of the machine is free or has one owner, for every machine whose
\* executables have their segments end within the address space: what
\* vm_space_destroy, the failed constructions of vm_space_load_from_exec, a
\* heap that grows by brk and mm_register_region take and give back adds up.
THEOREM FramesAlwaysExact == SegmentsFit => (Spec => []FramesExact)
<1> SUFFICES ASSUME SegmentsFit PROVE Spec => []FramesExact
  OBVIOUS
<1>1. IInv => FramesExact
  BY StandingExact
<1>2. QED
  BY <1>1, SpacesAlwaysStand, PTL

-----------------------------------------------------------------------------
(* The page tables are what the regions say.                                *)

\* The region to the left of an address is the only one that can have it.
LEMMA HitIs ==
  ASSUME NEW R, Disjoint(R), NEW p \in PageNumber
  PROVE  FindRegion(R, p * PageSize) = {b \in DOMAIN R : R[b].start <= p * PageSize /\ p * PageSize <= R[b].end}
<1> DEFINE v == p * PageSize
<1>1. v \in Int
  BY PageNumberIs, PageNumbers
<1>2. \A b \in DOMAIN R : b \in Int /\ R[b].start = b /\ R[b].end \in Int
  BY StartIs, WordsAre DEF Disjoint, RegionShape
<1>3. \A b, c \in DOMAIN R : b < c => R[b].end < c
  BY DEF Disjoint
<1> HIDE DEF v
<1>4. ASSUME NEW b \in DOMAIN R, b <= v, v <= R[b].end
      PROVE  b \in Leftwards(R, v)
  <2>1. ASSUME NEW c \in DOMAIN R, c <= v PROVE c <= b
    BY <1>1, <1>2, <1>3, <1>4, <2>1
  <2>2. QED
    BY <1>4, <2>1 DEF Leftwards
<1>5. FindRegion(R, v) = {b \in DOMAIN R : R[b].start <= v /\ v <= R[b].end}
  BY <1>2, <1>4 DEF FindRegion, Leftwards
<1>6. QED
  BY <1>5 DEF v

LEMMA StandingAgrees ==
  ASSUME IInv, SegmentsFit
  PROVE  TablesAgree
<1> SUFFICES ASSUME k.failure = "none", NEW s \in AllSpaces, ~k.space[s].unmapped, NEW p \in 0 .. Pages - 1
             PROVE  LET R == k.space[s].regions
                        off(b) == p - b \div PageSize
                        here == {b \in FindRegion(R, p * PageSize) :
                                   R[b].type = "RANGEMAP" \/ off(b) \in DOMAIN R[b].pages}
                        e == k.space[s].entry[p]
                    IN IF here = {} THEN ~e.present
                       ELSE \A b \in here :
                              /\ e.present => k.space[s].tables[p \div PagesPerTable] # 0
                              /\ e = IF R[b].type = "RANGEMAP"
                                      THEN [phys |-> R[b].phys + off(b), present |-> TRUE]
                                      ELSE R[b].pages[off(b)]
  BY Zenon DEF TablesAgree
<1> DEFINE R == k.space[s].regions
           off(b) == p - b \div PageSize
           here == {b \in FindRegion(R, p * PageSize) :
                      R[b].type = "RANGEMAP" \/ off(b) \in DOMAIN R[b].pages}
           e == k.space[s].entry[p]
<1>1. Disjoint(R) /\ Agrees(k.space[s]) /\ p \in PageNumber
  BY DEF IInv, Standing, Settled, Tabled, PageNumber
<1>2. \A b \in DOMAIN R : R[b].start = b /\ Offset(R[b], p) = off(b)
  BY <1>1 DEF Disjoint, Offset
<1>3. here = {b \in DOMAIN R : Backs(R[b], p)}
  <2>1. FindRegion(R, p * PageSize) = {b \in DOMAIN R : R[b].start <= p * PageSize /\ p * PageSize <= R[b].end}
    BY <1>1, HitIs
  <2> HIDE DEF R, off
  <2>2. QED
    BY <1>2, <2>1 DEF Backs
<1>4. \A b \in here : /\ k.space[s].tables[p \div PagesPerTable] # 0
                       /\ e = IF R[b].type = "RANGEMAP" THEN [phys |-> R[b].phys + off(b), present |-> TRUE]
                              ELSE R[b].pages[off(b)]
  <2> SUFFICES ASSUME NEW b \in here
               PROVE  /\ k.space[s].tables[p \div PagesPerTable] # 0
                      /\ e = IF R[b].type = "RANGEMAP" THEN [phys |-> R[b].phys + off(b), present |-> TRUE]
                             ELSE R[b].pages[off(b)]
    OBVIOUS
  <2>1. b \in DOMAIN R /\ Backs(R[b], p) /\ Offset(R[b], p) = off(b)
    BY <1>2, <1>3
  <2>2. e = Wanted(R[b], p) /\ k.space[s].tables[p \div PagesPerTable] # 0
    BY <1>1, <2>1 DEF Agrees
  <2> HIDE DEF R, off, here, e
  <2>3. QED
    BY <2>1, <2>2 DEF Wanted
<1>5. here = {} => ~e.present
  <2>1. here = {} => e = NoEntry
    BY <1>1, <1>3 DEF Agrees
  <2>2. QED
    BY <2>1 DEF NoEntry
<1> HIDE DEF here, e
<1>6. QED
  BY <1>4, <1>5 DEF here, e

\* A page is present in the page tables of a space exactly where one of its
\* regions has it, at the same physical page, whatever was loaded, mapped and
\* grown, as long as the page tables themselves could be had: vm_update_region
\* after every change of a region keeps x86_pagedir_map_range's entries what
\* the regions are.  It needs the files' segments to end within the address
\* space.
THEOREM TablesAlwaysAgree == SegmentsFit => (Spec => []TablesAgree)
<1> SUFFICES ASSUME SegmentsFit PROVE Spec => []TablesAgree
  OBVIOUS
<1>1. IInv => TablesAgree
  BY StandingAgrees
<1>2. QED
  BY <1>1, SpacesAlwaysStand, PTL
=============================================================================
