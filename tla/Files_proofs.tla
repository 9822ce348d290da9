----------------------------- MODULE Files_proofs -----------------------------
(***************************************************************************)
(* Handles of open files, for any number of tasks, requests and slots.     *)
(***************************************************************************)
EXTENDS MCFiles, FiniteSetTheorems, SequenceTheorems,
        WellFoundedInduction, TLAPS

\* NULL is neither a number nor the record of a handle or of a message.
NullApart ==
  /\ NULL \notin Nat /\ DOMAIN NULL # {"owner", "file", "ptr"}
  /\ DOMAIN NULL # {"sender", "msg_size", "data", "size", "of"}

\* A sequence, whatever its elements are.
IsSeq(s) == s \in Seq({s[i] : i \in DOMAIN s})

Handle(h) == DOMAIN h = {"owner", "file", "ptr"} /\ h.owner \in Owners
Leads(list, c, hid) ==
  /\ hid \in Nat /\ hid + 1 \in DOMAIN list
  /\ list[hid + 1] # NULL /\ list[hid + 1].owner = c
Sent(m) == "sender" \in DOMAIN m /\ m.sender \in Owners

ListInv == IsSeq(openfile) /\ \A i \in DOMAIN openfile : openfile[i] = NULL \/ Handle(openfile[i])
ToldInv ==
  /\ told = [c \in Owners |-> told[c]]
  /\ \A c \in Owners : \A hid \in told[c] : Leads(openfile, c, hid)
TreeInv == \E n \in 1..11 : tree = {Created[i] : i \in 1..n}

\* What is on the way to the server and back.
AnswerTo(c, m) == m.handle = NULL \/ Leads(openfile, c, m.handle)
MailInv ==
  /\ queue = [t \in Tasks |-> queue[t]] /\ pc = [t \in Tasks |-> pc[t]]
  /\ \A t \in Tasks : IsSeq(queue[t])
  /\ \A c \in Owners : \A i \in DOMAIN queue[c] : AnswerTo(c, queue[c][i])
  /\ \A i \in DOMAIN queue[Fs] : Sent(queue[Fs][i])
  /\ msg # NULL \/ pc[Fs] = "serve" => Sent(msg)

\* Handles that were told or will be lead to their owner.
TalkInv == ListInv /\ ToldInv /\ MailInv

FilesInv ==
  /\ TalkInv /\ TreeInv
  /\ part \in {"table", "clients"}
  /\ part = "table" => TableExact /\ queue = [t \in Tasks |-> <<>>]

-----------------------------------------------------------------------------
(* Sequences.                                                               *)

LEMMA Listed ==
  ASSUME NEW n \in Nat, NEW s, s = [i \in 1..n |-> s[i]]
  PROVE  IsSeq(s) /\ Len(s) = n /\ DOMAIN s = 1..n
<1> DEFINE R == {s[i] : i \in DOMAIN s}
<1>1. DOMAIN s = 1..n
  OBVIOUS
<1>2. s \in [1..n -> R]
  BY <1>1
<1> HIDE DEF R
<1>3. s \in Seq(R) /\ Len(s) = n
  BY <1>2
<1>4. QED
  BY <1>1, <1>3 DEF IsSeq, R

LEMMA Shape ==
  ASSUME NEW s, IsSeq(s)
  PROVE  Len(s) \in Nat /\ DOMAIN s = 1..Len(s) /\ s = [i \in 1..Len(s) |-> s[i]]
<1> DEFINE R == {s[i] : i \in DOMAIN s}
<1>1. s \in Seq(R)
  BY DEF IsSeq
<1> HIDE DEF R
<1>2. QED
  BY <1>1

LEMMA Longer ==
  ASSUME NEW s, IsSeq(s), NEW m
  PROVE  LET r == Append(s, m) IN
         /\ IsSeq(r)
         /\ \A i \in DOMAIN r : r[i] = m \/ \E j \in DOMAIN s : r[i] = s[j]
<1> DEFINE R == {s[i] : i \in DOMAIN s}
           T == R \cup {m}
           r == Append(s, m)
<1>1. s \in Seq(T) /\ m \in T
  <2>1. s \in Seq(R)
    BY DEF IsSeq
  <2> HIDE DEF R
  <2>2. QED
    BY <2>1
<1> HIDE DEF T
<1>2. /\ Len(s) \in Nat /\ DOMAIN s = 1..Len(s)
      /\ r \in Seq(T) /\ Len(r) = Len(s) + 1 /\ DOMAIN r = 1..(Len(s) + 1)
      /\ \A i \in 1..Len(s) : r[i] = s[i]
      /\ r[Len(s) + 1] = m
  BY <1>1, AppendProperties
<1> HIDE DEF r
<1>3. IsSeq(r)
  <2>1. r = [i \in 1..(Len(s) + 1) |-> r[i]]
    BY <1>2
  <2>2. QED
    BY <1>2, <2>1, Listed
<1>4. ASSUME NEW i \in DOMAIN r PROVE r[i] = m \/ \E j \in DOMAIN s : r[i] = s[j]
  <2>1. CASE i = Len(s) + 1
    BY <1>2, <2>1
  <2>2. CASE i # Len(s) + 1
    <3>1. i \in 1..Len(s)
      BY <1>2, <2>2
    <3>2. QED
      BY <1>2, <3>1
  <2>3. QED
    BY <2>1, <2>2
<1>5. QED
  BY <1>3, <1>4 DEF r

LEMMA Shorter ==
  ASSUME NEW s, IsSeq(s), s # <<>>
  PROVE  /\ IsSeq(Tail(s)) /\ 1 \in DOMAIN s /\ Head(s) = s[1]
         /\ \A i \in DOMAIN Tail(s) : \E j \in DOMAIN s : Tail(s)[i] = s[j]
<1> DEFINE R == {s[i] : i \in DOMAIN s}
           r == Tail(s)
<1>1. s \in Seq(R)
  BY DEF IsSeq
<1> HIDE DEF R
<1>2. /\ Len(s) \in Nat /\ DOMAIN s = 1..Len(s) /\ Len(s) # 0 /\ Head(s) = s[1]
      /\ r \in Seq(R) /\ Len(r) = Len(s) - 1 /\ DOMAIN r = 1..(Len(s) - 1)
      /\ \A i \in 1..(Len(s) - 1) : r[i] = s[i + 1]
  BY <1>1, HeadTailProperties, EmptySeq
<1> HIDE DEF r
<1>3. IsSeq(r)
  <2>1. r = [i \in 1..(Len(s) - 1) |-> r[i]] /\ Len(s) - 1 \in Nat
    BY <1>2
  <2>2. QED
    BY <2>1, Listed
<1>4. ASSUME NEW i \in DOMAIN r PROVE \E j \in DOMAIN s : r[i] = s[j]
  <2>1. i + 1 \in DOMAIN s /\ r[i] = s[i + 1]
    BY <1>2
  <2>2. QED
    BY <2>1
<1>5. QED
  BY <1>2, <1>3, <1>4 DEF r

-----------------------------------------------------------------------------
(* What the server does to its table.                                       *)

\* ptr_list_append_check finds a slot that is free or makes one.
LEMMA SlotIsFree ==
  ASSUME NEW list, IsSeq(list)
  PROVE  /\ FreeSlot(list) \in 1..(Len(list) + 1)
         /\ FreeSlot(list) \in DOMAIN list => list[FreeSlot(list)] = NULL
<1>1. Len(list) \in Nat /\ DOMAIN list = 1..Len(list)
  BY Shape
<1> DEFINE S == {i \in DOMAIN list : list[i] = NULL}
           R == OpToRel(<, Nat)
<1>2. CASE S = {}
  <2>1. FreeSlot(list) = Len(list) + 1
    BY <1>2 DEF FreeSlot
  <2>2. QED
    BY <1>1, <2>1
<1>3. CASE S # {}
  <2>1. S \in SUBSET Nat /\ S \in SUBSET (1..Len(list))
    BY <1>1
  <2>2. \E m \in S : \A n \in S : <<n, m>> \notin R
    <3>1. IsWellFoundedOn(R, Nat)
      BY NatLessThanWellFounded
    <3> HIDE DEF R, S
    <3>2. QED
      BY <1>3, <2>1, <3>1, WFMin
  <2>3. \A n \in S, m \in S : n < m => <<n, m>> \in R
    BY <2>1 DEF OpToRel
  <2> HIDE DEF R
  <2>4. PICK m \in S : \A n \in S : ~(n < m)
    BY <2>2, <2>3
  <2>5. m \in DOMAIN list /\ list[m] = NULL /\ \A j \in 1..(m - 1) : list[j] # NULL
    <3>1. ASSUME NEW j \in 1..(m - 1) PROVE list[j] # NULL
      <4>1. j \in DOMAIN list /\ j < m
        BY <1>1, <2>1
      <4>2. QED
        BY <2>4, <4>1
    <3>2. QED
      BY <3>1
  <2>6. /\ \E i \in DOMAIN list : list[i] = NULL
        /\ \E i \in DOMAIN list : list[i] = NULL /\ \A j \in 1..(i - 1) : list[j] # NULL
    BY <2>5
  <2>7. FreeSlot(list) \in DOMAIN list /\ list[FreeSlot(list)] = NULL
    BY <2>6 DEF FreeSlot
  <2>8. QED
    BY <1>1, <2>7
<1>4. QED
  BY <1>2, <1>3

\* fs_file_open: other handles stay, and the answer leads to the new one.
LEMMA Opened ==
  ASSUME NullApart, ListInv, NEW c \in Owners, NEW path, NEW a \in Opens(c, path)
  PROVE  /\ IsSeq(a.list) /\ \A i \in DOMAIN a.list : a.list[i] = NULL \/ Handle(a.list[i])
         /\ \A d, hid : Leads(openfile, d, hid) => Leads(a.list, d, hid)
         /\ a.handle = NULL \/ Leads(a.list, c, a.handle)
         /\ \A i \in DOMAIN a.list :
              \/ i \in DOMAIN openfile /\ a.list[i] = openfile[i]
              \/ /\ a.handle = i - 1 /\ a.handle # NULL /\ Namei(path).error = "none"
                 /\ a.list[i] = [owner |-> c, file |-> Namei(path).file, ptr |-> 0]
         /\ \A i \in DOMAIN openfile :
              openfile[i] # NULL => i \in DOMAIN a.list /\ a.list[i] = openfile[i]
         /\ a.handle # NULL => /\ Namei(path).error = "none"
                              /\ a.list[a.handle + 1].file = Namei(path).file
         /\ a.error = "ENOTDIR" => Namei(path).error = "ENOTDIR"
<1> DEFINE slot   == FreeSlot(openfile)
           new    == [owner |-> c, file |-> Namei(path).file, ptr |-> 0]
           n      == IF slot > Len(openfile) THEN slot ELSE Len(openfile)
           grown  == [i \in 1..n |-> IF i = slot THEN new ELSE openfile[i]]
<1>1. IsSeq(openfile) /\ \A i \in DOMAIN openfile : openfile[i] = NULL \/ Handle(openfile[i])
  BY DEF ListInv
<1>2. Len(openfile) \in Nat /\ DOMAIN openfile = 1..Len(openfile)
  BY <1>1, Shape
<1>3. slot \in 1..(Len(openfile) + 1) /\ (slot \in DOMAIN openfile => openfile[slot] = NULL)
  BY <1>1, SlotIsFree
<1>4. \/ /\ a.list = openfile /\ a.handle = NULL
         /\ a.error = "ENOTDIR" => Namei(path).error = "ENOTDIR"
      \/ /\ a.list = grown /\ a.handle = slot - 1 /\ Namei(path).error = "none"
         /\ a.error = "none"
  <2> DEFINE refused(e) == [list |-> openfile, error |-> e, handle |-> NULL]
             opened     == [list |-> grown, error |-> "none", handle |-> slot - 1]
  <2>1. CASE Namei(path).error # "none"
    <3>1. a = refused(Namei(path).error)
      BY <2>1 DEF Opens
    <3>2. QED
      BY <3>1
  <2>2. CASE Namei(path).error = "none"
    <3>1. a \in {refused("ENOENT")} \cup IF slot > MaxOpen THEN {refused("ENOMEM")} ELSE {opened}
      BY <2>2 DEF Opens
    <3> HIDE DEF grown, slot
    <3>2. a = refused("ENOENT") \/ a = refused("ENOMEM") \/ a = opened
      BY <3>1
    <3>3. QED
      BY <2>2, <3>2
  <2>3. QED
    BY <2>1, <2>2
<1>5. CASE /\ a.list = openfile /\ a.handle = NULL
           /\ a.error = "ENOTDIR" => Namei(path).error = "ENOTDIR"
  BY <1>1, <1>5
<1>6. CASE /\ a.list = grown /\ a.handle = slot - 1 /\ Namei(path).error = "none"
           /\ a.error = "none"
  <2> HIDE DEF slot
  <2>1. /\ n \in Nat /\ slot \in 1..n /\ \A i \in DOMAIN openfile : i \in 1..n
        /\ \A i \in 1..n : i # slot => i \in DOMAIN openfile
    BY <1>2, <1>3
  <2>2. new.owner = c /\ Handle(new) /\ new # NULL
    BY DEF Handle, NullApart
  <2> HIDE DEF n, new
  <2>3. /\ DOMAIN grown = 1..n /\ grown = [i \in 1..n |-> grown[i]]
        /\ grown[slot] = new /\ \A i \in 1..n : i # slot => grown[i] = openfile[i]
    BY <2>1
  <2> HIDE DEF grown
  <2>4. IsSeq(grown)
    BY <2>1, <2>3, Listed
  <2>5. \A i \in DOMAIN grown : grown[i] = NULL \/ Handle(grown[i])
    BY <1>1, <2>1, <2>2, <2>3
  <2>6. \A d, hid : Leads(openfile, d, hid) => Leads(grown, d, hid)
    BY <1>3, <2>1, <2>3 DEF Leads
  <2>7. slot - 1 \in Nat /\ (slot - 1) + 1 = slot /\ slot - 1 # NULL
    BY <1>2, <1>3 DEF NullApart
  <2>8. Leads(grown, c, slot - 1)
    BY <2>1, <2>2, <2>3, <2>7 DEF Leads
  <2>9. \A i \in DOMAIN grown :
              \/ i \in DOMAIN openfile /\ grown[i] = openfile[i]
              \/ slot - 1 = i - 1 /\ grown[i] = new
    BY <2>1, <2>3
  <2>10. \A i \in DOMAIN openfile : openfile[i] # NULL => i \in DOMAIN grown /\ grown[i] = openfile[i]
    BY <1>3, <2>1, <2>3
  <2>11. grown[(slot - 1) + 1].file = Namei(path).file
    BY <2>3, <2>7 DEF new
  <2>12. QED
    BY <1>6, <2>4, <2>5, <2>6, <2>7, <2>8, <2>9, <2>10, <2>11 DEF new
<1>7. QED
  BY <1>4, <1>5, <1>6

\* memfs_namei finds files of the tree only.
LEMMA NameiInTree ==
  ASSUME TreeInv, NEW path, NEW S, path.names \in Seq(S), Namei(path).error = "none"
  PROVE  Namei(path).file \in tree
<1> DEFINE names == path.names
           wrong == {i \in 1..Len(names) :
                       \/ SubSeq(names, 1, i) \notin tree
                       \/ /\ i < Len(names) \/ path.trailing
                          /\ SubSeq(names, 1, i) \notin Dirs}
<1>1. wrong = {} /\ Namei(path).file = names
  BY DEF Namei, Found, Error
<1>2. Len(names) \in Nat
  OBVIOUS
<1>3. CASE Len(names) = 0
  <2>1. names = <<>>
    BY <1>3, EmptySeq
  <2>2. Created[1] = <<>> /\ Created[1] \in tree
    <3>1. PICK n \in 1..11 : tree = {Created[i] : i \in 1..n}
      BY DEF TreeInv
    <3>2. 1 \in 1..n
      OBVIOUS
    <3>3. Created[1] \in tree
      BY <3>1, <3>2
    <3>4. QED
      BY <3>3 DEF Created
  <2>3. QED
    BY <1>1, <2>1, <2>2
<1>4. CASE Len(names) # 0
  <2>1. Len(names) \in 1..Len(names)
    BY <1>2, <1>4
  <2>2. SubSeq(names, 1, Len(names)) \in tree
    BY <1>1, <2>1
  <2>3. SubSeq(names, 1, Len(names)) = names
    <3>1. /\ SubSeq(names, 1, Len(names)) \in Seq(S)
          /\ Len(SubSeq(names, 1, Len(names))) = Len(names)
          /\ \A i \in 1..Len(names) : SubSeq(names, 1, Len(names))[i] = names[i]
      <4>1. \A i \in 1..Len(names) : names[i] \in S
        OBVIOUS
      <4> HIDE DEF names
      <4>2. /\ SubSeq(names, 1, Len(names)) \in Seq(S)
            /\ Len(SubSeq(names, 1, Len(names))) = Len(names) - 1 + 1
            /\ \A i \in 1..(Len(names) - 1 + 1) : SubSeq(names, 1, Len(names))[i] = names[1 + i - 1]
        BY <1>2, <2>1, <4>1, SubSeqProperties
      <4>3. QED
        BY <1>2, <4>2
    <3>2. names \in Seq(S)
      OBVIOUS
    <3> HIDE DEF names
    <3>3. QED
      BY <1>2, <3>1, <3>2, SeqEqual
  <2>4. QED
    BY <1>1, <2>2, <2>3
<1>5. QED
  BY <1>3, <1>4

-----------------------------------------------------------------------------
(* The operations of the table.                                             *)

LEMMA SizeIsNat ==
  ASSUME TreeInv, NEW file PROVE MaxSize(file) \in Nat
<1>1. IsFiniteSet(tree)
  <2>1. PICK n \in 1..11 : tree = {Created[i] : i \in 1..n}
    BY DEF TreeInv
  <2> DEFINE f == [i \in 1..n |-> Created[i]]
  <2>2. IsFiniteSet(1..n)
    BY FS_Interval
  <2>3. f \in Surjection(1..n, tree)
    BY <2>1 DEF Surjection
  <2> HIDE DEF f
  <2>4. QED
    BY <2>2, <2>3, FS_Surjection
<1> DEFINE S == {f \in tree : f # <<>> /\ Front(f) = file}
<1>2. Cardinality(S) \in Nat
  <2>1. S \in SUBSET tree
    OBVIOUS
  <2> HIDE DEF S
  <2>2. QED
    BY <1>1, <2>1, FS_Subset, FS_CardinalityType
<1>3. QED
  BY <1>2 DEF MaxSize

\* mf_handle_from_hid finds the handles that lead to their owner.
LEMMA FromHid ==
  ASSUME ListInv, NEW c \in Owners, NEW hid \in Nat
  PROVE  /\ HandleFromHid(c, hid) # NULL <=> Leads(openfile, c, hid)
         /\ HandleFromHid(c, hid) # NULL => HandleFromHid(c, hid) = openfile[hid + 1]
<1>1. Len(openfile) \in Nat /\ DOMAIN openfile = 1..Len(openfile)
  BY Shape DEF ListInv
<1>2. hid + 1 \in DOMAIN openfile <=> ~(hid >= Len(openfile))
  BY <1>1
<1>3. QED
  BY <1>2 DEF HandleFromHid, Leads

LEMMA OpenInTable ==
  ASSUME NullApart, ListInv, ToldInv, TreeInv, TableExact,
         NEW c \in Owners, NEW path, NEW S, path.names \in Seq(S), FileOpen(c, path)
  PROVE  ListInv' /\ ToldInv' /\ TableExact'
<1>1. PICK a \in Opens(c, path) :
        /\ openfile' = a.list
        /\ told' = IF a.handle = NULL THEN told
                   ELSE [told EXCEPT ![c] = @ \cup {a.handle}]
  BY DEF FileOpen
<1>2. /\ IsSeq(openfile') /\ \A i \in DOMAIN openfile' : openfile'[i] = NULL \/ Handle(openfile'[i])
      /\ \A d, hid : Leads(openfile, d, hid) => Leads(openfile', d, hid)
      /\ a.handle = NULL \/ Leads(openfile', c, a.handle)
      /\ \A i \in DOMAIN openfile' :
           \/ i \in DOMAIN openfile /\ openfile'[i] = openfile[i]
           \/ /\ a.handle = i - 1 /\ a.handle # NULL /\ Namei(path).error = "none"
              /\ openfile'[i] = [owner |-> c, file |-> Namei(path).file, ptr |-> 0]
  BY <1>1, Opened
<1>3. tree' = tree
  BY DEF FileOpen
<1>4. /\ told' = [d \in Owners |-> told'[d]]
      /\ \A d \in Owners : \A hid \in told'[d] : hid \in told[d] \/ (d = c /\ hid = a.handle /\ a.handle # NULL)
      /\ \A d \in Owners : told[d] \subseteq told'[d]
      /\ a.handle # NULL => a.handle \in told'[c]
  BY <1>1 DEF ToldInv
<1>5. ListInv'
  BY <1>2 DEF ListInv
<1>6. ToldInv'
  BY <1>2, <1>4 DEF ToldInv
<1>7. TableExact'
  <2> SUFFICES ASSUME NEW i \in DOMAIN openfile', openfile'[i] # NULL
               PROVE  /\ i - 1 \in told'[openfile'[i].owner]
                      /\ openfile'[i].file \in tree
                      /\ openfile'[i].ptr \in 0..MaxSize(openfile'[i].file)
    BY <1>3 DEF TableExact, MaxSize
  <2>1. CASE i \in DOMAIN openfile /\ openfile'[i] = openfile[i]
    <3>1. openfile[i].owner \in Owners
      BY <1>2, <2>1 DEF Handle
    <3>2. QED
      BY <1>4, <2>1, <3>1 DEF TableExact
  <2>2. CASE /\ a.handle = i - 1 /\ a.handle # NULL /\ Namei(path).error = "none"
             /\ openfile'[i] = [owner |-> c, file |-> Namei(path).file, ptr |-> 0]
    <3>1. Namei(path).file \in tree
      BY <2>2, NameiInTree
    <3>2. MaxSize(Namei(path).file) \in Nat
      BY SizeIsNat
    <3>3. 0 \in 0..MaxSize(Namei(path).file)
      BY <3>2
    <3>4. QED
      BY <1>4, <2>2, <3>1, <3>3
  <2>3. QED
    BY <1>2, <2>1, <2>2
<1>8. QED
  BY <1>5, <1>6, <1>7

LEMMA CloseInTable ==
  ASSUME NullApart, ListInv, ToldInv, TableExact, NEW c \in Owners, NEW hid \in Nat, Close(c, hid)
  PROVE  ListInv' /\ ToldInv' /\ TableExact'
<1>1. Leads(openfile, c, hid)
  BY FromHid DEF Close
<1> DEFINE k == hid + 1
<1>2. /\ Len(openfile) \in Nat /\ DOMAIN openfile = 1..Len(openfile)
      /\ openfile = [i \in 1..Len(openfile) |-> openfile[i]]
      /\ k \in DOMAIN openfile /\ openfile[k].owner = c
  BY <1>1, Shape DEF ListInv, Leads
<1>3. openfile' = [openfile EXCEPT ![k] = NULL] /\ told' = [told EXCEPT ![c] = @ \ {hid}] /\ tree' = tree
  BY DEF Close
<1>4. hid \in Nat /\ k = hid + 1
  OBVIOUS
<1> HIDE DEF k
<1>5. /\ openfile' = [i \in 1..Len(openfile) |-> openfile'[i]]
      /\ DOMAIN openfile' = DOMAIN openfile
      /\ openfile'[k] = NULL /\ \A i \in DOMAIN openfile : i # k => openfile'[i] = openfile[i]
  BY <1>2, <1>3
<1>6. ListInv'
  <2>1. IsSeq(openfile')
    BY <1>2, <1>5, Listed
  <2>2. QED
    BY <1>5, <2>1 DEF ListInv
<1>7. /\ told' = [d \in Owners |-> told'[d]]
      /\ \A d \in Owners : \A h : h \in told'[d] <=> h \in told[d] /\ ~(d = c /\ h = hid)
  BY <1>3 DEF ToldInv
<1>8. ToldInv'
  <2> SUFFICES ASSUME NEW d \in Owners, NEW h \in told'[d] PROVE Leads(openfile', d, h)
    BY <1>7 DEF ToldInv
  <2>1. h \in told[d] /\ ~(d = c /\ h = hid)
    BY <1>7
  <2>2. Leads(openfile, d, h)
    BY <2>1 DEF ToldInv
  <2>3. h + 1 # k
    BY <1>2, <1>4, <2>1, <2>2 DEF Leads
  <2>4. QED
    BY <1>5, <2>2, <2>3 DEF Leads
<1>9. TableExact'
  <2> SUFFICES ASSUME NEW i \in DOMAIN openfile', openfile'[i] # NULL
               PROVE  /\ i - 1 \in told'[openfile'[i].owner]
                      /\ openfile'[i].file \in tree
                      /\ openfile'[i].ptr \in 0..MaxSize(openfile'[i].file)
    BY <1>3 DEF TableExact, MaxSize
  <2>1. i \in DOMAIN openfile /\ i # k /\ openfile'[i] = openfile[i]
    BY <1>5
  <2>2. openfile[i].owner \in Owners /\ i - 1 \in told[openfile[i].owner]
    BY <2>1 DEF TableExact, ListInv, Handle
  <2>3. i - 1 # hid
    BY <1>2, <1>4, <2>1
  <2>4. i - 1 \in told'[openfile[i].owner]
    BY <1>7, <2>2, <2>3
  <2>5. QED
    BY <2>1, <2>4 DEF TableExact
<1>10. QED
  BY <1>6, <1>8, <1>9

LEMMA LseekInTable ==
  ASSUME NullApart, ListInv, ToldInv, TreeInv, TableExact, NEW c \in Owners, NEW hid \in Nat,
         NEW off \in Int, NEW w \in {"SET", "CUR", "END"}, Lseek(c, hid, off, w)
  PROVE  ListInv' /\ ToldInv' /\ TableExact'
<1> DEFINE k == hid + 1
           h == openfile[k]
           size == MaxSize(h.file)
           to == off + CASE w = "SET" -> 0
                         [] w = "CUR" -> h.ptr
                         [] w = "END" -> size
           ptr == IF to < 0 THEN 0 ELSE IF to > size THEN size ELSE to
           new == [h EXCEPT !.ptr = ptr]
<1>1. HandleFromHid(c, hid) # NULL /\ Leads(openfile, c, hid) /\ HandleFromHid(c, hid) = h
  BY FromHid DEF Lseek
<1>2. /\ Len(openfile) \in Nat /\ DOMAIN openfile = 1..Len(openfile)
      /\ openfile = [i \in 1..Len(openfile) |-> openfile[i]]
      /\ k \in DOMAIN openfile /\ h.owner = c /\ h # NULL
  BY <1>1, Shape DEF ListInv, Leads
<1>3. openfile' = [openfile EXCEPT ![k].ptr = ptr] /\ told' = told /\ tree' = tree
  BY <1>1 DEF Lseek
<1>4. Handle(h) /\ h.file \in tree /\ h.ptr \in 0..size
  BY <1>2 DEF ListInv, TableExact
<1>5. size \in Nat
  BY SizeIsNat
<1> HIDE DEF size
<1>6. to \in Int
  <2>1. CASE w = "SET"
    BY <2>1
  <2>2. CASE w = "CUR"
    BY <1>4, <1>5, <2>2
  <2>3. CASE w = "END"
    BY <1>5, <2>3
  <2>4. QED
    BY <2>1, <2>2, <2>3
<1> HIDE DEF to
<1>7. ptr \in 0..size
  BY <1>5, <1>6
<1> HIDE DEF ptr
<1>8. Handle(new) /\ new.owner = c /\ new.file = h.file /\ new.ptr = ptr /\ new # NULL
  BY <1>2, <1>4 DEF Handle, NullApart
<1>9. openfile' = [openfile EXCEPT ![k] = new]
  BY <1>3
<1> HIDE DEF h, new, k
<1>10. /\ openfile' = [i \in 1..Len(openfile) |-> openfile'[i]]
       /\ DOMAIN openfile' = DOMAIN openfile
       /\ openfile'[k] = new /\ \A i \in DOMAIN openfile : i # k => openfile'[i] = openfile[i]
  BY <1>2, <1>9
<1>11. ListInv'
  <2>1. IsSeq(openfile')
    BY <1>2, <1>10, Listed
  <2>2. QED
    BY <1>8, <1>10, <2>1 DEF ListInv
<1>12. /\ h = openfile[k]
       /\ \A i \in DOMAIN openfile : /\ openfile'[i] = NULL <=> openfile[i] = NULL
                                     /\ openfile[i] # NULL => /\ openfile'[i].owner = openfile[i].owner
                                                              /\ openfile'[i].file = openfile[i].file
  <2>1. h = openfile[k]
    BY DEF h
  <2>2. QED
    BY <1>2, <1>8, <1>10, <2>1
<1>13. ToldInv'
  <2> SUFFICES ASSUME NEW d \in Owners, NEW hd \in told[d] PROVE Leads(openfile', d, hd)
    BY <1>3 DEF ToldInv
  <2>1. Leads(openfile, d, hd)
    BY DEF ToldInv
  <2>2. QED
    BY <1>10, <1>12, <2>1 DEF Leads
<1>14. TableExact'
  <2> SUFFICES ASSUME NEW i \in DOMAIN openfile', openfile'[i] # NULL
               PROVE  /\ i - 1 \in told[openfile'[i].owner]
                      /\ openfile'[i].file \in tree
                      /\ openfile'[i].ptr \in 0..MaxSize(openfile'[i].file)
    BY <1>3 DEF TableExact, MaxSize
  <2>1. i \in DOMAIN openfile /\ openfile[i] # NULL
    BY <1>10, <1>12
  <2>2. /\ i - 1 \in told[openfile[i].owner] /\ openfile[i].file \in tree
        /\ openfile[i].ptr \in 0..MaxSize(openfile[i].file)
    BY <2>1 DEF TableExact
  <2>3. openfile'[i].ptr \in 0..MaxSize(openfile[i].file)
    <3>1. CASE i = k
      BY <1>7, <1>8, <1>10, <1>12, <2>1, <3>1 DEF size
    <3>2. CASE i # k
      BY <1>10, <2>1, <2>2, <3>2
    <3>3. QED
      BY <3>1, <3>2
  <2>4. QED
    BY <1>12, <2>1, <2>2, <2>3
<1>15. QED
  BY <1>11, <1>13, <1>14

-----------------------------------------------------------------------------
(* The steps of clients and server.                                         *)

Queues(Q)         == Q = [t \in Tasks |-> Q[t]] /\ \A t \in Tasks : IsSeq(Q[t])
Added(Q, R, t, m) == R = [Q EXCEPT ![t] = Append(@, m)]
Taken(Q, R, t)    == Q[t] # <<>> /\ R = [Q EXCEPT ![t] = Tail(@)]

\* Elements of a queue that is changed at t are m, at t, or were in it.
LEMMA QueueAppend ==
  ASSUME NEW Q, Queues(Q), NEW t \in Tasks, NEW m, NEW R, Added(Q, R, t, m)
  PROVE  /\ Queues(R)
         /\ \A u \in Tasks : \A i \in DOMAIN R[u] :
              (u = t /\ R[u][i] = m) \/ \E j \in DOMAIN Q[u] : R[u][i] = Q[u][j]
<1> DEFINE r == Append(Q[t], m)
<1>1. IsSeq(r) /\ \A i \in DOMAIN r : r[i] = m \/ \E j \in DOMAIN Q[t] : r[i] = Q[t][j]
  BY Longer DEF Queues
<1> HIDE DEF r
<1>2. R = [u \in Tasks |-> R[u]] /\ R[t] = r /\ \A u \in Tasks : u # t => R[u] = Q[u]
  BY DEF r, Queues, Added
<1>3. \A u \in Tasks : IsSeq(R[u])
  BY <1>1, <1>2 DEF Queues
<1>4. ASSUME NEW u \in Tasks, NEW i \in DOMAIN R[u]
      PROVE  (u = t /\ R[u][i] = m) \/ \E j \in DOMAIN Q[u] : R[u][i] = Q[u][j]
  <2>1. CASE u = t
    BY <1>1, <1>2, <2>1
  <2>2. CASE u # t
    BY <1>2, <2>2
  <2>3. QED
    BY <2>1, <2>2
<1>5. QED
  BY <1>2, <1>3, <1>4 DEF Queues

LEMMA QueueTail ==
  ASSUME NEW Q, Queues(Q), NEW t \in Tasks, NEW R, Taken(Q, R, t)
  PROVE  /\ Queues(R)
         /\ \A u \in Tasks : \A i \in DOMAIN R[u] : \E j \in DOMAIN Q[u] : R[u][i] = Q[u][j]
         /\ 1 \in DOMAIN Q[t] /\ Head(Q[t]) = Q[t][1]
<1> DEFINE r == Tail(Q[t])
<1>1. /\ IsSeq(r) /\ 1 \in DOMAIN Q[t] /\ Head(Q[t]) = Q[t][1]
      /\ \A i \in DOMAIN r : \E j \in DOMAIN Q[t] : r[i] = Q[t][j]
  BY Shorter DEF Queues, Taken
<1> HIDE DEF r
<1>2. R = [u \in Tasks |-> R[u]] /\ R[t] = r /\ \A u \in Tasks : u # t => R[u] = Q[u]
  BY DEF r, Queues, Taken
<1>3. \A u \in Tasks : IsSeq(R[u])
  BY <1>1, <1>2 DEF Queues
<1>4. ASSUME NEW u \in Tasks, NEW i \in DOMAIN R[u] PROVE \E j \in DOMAIN Q[u] : R[u][i] = Q[u][j]
  <2>1. CASE u = t
    BY <1>1, <1>2, <2>1
  <2>2. CASE u # t
    BY <1>2, <2>2
  <2>3. QED
    BY <2>1, <2>2
<1>5. QED
  BY <1>1, <1>2, <1>3, <1>4 DEF Queues

LEMMA WhoIsWho ==
  /\ Fs \in Tasks /\ \A c \in Owners : c \in Tasks /\ c # Fs
  /\ \A t \in Tasks : t \in Owners \/ t = Fs
BY FilesAssumption DEF Tasks, Clients

\* Steps that leave the table, the queues and what the server has read alone.
LEMMA Quiet ==
  ASSUME TalkInv, UNCHANGED <<openfile, told, queue, msg>>,
         pc' = [t \in Tasks |-> pc'[t]], pc'[Fs] = "serve" => pc[Fs] = "serve"
  PROVE  TalkInv'
BY DEF TalkInv, ListInv, ToldInv, MailInv, AnswerTo, Leads, Sent

LEMMA TalkByOpen ==
  ASSUME TalkInv, NEW c \in Owners, NEW r, Open(c, r) PROVE TalkInv'
<1>1. UNCHANGED <<openfile, told, queue, msg>>
  BY DEF Open, tableVars
<1>2. \E where : pc' = [pc EXCEPT ![c] = where]
  BY DEF Open, Goes, Returns
<1>3. pc = [t \in Tasks |-> pc[t]]
  BY DEF TalkInv, MailInv
<1>4. pc' = [t \in Tasks |-> pc'[t]] /\ pc'[Fs] = pc[Fs]
  BY <1>2, <1>3, WhoIsWho
<1>5. QED
  BY <1>1, <1>4, Quiet

LEMMA TalkByGivesUp ==
  ASSUME TalkInv, NEW c \in Owners, GivesUp(c) PROVE TalkInv'
<1>1. UNCHANGED <<openfile, told, queue, msg>>
  BY DEF GivesUp, tableVars
<1>2. pc' = [pc EXCEPT ![c] = "idle"]
  BY DEF GivesUp, Goes, Returns
<1>3. pc = [t \in Tasks |-> pc[t]]
  BY DEF TalkInv, MailInv
<1>4. pc' = [t \in Tasks |-> pc'[t]] /\ pc'[Fs] = pc[Fs]
  BY <1>2, <1>3, WhoIsWho
<1>5. QED
  BY <1>1, <1>4, Quiet

LEMMA TalkByWaits ==
  ASSUME TalkInv, NEW t \in Tasks, Waits(t) PROVE TalkInv'
<1>1. UNCHANGED <<openfile, told, queue, msg>>
  BY DEF Waits, tableVars
<1>2. pc' = [pc EXCEPT ![t] = "window"] \/ pc' = [pc EXCEPT ![t] = "asleep"]
  BY DEF Waits, Goes
<1>3. pc = [u \in Tasks |-> pc[u]]
  BY DEF TalkInv, MailInv
<1>4. pc' = [u \in Tasks |-> pc'[u]] /\ (pc'[Fs] = "serve" => pc[Fs] = "serve")
  BY <1>2, <1>3, WhoIsWho
<1>5. QED
  BY <1>1, <1>4, Quiet

LEMMA TalkByStart ==
  ASSUME TalkInv, Start PROVE TalkInv'
<1>1. UNCHANGED <<openfile, told, queue, msg>> /\ pc' = [pc EXCEPT ![Fs] = "read"]
  BY DEF Start, tableVars, Goes
<1>2. pc' = [u \in Tasks |-> pc'[u]] /\ (pc'[Fs] = "serve" => pc[Fs] = "serve")
  BY <1>1, WhoIsWho DEF TalkInv, MailInv
<1>3. QED
  BY <1>1, <1>2, Quiet

LEMMA TalkByReadFails ==
  ASSUME TalkInv, ReadFails PROVE TalkInv'
<1>1. UNCHANGED <<openfile, told, queue, msg, pc>>
  BY DEF ReadFails, tableVars
<1>2. pc' = [u \in Tasks |-> pc'[u]] /\ (pc'[Fs] = "serve" => pc[Fs] = "serve")
  BY <1>1 DEF TalkInv, MailInv
<1>3. QED
  BY <1>1, <1>2, Quiet

LEMMA TalkByWrite ==
  ASSUME TalkInv, NEW c \in Owners, Write(c) PROVE TalkInv'
<1> DEFINE m == Fragment(c, sent[c] + 1)
<1>1. Sent(m)
  BY DEF Fragment, Sent
<1>2. queue' = [queue EXCEPT ![Fs] = Append(@, m)] /\ UNCHANGED <<openfile, told, msg>>
  BY DEF Write, tableVars
<1> HIDE DEF m
<1>3. Queues(queue) /\ Added(queue, queue', Fs, m) /\ Fs \in Tasks
  BY <1>2, WhoIsWho DEF TalkInv, MailInv, Queues, Added
<1>4. /\ Queues(queue')
      /\ \A u \in Tasks : \A i \in DOMAIN queue'[u] :
           (u = Fs /\ queue'[u][i] = m) \/ \E j \in DOMAIN queue[u] : queue'[u][i] = queue[u][j]
  BY <1>3, QueueAppend
<1>5. pc' = [u \in Tasks |-> pc'[u]] /\ (pc'[Fs] = "serve" => pc[Fs] = "serve")
  <2>1. \E where : pc' = [pc EXCEPT ![Fs] = Woken(@), ![c] = where]
    BY WhoIsWho DEF Write, TalkInv, MailInv
  <2>2. PICK where : pc' = [pc EXCEPT ![Fs] = Woken(@), ![c] = where]
    BY <2>1
  <2>3. pc = [u \in Tasks |-> pc[u]]
    BY DEF TalkInv, MailInv
  <2>4. pc' = [u \in Tasks |-> pc'[u]] /\ pc'[Fs] = Woken(pc[Fs])
    BY <2>2, <2>3, WhoIsWho
  <2>5. QED
    BY <2>4 DEF Woken
<1>6. MailInv'
  <2>1. ASSUME NEW d \in Owners, NEW i \in DOMAIN queue'[d]
        PROVE  queue'[d][i].handle = NULL \/ Leads(openfile', d, queue'[d][i].handle)
    <3>1. PICK j \in DOMAIN queue[d] : queue'[d][i] = queue[d][j]
      BY <1>4, WhoIsWho
    <3>2. AnswerTo(d, queue[d][j])
      BY DEF TalkInv, MailInv
    <3>3. QED
      BY <1>2, <3>1, <3>2 DEF AnswerTo
  <2>2. \A i \in DOMAIN queue'[Fs] : Sent(queue'[Fs][i])
    BY <1>1, <1>4, WhoIsWho DEF TalkInv, MailInv
  <2>3. (msg' # NULL \/ pc'[Fs] = "serve") => Sent(msg')
    BY <1>2, <1>5 DEF TalkInv, MailInv
  <2>4. QED
    BY <1>4, <1>5, <2>1, <2>2, <2>3 DEF MailInv, AnswerTo, Queues
<1>7. ListInv' /\ ToldInv'
  BY <1>2 DEF TalkInv, ListInv, ToldInv, Leads
<1>8. QED
  BY <1>6, <1>7 DEF TalkInv

LEMMA TalkByTakeAnswer ==
  ASSUME NullApart, TalkInv, NEW c \in Owners, TakeAnswer(c) PROVE TalkInv'
<1> DEFINE m == Head(queue[c])
<1>1. /\ Taken(queue, queue', c) /\ c \in Tasks /\ UNCHANGED <<openfile, msg>>
      /\ pc' = [pc EXCEPT ![c] = "idle"]
      /\ told' = IF m.handle = NULL THEN told ELSE [told EXCEPT ![c] = @ \cup {m.handle}]
  BY WhoIsWho DEF TakeAnswer, Taken, Returns, Goes
<1>2. Queues(queue)
  BY DEF TalkInv, MailInv, Queues
<1>3. /\ Queues(queue')
      /\ \A u \in Tasks : \A i \in DOMAIN queue'[u] : \E j \in DOMAIN queue[u] : queue'[u][i] = queue[u][j]
      /\ 1 \in DOMAIN queue[c] /\ m = queue[c][1]
  BY <1>1, <1>2, QueueTail
<1>4. AnswerTo(c, m)
  BY <1>3 DEF TalkInv, MailInv
<1> HIDE DEF m
<1>5. pc' = [u \in Tasks |-> pc'[u]] /\ pc'[Fs] = pc[Fs]
  BY <1>1, WhoIsWho DEF TalkInv, MailInv
<1>6. MailInv'
  <2>1. ASSUME NEW d \in Owners, NEW i \in DOMAIN queue'[d]
        PROVE  queue'[d][i].handle = NULL \/ Leads(openfile', d, queue'[d][i].handle)
    <3>1. PICK j \in DOMAIN queue[d] : queue'[d][i] = queue[d][j]
      BY <1>3, WhoIsWho
    <3>2. AnswerTo(d, queue[d][j])
      BY DEF TalkInv, MailInv
    <3>3. QED
      BY <1>1, <3>1, <3>2 DEF AnswerTo
  <2>2. \A i \in DOMAIN queue'[Fs] : Sent(queue'[Fs][i])
    BY <1>3, WhoIsWho DEF TalkInv, MailInv
  <2>3. (msg' # NULL \/ pc'[Fs] = "serve") => Sent(msg')
    BY <1>1, <1>5 DEF TalkInv, MailInv
  <2>4. QED
    BY <1>3, <1>5, <2>1, <2>2, <2>3 DEF MailInv, AnswerTo, Queues
<1>7. ToldInv'
  <2>1. told = [d \in Owners |-> told[d]] /\ \A d \in Owners : \A hid \in told[d] : Leads(openfile, d, hid)
    BY DEF TalkInv, ToldInv
  <2>2. /\ told' = [d \in Owners |-> told'[d]]
        /\ \A d \in Owners : \A hid \in told'[d] :
             hid \in told[d] \/ (d = c /\ hid = m.handle /\ m.handle # NULL)
    BY <1>1, <2>1
  <2>3. \A d \in Owners : \A hid \in told'[d] : Leads(openfile, d, hid)
    BY <1>4, <2>1, <2>2 DEF AnswerTo
  <2>4. QED
    BY <1>1, <2>2, <2>3 DEF ToldInv
<1>8. ListInv'
  BY <1>1 DEF TalkInv, ListInv
<1>9. QED
  BY <1>6, <1>7, <1>8 DEF TalkInv

\* The server reads a fragment: the message it has is from a client.
LEMMA TalkByRead ==
  ASSUME TalkInv, Taken(queue, queue', Fs),
         UNCHANGED <<openfile, told>>, pc' = [u \in Tasks |-> pc'[u]],
         Sent(Head(queue[Fs])) => (msg' # NULL \/ pc'[Fs] = "serve" => Sent(msg'))
  PROVE  TalkInv'
<1>1. Taken(queue, queue', Fs) /\ Fs \in Tasks /\ Queues(queue)
  BY WhoIsWho DEF TalkInv, MailInv, Queues
<1>2. /\ Queues(queue')
      /\ \A u \in Tasks : \A i \in DOMAIN queue'[u] : \E j \in DOMAIN queue[u] : queue'[u][i] = queue[u][j]
      /\ 1 \in DOMAIN queue[Fs] /\ Head(queue[Fs]) = queue[Fs][1]
  BY <1>1, QueueTail
<1>3. Sent(Head(queue[Fs]))
  BY <1>2 DEF TalkInv, MailInv
<1>4. MailInv'
  <2>1. ASSUME NEW d \in Owners, NEW i \in DOMAIN queue'[d]
        PROVE  queue'[d][i].handle = NULL \/ Leads(openfile', d, queue'[d][i].handle)
    <3>1. PICK j \in DOMAIN queue[d] : queue'[d][i] = queue[d][j]
      BY <1>2, WhoIsWho
    <3>2. AnswerTo(d, queue[d][j])
      BY DEF TalkInv, MailInv
    <3>3. QED
      BY <3>1, <3>2 DEF AnswerTo
  <2>2. \A i \in DOMAIN queue'[Fs] : Sent(queue'[Fs][i])
    BY <1>2, WhoIsWho DEF TalkInv, MailInv
  <2>3. QED
    BY <1>2, <1>3, <2>1, <2>2 DEF MailInv, AnswerTo, Queues
<1>5. ListInv' /\ ToldInv'
  BY DEF TalkInv, ListInv, ToldInv, Leads
<1>6. QED
  BY <1>4, <1>5 DEF TalkInv

LEMMA TalkByReadFirst ==
  ASSUME TalkInv, ReadFirst PROVE TalkInv'
<1> DEFINE m == Head(queue[Fs])
<1>1. /\ Taken(queue, queue', Fs) /\ UNCHANGED <<openfile, told>>
      /\ msg' = [m EXCEPT !.data = <<m.data>>]
      /\ \E where : pc' = [pc EXCEPT ![Fs] = where]
  BY DEF ReadFirst, tableVars, Goes, Taken
<1>2. pc' = [u \in Tasks |-> pc'[u]]
  BY <1>1, WhoIsWho DEF TalkInv, MailInv
<1>3. Sent(m) => Sent(msg')
  BY <1>1 DEF Sent
<1>4. QED
  BY <1>1, <1>2, <1>3, TalkByRead

LEMMA TalkByReadMore ==
  ASSUME TalkInv, ReadMore PROVE TalkInv'
<1> DEFINE m == Head(queue[Fs])
<1>1. /\ Taken(queue, queue', Fs) /\ UNCHANGED <<openfile, told>>
      /\ msg' = msg \/ msg' = Joined(msg, m)
      /\ pc' = pc \/ \E where : pc' = [pc EXCEPT ![Fs] = where]
      /\ msg # NULL
  BY DEF ReadMore, tableVars, Goes, Taken
<1>2. pc' = [u \in Tasks |-> pc'[u]]
  BY <1>1, WhoIsWho DEF TalkInv, MailInv
<1>3. Sent(msg)
  BY <1>1 DEF TalkInv, MailInv
<1>4. Sent(msg')
  BY <1>1, <1>3 DEF Sent, Joined
<1>5. QED
  BY <1>1, <1>2, <1>4, TalkByRead

LEMMA TalkByServe ==
  ASSUME NullApart, TalkInv, Serve PROVE TalkInv'
<1> DEFINE c == msg.sender
<1>1. c \in Owners /\ c \in Tasks /\ c # Fs
  <2>1. Sent(msg)
    BY DEF Serve, At, TalkInv, MailInv
  <2>2. QED
    BY <2>1, WhoIsWho DEF Sent
<1>2. PICK a \in Opens(c, Named(msg.data)) :
        /\ openfile' = a.list
        /\ \/ /\ queue' = [queue EXCEPT ![c] = Append(@, [handle |-> a.handle, error |-> a.error])]
              /\ pc' = [pc EXCEPT ![Fs] = "read", ![c] = Woken(@)]
           \/ queue' = queue /\ pc' = [pc EXCEPT ![Fs] = "read"]
  BY DEF Serve, Goes
<1>3. msg' = NULL /\ told' = told
  BY DEF Serve
<1> DEFINE m == [handle |-> a.handle, error |-> a.error]
<1> HIDE DEF c
<1>4. /\ IsSeq(openfile') /\ \A i \in DOMAIN openfile' : openfile'[i] = NULL \/ Handle(openfile'[i])
      /\ \A d, hid : Leads(openfile, d, hid) => Leads(openfile', d, hid)
      /\ m.handle = NULL \/ Leads(openfile', c, m.handle)
  <2>1. ListInv
    BY DEF TalkInv
  <2>2. /\ IsSeq(a.list) /\ \A i \in DOMAIN a.list : a.list[i] = NULL \/ Handle(a.list[i])
        /\ \A d, hid : Leads(openfile, d, hid) => Leads(a.list, d, hid)
        /\ a.handle = NULL \/ Leads(a.list, c, a.handle)
    BY <1>1, <2>1, Opened
  <2>3. QED
    BY <1>2, <2>2
<1>5. (queue' = queue \/ Added(queue, queue', c, m)) /\ Queues(queue)
  BY <1>2 DEF Added, Queues, TalkInv, MailInv
<1>6. pc' = [u \in Tasks |-> pc'[u]] /\ pc'[Fs] = "read"
  BY <1>1, <1>2, WhoIsWho DEF TalkInv, MailInv
<1> HIDE DEF m
<1>7. /\ Queues(queue')
      /\ \A u \in Tasks : \A i \in DOMAIN queue'[u] :
           (u = c /\ queue'[u][i] = m) \/ \E j \in DOMAIN queue[u] : queue'[u][i] = queue[u][j]
  <2>1. CASE queue' = queue
    BY <1>5, <2>1
  <2>2. CASE Added(queue, queue', c, m)
    BY <1>1, <1>5, <2>2, QueueAppend
  <2>3. QED
    BY <1>5, <2>1, <2>2
<1>8. MailInv'
  <2>1. ASSUME NEW d \in Owners, NEW i \in DOMAIN queue'[d]
        PROVE  queue'[d][i].handle = NULL \/ Leads(openfile', d, queue'[d][i].handle)
    <3>1. CASE d = c /\ queue'[d][i] = m
      BY <1>4, <3>1
    <3>2. CASE \E j \in DOMAIN queue[d] : queue'[d][i] = queue[d][j]
      <4>1. PICK j \in DOMAIN queue[d] : queue'[d][i] = queue[d][j]
        BY <3>2
      <4>2. AnswerTo(d, queue[d][j])
        BY DEF TalkInv, MailInv
      <4>3. QED
        BY <1>4, <4>1, <4>2 DEF AnswerTo
    <3>3. QED
      BY <1>7, <3>1, <3>2, WhoIsWho
  <2>2. \A i \in DOMAIN queue'[Fs] : Sent(queue'[Fs][i])
    BY <1>1, <1>7, WhoIsWho DEF TalkInv, MailInv
  <2>3. (msg' # NULL \/ pc'[Fs] = "serve") => Sent(msg')
    BY <1>3, <1>6
  <2>4. QED
    BY <1>6, <1>7, <2>1, <2>2, <2>3 DEF MailInv, AnswerTo, Queues
<1>9. ListInv'
  BY <1>4 DEF ListInv
<1>10. ToldInv'
  BY <1>3, <1>4 DEF TalkInv, ToldInv
<1>11. QED
  BY <1>8, <1>9, <1>10 DEF TalkInv

LEMMA TalkByNext ==
  ASSUME NullApart, TalkInv, FilesNext PROVE TalkInv'
<1>1. CASE \E c \in Clients : Client(c)
  <2>1. PICK c \in Owners : Client(c)
    BY <1>1 DEF Clients
  <2>2. CASE \E r \in Requests : Open(c, r)
    BY <2>2, TalkByOpen
  <2>3. CASE Write(c)
    BY <2>3, TalkByWrite
  <2>4. CASE GivesUp(c)
    BY <2>4, TalkByGivesUp
  <2>5. CASE TakeAnswer(c)
    BY <2>5, TalkByTakeAnswer
  <2>6. QED
    BY <2>1, <2>2, <2>3, <2>4, <2>5 DEF Client
<1>2. CASE Server
  BY <1>2, TalkByStart, TalkByReadFirst, TalkByReadMore, TalkByReadFails, TalkByServe DEF Server
<1>3. CASE \E t \in Tasks : Waits(t)
  BY <1>3, TalkByWaits
<1>4. QED
  BY <1>1, <1>2, <1>3 DEF FilesNext

-----------------------------------------------------------------------------
(* Both parts.                                                              *)

Hypotheses == NullApart /\ Offsets \subseteq Int /\ MaxOpen \in Nat

LEMMA EmptyIsSeq == IsSeq(<<>>) /\ DOMAIN <<>> = {}
<1>1. \A S : <<>> \in Seq(S)
  BY EmptySeq
<1>2. DOMAIN <<>> = {}
  OBVIOUS
<1>3. QED
  BY <1>1, <1>2 DEF IsSeq

LEMMA InitInv ==
  ASSUME MCInit PROVE FilesInv
<1>1. /\ openfile = <<>> /\ told = [c \in Owners |-> {}] /\ queue = [t \in Tasks |-> <<>>]
      /\ pc = [t \in Tasks |-> IF t = Fs THEN "start" ELSE "idle"] /\ msg = NULL
      /\ part \in {"table", "clients"}
  BY DEF MCInit, FilesInit, Init
<1>2. TreeInv
  <2>1. PICK n \in Built : tree = {Created[i] : i \in 1..n}
    BY DEF MCInit, FilesInit, Init
  <2>2. Len(Created) = 11
    BY DEF Created
  <2>3. n \in 1..11
    BY <2>2, FilesAssumption
  <2>4. QED
    BY <2>1, <2>3 DEF TreeInv
<1>3. ListInv /\ ToldInv
  BY <1>1, EmptyIsSeq DEF ListInv, ToldInv
<1>4. MailInv
  <2>1. pc[Fs] = "start" /\ pc = [t \in Tasks |-> pc[t]]
    BY <1>1, WhoIsWho
  <2>2. \A t \in Tasks : queue[t] = <<>>
    BY <1>1
  <2>3. \A t \in Tasks : IsSeq(queue[t]) /\ DOMAIN queue[t] = {}
    BY <2>2, EmptyIsSeq
  <2>4. QED
    BY <1>1, <2>1, <2>3, WhoIsWho DEF MailInv
<1>5. TableExact
  BY <1>1, EmptyIsSeq DEF TableExact
<1>6. QED
  BY <1>1, <1>2, <1>3, <1>4, <1>5 DEF FilesInv, TalkInv

\* The names of the paths the table is asked for.
LEMMA PathNames ==
  ASSUME NEW path \in Paths PROVE path.names \in Seq({"etc", "passwd", "x"})
<1> DEFINE N == {"etc", "passwd", "x"}
<1>1. /\ <<"etc">> \in Seq(N) /\ <<"etc", "passwd">> \in Seq(N) /\ <<>> \in Seq(N)
      /\ <<"etc", "passwd", "x">> \in Seq(N)
  <2>1. "etc" \in N /\ "passwd" \in N /\ "x" \in N
    OBVIOUS
  <2> HIDE DEF N
  <2>2. QED
    BY <2>1
<1>2. path.names \in {<<"etc">>, <<"etc", "passwd">>, <<>>, <<"etc", "passwd", "x">>}
  BY DEF Paths, Etc, Passwd, Absolute
<1>3. QED
  BY <1>1, <1>2

LEMMA TableStep ==
  ASSUME Hypotheses, FilesInv, part = "table", TableNext, UNCHANGED <<part, queue, pc, msg>>
  PROVE  FilesInv'
<1>1. NullApart /\ ListInv /\ ToldInv /\ TreeInv /\ TableExact
  BY DEF FilesInv, TalkInv, Hypotheses
<1>2. PICK c \in Owners :
        \/ \E path \in Paths : FileOpen(c, path)
        \/ \E hid \in Nat : \/ Close(c, hid)
                            \/ \E off \in Int, w \in {"SET", "CUR", "END"} : Lseek(c, hid, off, w)
  <2>1. PICK c \in Owners :
          \/ \E path \in Paths : FileOpen(c, path)
          \/ \E hid \in 0 .. (MaxOpen - 1) :
               \/ Close(c, hid)
               \/ \E off \in Offsets, w \in {"SET", "CUR", "END"} : Lseek(c, hid, off, w)
    BY DEF TableNext
  <2>2. \A hid \in 0 .. (MaxOpen - 1) : hid \in Nat
    BY DEF Hypotheses
  <2>3. QED
    BY <2>1, <2>2 DEF Hypotheses
<1>3. ListInv' /\ ToldInv' /\ TableExact'
  <2>1. CASE \E path \in Paths : FileOpen(c, path)
    BY <1>1, <2>1, PathNames, OpenInTable
  <2>2. CASE \E hid \in Nat : Close(c, hid)
    BY <1>1, <2>2, CloseInTable
  <2>3. CASE \E hid \in Nat, off \in Int, w \in {"SET", "CUR", "END"} : Lseek(c, hid, off, w)
    BY <1>1, <2>3, LseekInTable
  <2>4. QED
    BY <1>2, <2>1, <2>2, <2>3
<1>4. TreeInv'
  <2>1. tree' = tree
    BY <1>2 DEF FileOpen, Close, Lseek
  <2>2. QED
    BY <1>1, <2>1 DEF TreeInv
<1>5. queue = [t \in Tasks |-> <<>>] /\ MailInv
  BY DEF FilesInv, TalkInv
<1>6. MailInv'
  <2>1. \A d \in Owners : DOMAIN queue[d] = {}
    BY <1>5, WhoIsWho, EmptyIsSeq
  <2>2. \A d \in Owners : \A i \in DOMAIN queue'[d] : queue'[d][i].handle = NULL \/ Leads(openfile', d, queue'[d][i].handle)
    BY <2>1
  <2>3. QED
    BY <1>5, <2>2 DEF MailInv, AnswerTo
<1>7. QED
  BY <1>3, <1>4, <1>5, <1>6 DEF FilesInv, TalkInv

LEMMA FilesInvAlways ==
  ASSUME Hypotheses PROVE MCSpec => []FilesInv
<1>1. MCInit => FilesInv
  BY InitInv
<1>2. FilesInv /\ [MCNext]_<<part, filesVars>> => FilesInv'
  <2> SUFFICES ASSUME FilesInv, [MCNext]_<<part, filesVars>> PROVE FilesInv'
    OBVIOUS
  <2>1. CASE part = "table" /\ TableNext /\ UNCHANGED <<part, queue, pc, msg>>
    BY <2>1, TableStep
  <2>2. CASE part = "clients" /\ FilesNext /\ UNCHANGED part
    <3>1. TalkInv'
      BY <2>2, TalkByNext DEF FilesInv, Hypotheses
    <3>2. tree' = tree
      BY <2>2 DEF FilesNext, Client, Server, Open, Write, GivesUp, TakeAnswer, Start, ReadFirst,
                  ReadMore, ReadFails, Serve, Waits, tableVars
    <3>3. QED
      BY <2>2, <3>1, <3>2 DEF FilesInv, TreeInv
  <2>3. CASE UNCHANGED <<part, filesVars>>
    <3>1. UNCHANGED <<part, tree, openfile, told, queue, pc, msg>>
      BY <2>3 DEF filesVars, tableVars
    <3>2. TalkInv'
      BY <3>1, Quiet DEF FilesInv, TalkInv, MailInv
    <3>3. TreeInv' /\ (TableExact => TableExact')
      BY <3>1 DEF FilesInv, TreeInv, TableExact, MaxSize
    <3>4. QED
      BY <3>1, <3>2, <3>3 DEF FilesInv
  <2>4. QED
    BY <2>1, <2>2, <2>3 DEF MCNext
<1>3. QED
  BY <1>1, <1>2, PTL DEF MCSpec

(* A handle a task was told leads to a handle of its own until it closes    *)
(* it, however many tasks open files, whatever the server joins, gives up   *)
(* or is not asked for; and while no answer is lost every handle of the     *)
(* table is known to its owner and is in its file.                          *)
THEOREM HandlesAlwaysKept ==
  ASSUME NullApart, Offsets \subseteq Int, MaxOpen \in Nat PROVE MCSpec => []HandlesKept
<1>1. FilesInv => HandlesKept
  <2> SUFFICES ASSUME FilesInv PROVE HandlesKept
    OBVIOUS
  <2>1. ListInv /\ ToldInv
    BY DEF FilesInv, TalkInv
  <2>2. ASSUME NEW c \in Owners, NEW hid \in told[c] PROVE HandleFromHid(c, hid) # NULL
    <3>1. Leads(openfile, c, hid) /\ hid \in Nat
      BY <2>1 DEF ToldInv, Leads
    <3>2. QED
      BY <2>1, <3>1, FromHid
  <2>3. QED
    BY <2>2 DEF HandlesKept, HandlesPrivate, FilesInv
<1>2. MCSpec => []FilesInv
  BY FilesInvAlways DEF Hypotheses
<1>3. QED
  BY <1>1, <1>2, PTL
-----------------------------------------------------------------------------
(* What clients are answered, as long as fragments are not joined across    *)
(* requests and no memory runs out on the way: the fragments of a request   *)
(* that are sent and not yet read are numbered in the order they were sent, *)
(* and those the server has read are the ones before.                       *)

\* What m says to client c is about the payload `to'.
Right(files, list, c, m, to) ==
  LET p == Head(to) IN
  /\ m.handle # NULL =>
       /\ Leads(list, c, m.handle)
       /\ to = <<p>> /\ p.absolute
       /\ list[m.handle + 1].file = p.names
       /\ p.names \in files /\ (p.trailing => p.names \in Dirs)
  /\ m.error = "ENOTDIR" => \E i \in 1..Len(p.names) : SubSeq(p.names, 1, i) \in files \ Dirs

HasRead(m, c) == IF m # NULL /\ m.sender = c THEN Len(m.data) ELSE 0
InFlight(c)   == pc[c] # "idle" /\ queue[c] = <<>>

Numbered(num) ==
  /\ \A i \in DOMAIN queue[Fs] :
       /\ InFlight(queue[Fs][i].sender)
       /\ num[i] \in (HasRead(msg, queue[Fs][i].sender) + 1) .. sent[queue[Fs][i].sender]
       /\ queue[Fs][i] = Fragment(queue[Fs][i].sender, num[i])
  /\ \A i, j \in DOMAIN queue[Fs] :
       i < j /\ queue[Fs][i].sender = queue[Fs][j].sender => num[i] < num[j]
  /\ \A c \in Owners : InFlight(c) =>
       \A n \in (HasRead(msg, c) + 1) .. sent[c] :
         \E i \in DOMAIN queue[Fs] : queue[Fs][i].sender = c /\ num[i] = n

Waiting == {"read", "retry", "window", "asleep"}

ClientOK(c) ==
  /\ pc[c] \in {"idle", "write"} \cup Waiting
  /\ pc[c] # "idle" => payload[c] \in Requests /\ sent[c] \in 0 .. Len(payload[c])
  /\ pc[c] = "write" => sent[c] < Len(payload[c])
  /\ pc[c] \in Waiting => sent[c] = Len(payload[c])
  /\ pc[c] \in {"idle", "write"} => queue[c] = <<>>
  /\ queue[c] # <<>> => Len(queue[c]) = 1 /\ Right(tree, openfile, c, queue[c][1], payload[c])

\* The message the server has is the beginning of a request, and it serves it
\* when it has the whole.
BeginningOf(c, k, n) ==
  /\ InFlight(c) /\ k \in 1 .. sent[c] /\ sent[c] <= n
  /\ DOMAIN msg = {"sender", "msg_size", "data", "size", "of"}
  /\ msg.data = [i \in 1..k |-> payload[c][i]]
  /\ msg.msg_size = 2 * n - 1 /\ msg.of = opens[c]
  /\ msg.size = IF k < n THEN 2 * k ELSE 2 * n - 1
  /\ pc[Fs] = "serve" <=> k = n

ServerOK ==
  /\ pc[Fs] = "serve" => msg # NULL
  /\ msg # NULL => BeginningOf(msg.sender, Len(msg.data), Len(payload[msg.sender]))

Transfers == (\E num : Numbered(num)) /\ (\A c \in Owners : ClientOK(c)) /\ ServerOK

Clean == part = "clients" /\ failure = "none" /\ ~disturbed

ClientVarsOK ==
  /\ payload = [c \in Owners |-> payload[c]] /\ sent = [c \in Owners |-> sent[c]]
  /\ opens = [c \in Owners |-> opens[c]] /\ answer = [c \in Owners |-> answer[c]]

Answered(c) == answer[c] # NULL => Right(tree, openfile, c, answer[c], answer[c].to)

AnswersInv ==
  /\ ClientVarsOK
  /\ Clean => Transfers
  /\ part = "table" => \A c \in Owners : answer[c] = NULL
  /\ ~disturbed => \A c \in Owners : Answered(c)

\* The pieces of a request.
LEMMA RequestShapes ==
  ASSUME NEW r \in Requests
  PROVE  /\ IsSeq(r) /\ 1 \in DOMAIN r /\ Len(r) \in Nat /\ Len(r) # 0 /\ DOMAIN r = 1..Len(r)
         /\ r[1] = Junk \/ (r = <<r[1]>> /\ IsSeq(r[1].names))
<1>1. IsSeq(r) /\ 1 \in DOMAIN r
  BY RequestAssumption DEF IsSeq
<1>2. Len(r) \in Nat /\ DOMAIN r = 1..Len(r)
  BY <1>1, Shape
<1>3. r[1] = Junk \/ (r = <<r[1]>> /\ IsSeq(r[1].names))
  BY RequestAssumption DEF IsSeq
<1>4. QED
  BY <1>1, <1>2, <1>3

\* memfs_namei: the whole path is found in the tree, or an ENOTDIR is due to a
\* file on the way.
LEMMA Whole ==
  ASSUME NEW s, IsSeq(s) PROVE Len(s) # 0 => SubSeq(s, 1, Len(s)) = s
<1> DEFINE R == {s[i] : i \in DOMAIN s}
<1>1. s \in Seq(R)
  BY DEF IsSeq
<1> HIDE DEF R
<1>2. Len(s) \in Nat /\ \A i \in 1..Len(s) : s[i] \in R
  BY <1>1
<1>3. ASSUME Len(s) # 0 PROVE SubSeq(s, 1, Len(s)) = s
  <2>1. /\ SubSeq(s, 1, Len(s)) \in Seq(R)
        /\ Len(SubSeq(s, 1, Len(s))) = Len(s) - 1 + 1
        /\ \A i \in 1..(Len(s) - 1 + 1) : SubSeq(s, 1, Len(s))[i] = s[1 + i - 1]
    BY <1>2, <1>3, SubSeqProperties
  <2>2. QED
    BY <1>1, <1>2, <2>1, SeqEqual
<1>4. QED
  BY <1>3

LEMMA LeastOf ==
  ASSUME NEW S \in SUBSET Nat, S # {}
  PROVE  LET m == CHOOSE i \in S : \A j \in S : i <= j IN m \in S
<1> DEFINE R == OpToRel(<, Nat)
<1>1. \E m \in S : \A n \in S : <<n, m>> \notin R
  <2>1. IsWellFoundedOn(R, Nat)
    BY NatLessThanWellFounded
  <2> HIDE DEF R
  <2> QED
    BY <2>1, WFMin
<1>2. ASSUME NEW n \in S, NEW m \in S, n < m PROVE <<n, m>> \in R
  BY <1>2 DEF OpToRel
<1> HIDE DEF R
<1>3. PICK m \in S : \A n \in S : ~(n < m)
  BY <1>1, <1>2
<1>4. \A n \in S : m <= n
  BY <1>3
<1>5. QED
  BY <1>4

LEMMA NameiRight ==
  ASSUME TreeInv, NEW path, IsSeq(path.names)
  PROVE  /\ Namei(path).error = "none" =>
              /\ path.absolute /\ Namei(path).file = path.names
              /\ path.names \in tree /\ (path.trailing => path.names \in Dirs)
         /\ Namei(path).error = "ENOTDIR" =>
              \E i \in 1..Len(path.names) : SubSeq(path.names, 1, i) \in tree \ Dirs
<1> DEFINE names == path.names
           wrong == {i \in 1..Len(names) :
                       \/ SubSeq(names, 1, i) \notin tree
                       \/ /\ i < Len(names) \/ path.trailing
                          /\ SubSeq(names, 1, i) \notin Dirs}
           first == CHOOSE i \in wrong : \A j \in wrong : i <= j
<1>1. Len(names) \in Nat
  BY Shape
<1>2. ASSUME Namei(path).error = "none"
      PROVE  /\ path.absolute /\ Namei(path).file = names
             /\ names \in tree /\ (path.trailing => names \in Dirs)
  <2>1. wrong = {} /\ Namei(path).file = names /\ path.absolute
    BY <1>2 DEF Namei, Found, Error
  <2>2. CASE Len(names) = 0
    <3>1. names = <<>>
      BY <2>2, Shape, EmptySeq DEF IsSeq
    <3>2. Created[1] = <<>> /\ Created[1] \in tree /\ Created[1] \in Dirs
      <4>1. PICK n \in 1..11 : tree = {Created[i] : i \in 1..n}
        BY DEF TreeInv
      <4>2. 1 \in 1..n /\ 1 \in {1, 2, 3, 4, 9}
        OBVIOUS
      <4>3. Created[1] \in tree
        BY <4>1, <4>2
      <4>4. Created[1] \in Dirs
        BY <4>2 DEF Dirs
      <4>5. QED
        BY <4>3, <4>4 DEF Created
    <3>3. QED
      BY <2>1, <3>1, <3>2
  <2>3. CASE Len(names) # 0
    <3>1. Len(names) \in 1..Len(names) /\ SubSeq(names, 1, Len(names)) = names
      BY <1>1, <2>3, Whole
    <3>2. Len(names) \notin wrong
      BY <2>1
    <3>3. QED
      BY <2>1, <3>1, <3>2
  <2>4. QED
    BY <2>2, <2>3
<1>3. ASSUME Namei(path).error = "ENOTDIR"
      PROVE  \E i \in 1..Len(names) : SubSeq(names, 1, i) \in tree \ Dirs
  <2>1. wrong # {} /\ SubSeq(names, 1, first) \in tree
    BY <1>3 DEF Namei, Found, Error
  <2>2. wrong \in SUBSET Nat
    BY <1>1
  <2>3. first \in wrong
    <3> HIDE DEF wrong
    <3>1. QED
      BY <2>1, <2>2, LeastOf
  <2> HIDE DEF first
  <2>4. QED
    BY <2>1, <2>3
<1>4. QED
  BY <1>2, <1>3

\* The elements of a list that one is added to, or whose first is taken.
LEMMA AppendAt ==
  ASSUME NEW s, IsSeq(s), NEW m
  PROVE  LET r == Append(s, m) IN
         /\ Len(r) = Len(s) + 1 /\ DOMAIN r = 1..(Len(s) + 1)
         /\ r = [i \in 1..(Len(s) + 1) |-> IF i = Len(s) + 1 THEN m ELSE s[i]]
<1> DEFINE R == {s[i] : i \in DOMAIN s}
           T == R \cup {m}
           r == Append(s, m)
<1>1. s \in Seq(T) /\ m \in T
  <2>1. s \in Seq(R)
    BY DEF IsSeq
  <2> HIDE DEF R
  <2>2. QED
    BY <2>1
<1> HIDE DEF T
<1>2. /\ Len(s) \in Nat
      /\ r \in Seq(T) /\ Len(r) = Len(s) + 1 /\ DOMAIN r = 1..(Len(s) + 1)
      /\ \A i \in 1..Len(s) : r[i] = s[i]
      /\ r[Len(s) + 1] = m
  BY <1>1, AppendProperties
<1>3. r = [i \in 1..(Len(s) + 1) |-> r[i]]
  <2> HIDE DEF r
  <2>1. QED
    BY <1>2
<1> HIDE DEF r
<1>4. \A i \in 1..(Len(s) + 1) : r[i] = IF i = Len(s) + 1 THEN m ELSE s[i]
  BY <1>2
<1>5. QED
  BY <1>2, <1>3, <1>4 DEF r

LEMMA TailAt ==
  ASSUME NEW s, IsSeq(s), s # <<>>
  PROVE  \E n \in Nat : /\ Len(s) = n + 1 /\ DOMAIN s = 1..(n + 1) /\ Head(s) = s[1]
                        /\ Len(Tail(s)) = n /\ Tail(s) = [i \in 1..n |-> s[i + 1]]
<1> DEFINE R == {s[i] : i \in DOMAIN s}
           r == Tail(s)
<1>1. s \in Seq(R)
  BY DEF IsSeq
<1> HIDE DEF R
<1>2. /\ Len(s) \in Nat /\ DOMAIN s = 1..Len(s) /\ Len(s) # 0 /\ Head(s) = s[1]
      /\ r \in Seq(R) /\ Len(r) = Len(s) - 1
      /\ \A i \in 1..(Len(s) - 1) : r[i] = s[i + 1]
  BY <1>1, HeadTailProperties, EmptySeq
<1> HIDE DEF r
<1>3. PICK n : n = Len(s) - 1
  OBVIOUS
<1>4. /\ n \in Nat /\ Len(s) = n + 1 /\ DOMAIN s = 1..(n + 1)
      /\ r \in Seq(R) /\ Len(r) = n /\ \A i \in 1..n : r[i] = s[i + 1]
  BY <1>2, <1>3
<1>5. r = [i \in 1..n |-> s[i + 1]]
  <2>1. r = [i \in 1..n |-> r[i]]
    BY <1>4
  <2>2. QED
    BY <1>4, <2>1
<1>6. QED
  BY <1>2, <1>4, <1>5 DEF r

LEMMA TakenAt ==
  ASSUME NEW Q, Queues(Q), NEW t \in Tasks, NEW R, Taken(Q, R, t)
  PROVE  /\ Q[t] # <<>> /\ 1 \in DOMAIN Q[t] /\ Head(Q[t]) = Q[t][1]
         /\ \E n \in Nat : /\ DOMAIN Q[t] = 1..(n + 1) /\ DOMAIN R[t] = 1..n
                           /\ \A i \in 1..n : R[t][i] = Q[t][i + 1]
         /\ \A u \in Tasks : u # t => R[u] = Q[u]
<1> DEFINE s == Q[t]
           r == Tail(s)
<1>1. IsSeq(s) /\ s # <<>> /\ R[t] = r /\ \A u \in Tasks : u # t => R[u] = Q[u]
  BY DEF Queues, Taken
<1> HIDE DEF s
<1>2. PICK n \in Nat : /\ Len(s) = n + 1 /\ DOMAIN s = 1..(n + 1) /\ Head(s) = s[1]
                      /\ Len(Tail(s)) = n /\ Tail(s) = [i \in 1..n |-> s[i + 1]]
  BY <1>1, TailAt
<1>3. r = [i \in 1..n |-> s[i + 1]]
  BY <1>2
<1> HIDE DEF r
<1>4. 1 \in DOMAIN s /\ DOMAIN s = 1..(n + 1) /\ DOMAIN r = 1..n /\ Head(s) = s[1]
      /\ \A i \in 1..n : r[i] = s[i + 1]
  BY <1>2, <1>3
<1>5. QED
  BY <1>1, <1>4 DEF s

\* A request that is answered: the answer is about its path.
LEMMA OneName ==
  ASSUME TreeInv
  PROVE  <<Junk>> \notin tree
<1>1. PICK n \in 1..11 : tree = {Created[i] : i \in 1..n}
  BY DEF TreeInv
<1>2. Junk \notin {"etc", "bin", "usr"}
  BY RequestAssumption
<1>3. ASSUME NEW i \in 1..n PROVE Created[i] # <<Junk>>
  BY <1>2 DEF Created
<1>4. QED
  BY <1>1, <1>3

LEMMA ServeRight ==
  ASSUME NullApart, ListInv, TreeInv, NEW c \in Owners, NEW r \in Requests,
         NEW a \in Opens(c, Named(r))
  PROVE  Right(tree, a.list, c, [handle |-> a.handle, error |-> a.error], r)
<1> DEFINE path == Named(r)
<1>1. IsSeq(r) /\ 1 \in DOMAIN r /\ Head(r) = r[1]
  <2>1. IsSeq(r) /\ 1 \in DOMAIN r
    BY RequestShapes
  <2>2. r # <<>>
    BY <2>1, EmptyIsSeq
  <2>3. QED
    BY <2>1, <2>2, TailAt
<1>2. /\ a.handle = NULL \/ Leads(a.list, c, a.handle)
      /\ a.handle # NULL => /\ Namei(path).error = "none"
                            /\ a.list[a.handle + 1].file = Namei(path).file
      /\ a.error = "ENOTDIR" => Namei(path).error = "ENOTDIR"
  BY Opened
<1>3. CASE r[1] = Junk
  <2>1. path.names = <<Junk>> /\ IsSeq(<<Junk>>) /\ Len(<<Junk>>) = 1
    <3>1. path.names = <<Junk>>
      BY <1>1, <1>3 DEF Named, PathOf
    <3>2. <<Junk>> = [i \in 1..1 |-> <<Junk>>[i]]
      OBVIOUS
    <3>3. QED
      BY <3>1, <3>2, Listed
  <2>2. <<Junk>> \notin tree /\ SubSeq(<<Junk>>, 1, 1) = <<Junk>>
    <3>1. <<Junk>> \notin tree
      BY OneName
    <3>2. SubSeq(<<Junk>>, 1, Len(<<Junk>>)) = <<Junk>>
      <4> PICK s : s = <<Junk>>
        OBVIOUS
      <4>1. IsSeq(s) /\ Len(s) # 0
        BY <2>1
      <4>2. SubSeq(s, 1, Len(s)) = s
        BY <4>1, Whole
      <4>3. QED
        BY <4>2
    <3>3. QED
      BY <2>1, <3>1, <3>2
  <2>3. Namei(path).error # "none" /\ Namei(path).error # "ENOTDIR"
    <3> HIDE DEF path
    <3>1. \A i \in 1..Len(path.names) : i = 1
      BY <2>1
    <3>2. QED
      BY <2>1, <2>2, <3>1, NameiRight
  <2>4. QED
    BY <1>2, <2>3 DEF Right
<1>4. CASE r[1] # Junk
  <2>1. path = r[1] /\ r = <<path>> /\ IsSeq(path.names) /\ Head(r) = path
    BY <1>1, <1>4, RequestShapes DEF Named, PathOf
  <2> HIDE DEF path
  <2>2. /\ Namei(path).error = "none" =>
              /\ path.absolute /\ Namei(path).file = path.names
              /\ path.names \in tree /\ (path.trailing => path.names \in Dirs)
        /\ Namei(path).error = "ENOTDIR" =>
              \E i \in 1..Len(path.names) : SubSeq(path.names, 1, i) \in tree \ Dirs
    BY <2>1, NameiRight
  <2>3. QED
    BY <1>2, <2>1, <2>2 DEF Right
<1>5. QED
  BY <1>3, <1>4

\* What was right stays right when the table keeps its handles.
LEMMA RightKept ==
  ASSUME NEW files, NEW old, NEW list,
         \A i \in DOMAIN old : old[i] # NULL => i \in DOMAIN list /\ list[i] = old[i],
         NEW c, NEW m, NEW to, Right(files, old, c, m, to)
  PROVE  Right(files, list, c, m, to)
<1>1. m.handle # NULL => Leads(list, c, m.handle) /\ list[m.handle + 1] = old[m.handle + 1]
  BY DEF Right, Leads
<1>2. QED
  BY <1>1 DEF Right

-----------------------------------------------------------------------------
(* The steps of the transfer.                                               *)

Mail == MailInv /\ ListInv

\* What a step does to a client it is not about, or to one with nothing sent.
Kept(d) ==
  /\ InFlight(d)' = InFlight(d) /\ payload'[d] = payload[d]
  /\ sent'[d] = sent[d] /\ opens'[d] = opens[d]
Away(d) == (InFlight(d) => sent[d] = 0) /\ (InFlight(d)' => sent'[d] = 0)

LEMMA ReadIsNat ==
  ASSUME Mail, Transfers, NEW d \in Owners
  PROVE  /\ HasRead(msg, d) \in Nat
         /\ HasRead(msg, d) > 0 => InFlight(d) /\ HasRead(msg, d) <= sent[d] /\ msg # NULL /\ msg.sender = d
         /\ InFlight(d) => sent[d] \in Nat /\ sent[d] <= Len(payload[d]) /\ payload[d] \in Requests
<1>1. InFlight(d) => sent[d] \in Nat /\ sent[d] <= Len(payload[d]) /\ payload[d] \in Requests
  BY DEF Transfers, ClientOK, InFlight
<1>2. CASE msg # NULL /\ msg.sender = d
  <2>1. InFlight(d) /\ Len(msg.data) \in 1 .. sent[d]
    BY <1>2 DEF Transfers, ServerOK, BeginningOf
  <2>2. QED
    BY <1>1, <1>2, <2>1 DEF HasRead
<1>3. CASE ~(msg # NULL /\ msg.sender = d)
  BY <1>1, <1>3 DEF HasRead
<1>4. QED
  BY <1>2, <1>3

\* Steps that leave the queue of the server alone.
LEMMA NumberedQuiet ==
  ASSUME Mail, Transfers, queue'[Fs] = queue[Fs], msg' = msg,
         pc'[Fs] = "serve" <=> pc[Fs] = "serve",
         \A d \in Owners : Kept(d) \/ Away(d)
  PROVE  (\E num : Numbered(num)') /\ ServerOK'
<1>1. PICK num : Numbered(num)
  BY DEF Transfers
<1>2. \A d \in Owners : HasRead(msg', d) = HasRead(msg, d)
  BY DEF HasRead
<1>3. \A i \in DOMAIN queue[Fs] : queue[Fs][i].sender \in Owners
  BY DEF Mail, MailInv, Sent
<1>4. ASSUME NEW i \in DOMAIN queue[Fs] PROVE Kept(queue[Fs][i].sender)
  <2> DEFINE d == queue[Fs][i].sender
  <2>1. d \in Owners /\ InFlight(d) /\ num[i] \in (HasRead(msg, d) + 1) .. sent[d]
    BY <1>1, <1>3 DEF Numbered
  <2>2. HasRead(msg, d) \in Nat /\ sent[d] # 0
    BY <2>1, ReadIsNat
  <2>3. QED
    BY <2>1, <2>2 DEF Away
<1>5. Numbered(num)'
  <2>1. ASSUME NEW i \in DOMAIN queue[Fs]
        PROVE  /\ InFlight(queue[Fs][i].sender)'
               /\ num[i] \in (HasRead(msg, queue[Fs][i].sender) + 1) .. sent'[queue[Fs][i].sender]
               /\ queue[Fs][i] = Fragment(queue[Fs][i].sender, num[i])'
    <3> PICK d \in Owners : d = queue[Fs][i].sender
      BY <1>3
    <3>1. /\ InFlight(d) /\ num[i] \in (HasRead(msg, d) + 1) .. sent[d]
          /\ queue[Fs][i] = Fragment(d, num[i])
      BY <1>1 DEF Numbered
    <3>2. Kept(d)
      BY <1>4
    <3>3. Fragment(d, num[i])' = Fragment(d, num[i])
      BY <3>2 DEF Fragment, Kept
    <3>4. InFlight(d)' /\ num[i] \in (HasRead(msg, d) + 1) .. sent'[d]
      BY <3>1, <3>2 DEF Kept
    <3>5. QED
      BY <3>1, <3>3, <3>4
  <2>2. ASSUME NEW c \in Owners, InFlight(c)', NEW n \in (HasRead(msg, c) + 1) .. sent'[c]
        PROVE  \E i \in DOMAIN queue[Fs] : queue[Fs][i].sender = c /\ num[i] = n
    <3>1. CASE Kept(c)
      BY <1>1, <2>2, <3>1 DEF Numbered, Kept
    <3>2. CASE Away(c)
      <4>1. HasRead(msg, c) \in Nat /\ sent'[c] = 0
        BY <2>2, <3>2, ReadIsNat DEF Away
      <4>2. QED
        BY <4>1
    <3>3. QED
      BY <3>1, <3>2
  <2>3. \A i, j \in DOMAIN queue[Fs] :
          i < j /\ queue[Fs][i].sender = queue[Fs][j].sender => num[i] < num[j]
    BY <1>1 DEF Numbered
  <2>4. \A i \in DOMAIN queue[Fs] : HasRead(msg', queue'[Fs][i].sender) = HasRead(msg, queue[Fs][i].sender)
    BY <1>2, <1>3
  <2>5. QED
    BY <1>2, <2>1, <2>2, <2>3, <2>4 DEF Numbered
<1>6. ServerOK'
  <2>1. pc'[Fs] = "serve" => msg' # NULL
    BY DEF Transfers, ServerOK
  <2>2. ASSUME msg # NULL PROVE BeginningOf(msg.sender, Len(msg.data), Len(payload[msg.sender]))'
    <3>1. PICK d \in Owners : d = msg.sender
      BY <2>2 DEF Mail, MailInv, Sent
    <3> PICK k : k = Len(msg.data)
      OBVIOUS
    <3>2. BeginningOf(d, k, Len(payload[d]))
      BY <2>2, <3>1 DEF Transfers, ServerOK
    <3>3. Kept(d)
      <4>1. InFlight(d) /\ k \in 1 .. sent[d]
        BY <3>2 DEF BeginningOf
      <4>2. InFlight(d) /\ sent[d] # 0
        BY <4>1
      <4>3. QED
        BY <3>1, <4>2 DEF Away
    <3>4. BeginningOf(d, k, Len(payload[d]))'
      BY <3>2, <3>3 DEF BeginningOf, Kept
    <3>5. QED
      BY <3>1, <3>4
  <2>3. QED
    BY <2>1, <2>2 DEF ServerOK
<1>7. QED
  BY <1>5, <1>6

\* A step changes one client; the others stay as they are.
LEMMA OthersKept ==
  ASSUME Mail, ClientVarsOK, NEW d \in Owners, queue'[d] = queue[d], pc'[d] = pc[d],
         payload'[d] = payload[d], sent'[d] = sent[d], opens'[d] = opens[d],
         tree' = tree,
         \A i \in DOMAIN openfile :
           openfile[i] # NULL => i \in DOMAIN openfile' /\ openfile'[i] = openfile[i]
  PROVE  Kept(d) /\ (ClientOK(d) => ClientOK(d)')
<1>1. Kept(d)
  BY DEF Kept, InFlight
<1>2. ASSUME ClientOK(d) PROVE ClientOK(d)'
  <2>1. ASSUME queue[d] # <<>> PROVE Right(tree, openfile', d, queue[d][1], payload[d])
    BY <1>2, <2>1, RightKept DEF ClientOK
  <2>2. QED
    BY <1>2, <2>1 DEF ClientOK
<1>3. QED
  BY <1>1, <1>2

\* The parts of the invariant that the steps of the clients have in common.
Talks == Mail /\ TreeInv /\ ClientVarsOK /\ Transfers

LEMMA QuietStep ==
  ASSUME Talks, queue' = queue, msg' = msg, tree' = tree, openfile' = openfile,
         pc'[Fs] = "serve" <=> pc[Fs] = "serve",
         NEW c \in Owners,
         \A d \in Owners \ {c} : /\ pc'[d] = pc[d] /\ payload'[d] = payload[d]
                                 /\ sent'[d] = sent[d] /\ opens'[d] = opens[d],
         Kept(c) \/ Away(c), ClientOK(c)'
  PROVE  Transfers'
<1>1. ASSUME NEW d \in Owners \ {c} PROVE Kept(d) /\ (ClientOK(d) => ClientOK(d)')
  BY OthersKept DEF Talks
<1>2. \A d \in Owners : Kept(d) \/ Away(d)
  BY <1>1
<1>3. (\E num : Numbered(num)') /\ ServerOK'
  BY <1>2, NumberedQuiet DEF Talks
<1>4. \A d \in Owners : ClientOK(d)'
  BY <1>1 DEF Talks, Transfers
<1>5. QED
  BY <1>3, <1>4 DEF Transfers

LEMMA MovesBy ==
  ASSUME Talks, NEW t \in Tasks, NEW where, pc' = [pc EXCEPT ![t] = where]
  PROVE  /\ pc' = [u \in Tasks |-> pc'[u]]
         /\ pc'[t] = where /\ \A u \in Tasks : u # t => pc'[u] = pc[u]
BY DEF Talks, Mail, MailInv

LEMMA AnswersByOpen ==
  ASSUME Talks, NEW c \in Owners, NEW r \in Requests, Open(c, r)
  PROVE  Transfers'
<1>1. /\ pc[c] = "idle" /\ queue[c] = <<>>
      /\ UNCHANGED <<queue, msg, tree, openfile>>
      /\ \E where \in {"write", "idle"} : pc' = [pc EXCEPT ![c] = where]
      /\ opens' = [opens EXCEPT ![c] = opens[c] + 1]
      /\ payload' = [payload EXCEPT ![c] = r] /\ sent' = [sent EXCEPT ![c] = 0]
  BY DEF Open, At, Goes, Returns, tableVars, Talks, Transfers, ClientOK
<1>2. /\ pc'[c] \in {"write", "idle"} /\ \A u \in Tasks : u # c => pc'[u] = pc[u]
  BY <1>1, MovesBy, WhoIsWho
<1>3. /\ payload'[c] = r /\ sent'[c] = 0
      /\ \A d \in Owners \ {c} : payload'[d] = payload[d] /\ sent'[d] = sent[d] /\ opens'[d] = opens[d]
  BY <1>1 DEF Talks, ClientVarsOK
<1>4. Away(c)
  BY <1>1, <1>3 DEF Away, InFlight
<1>5. ClientOK(c)'
  <2>1. Len(r) \in Nat /\ Len(r) # 0
    BY RequestShapes
  <2>2. QED
    BY <1>1, <1>2, <1>3, <2>1 DEF ClientOK, Waiting
<1>6. QED
  BY <1>1, <1>2, <1>3, <1>4, <1>5, WhoIsWho, QuietStep

LEMMA AnswersByGivesUp ==
  ASSUME Talks, NEW c \in Owners, GivesUp(c), ~disturbed'
  PROVE  Transfers'
<1>1. /\ pc[c] \in {"write", "read"}
      /\ UNCHANGED <<queue, msg, tree, openfile, payload, sent, opens>>
      /\ pc' = [pc EXCEPT ![c] = "idle"] /\ ~(sent[c] > 0)
  BY DEF GivesUp, At, Goes, Returns, tableVars
<1>2. /\ pc'[c] = "idle" /\ \A u \in Tasks : u # c => pc'[u] = pc[u]
  BY <1>1, MovesBy, WhoIsWho
<1>3. sent[c] = 0 /\ payload[c] \in Requests /\ queue[c] = <<>>
  <2>1. ClientOK(c)
    BY DEF Talks, Transfers
  <2>2. payload[c] \in Requests /\ sent[c] = 0
    BY <1>1, <2>1, RequestShapes DEF ClientOK
  <2>3. Len(payload[c]) # 0
    BY <2>2, RequestShapes
  <2>4. QED
    BY <1>1, <2>1, <2>2, <2>3 DEF ClientOK, Waiting
<1>4. Away(c)
  BY <1>1, <1>3 DEF Away
<1>5. ClientOK(c)'
  BY <1>1, <1>2, <1>3 DEF ClientOK, Waiting
<1>6. QED
  BY <1>1, <1>2, <1>4, <1>5, WhoIsWho, QuietStep

LEMMA AnswersByWaits ==
  ASSUME Talks, NEW t \in Tasks, Waits(t)
  PROVE  Transfers'
<1>1. /\ UNCHANGED <<queue, msg, tree, openfile, payload, sent, opens>>
      /\ pc[t] \in {"read", "retry", "window"}
      /\ \E where \in {"window", "asleep"} : pc' = [pc EXCEPT ![t] = where]
  BY DEF Waits, Reading, At, Goes, tableVars, clientVars
<1>2. /\ pc'[t] \in {"window", "asleep"} /\ \A u \in Tasks : u # t => pc'[u] = pc[u]
  BY <1>1, MovesBy
<1>3. CASE t = Fs
  <2>1. \A d \in Owners : Kept(d) /\ (ClientOK(d) => ClientOK(d)')
    BY <1>1, <1>2, <1>3, WhoIsWho, OthersKept DEF Talks
  <2>2. (\E num : Numbered(num)') /\ ServerOK'
    BY <1>1, <1>2, <1>3, <2>1, NumberedQuiet DEF Talks
  <2>3. QED
    BY <2>1, <2>2 DEF Transfers, Talks
<1>4. CASE t # Fs
  <2>1. t \in Owners /\ pc'[Fs] = pc[Fs]
    BY <1>2, <1>4, WhoIsWho
  <2>2. Kept(t) /\ ClientOK(t)'
    <3>1. ClientOK(t)
      BY <2>1 DEF Talks, Transfers
    <3>2. QED
      BY <1>1, <1>2, <3>1 DEF Kept, InFlight, ClientOK, Waiting
  <2>3. QED
    BY <1>1, <1>2, <2>1, <2>2, WhoIsWho, QuietStep
<1>5. QED
  BY <1>3, <1>4

LEMMA AnswersByStart ==
  ASSUME Talks, Start
  PROVE  Transfers'
<1>1. /\ UNCHANGED <<queue, msg, tree, openfile, payload, sent, opens>>
      /\ pc[Fs] = "start" /\ pc' = [pc EXCEPT ![Fs] = "read"]
  BY DEF Start, At, Goes, tableVars, clientVars
<1>2. /\ pc'[Fs] = "read" /\ \A u \in Tasks : u # Fs => pc'[u] = pc[u]
  BY <1>1, WhoIsWho, MovesBy
<1>3. \A d \in Owners : Kept(d) /\ (ClientOK(d) => ClientOK(d)')
  BY <1>1, <1>2, WhoIsWho, OthersKept DEF Talks
<1>4. (\E num : Numbered(num)') /\ ServerOK'
  BY <1>1, <1>2, <1>3, NumberedQuiet DEF Talks
<1>5. QED
  BY <1>3, <1>4 DEF Transfers, Talks

\* A client takes its answer: nothing of its request is on the way.
LEMMA AnswersByTakeAnswer ==
  ASSUME Talks, NEW c \in Owners, TakeAnswer(c)
  PROVE  /\ Transfers'
         /\ Right(tree, openfile, c, Head(queue[c]), payload[c])
<1>1. /\ queue[c] # <<>>
      /\ queue' = [queue EXCEPT ![c] = Tail(queue[c])]
      /\ UNCHANGED <<msg, tree, openfile, payload, sent, opens>>
      /\ pc' = [pc EXCEPT ![c] = "idle"]
  BY DEF TakeAnswer, Goes, Returns
<1>2. pc'[c] = "idle" /\ \A u \in Tasks : u # c => pc'[u] = pc[u]
  BY <1>1, MovesBy, WhoIsWho
<1>3. queue'[c] = Tail(queue[c]) /\ \A u \in Tasks : u # c => queue'[u] = queue[u]
  BY <1>1, WhoIsWho DEF Talks, Mail, MailInv
<1>4. /\ Len(queue[c]) = 1 /\ Right(tree, openfile, c, queue[c][1], payload[c])
      /\ pc[c] # "idle" /\ payload[c] \in Requests
  BY <1>1 DEF Talks, Transfers, ClientOK
<1>5. Head(queue[c]) = queue[c][1] /\ queue'[c] = <<>>
  <2>1. IsSeq(queue[c])
    BY WhoIsWho DEF Talks, Mail, MailInv
  <2>2. Head(queue[c]) = queue[c][1] /\ Len(Tail(queue[c])) = 0 /\ IsSeq(Tail(queue[c]))
    <3>1. PICK n \in Nat : /\ Len(queue[c]) = n + 1 /\ Head(queue[c]) = queue[c][1]
                           /\ Len(Tail(queue[c])) = n
      BY <1>1, <2>1, TailAt
    <3>2. QED
      BY <1>1, <1>4, <2>1, <3>1, Shorter
  <2>3. Tail(queue[c]) = <<>>
    BY <2>2, EmptySeq DEF IsSeq
  <2>4. QED
    BY <1>3, <2>2, <2>3
<1>6. Away(c)
  BY <1>1, <1>2 DEF Away, InFlight
<1>7. ClientOK(c)'
  BY <1>2, <1>5 DEF ClientOK, Waiting
<1>8. ASSUME NEW d \in Owners \ {c} PROVE Kept(d) /\ (ClientOK(d) => ClientOK(d)')
  BY <1>1, <1>2, <1>3, WhoIsWho, OthersKept DEF Talks
<1>9. (\E num : Numbered(num)') /\ ServerOK'
  <2>1. \A d \in Owners : Kept(d) \/ Away(d)
    BY <1>6, <1>8
  <2>2. QED
    BY <1>1, <1>2, <1>3, <2>1, WhoIsWho, NumberedQuiet DEF Talks
<1>10. \A d \in Owners : ClientOK(d)'
  BY <1>7, <1>8 DEF Talks, Transfers
<1>11. QED
  BY <1>4, <1>5, <1>9, <1>10 DEF Transfers

\* A client sends its next fragment: it has the next number.
LEMMA AnswersByWrite ==
  ASSUME Talks, NEW c \in Owners, Write(c)
  PROVE  Transfers'
<1> DEFINE Q == queue[Fs]
           n == Len(Q)
<1>1. /\ pc[c] = "write"
      /\ sent' = [sent EXCEPT ![c] = sent[c] + 1]
      /\ queue' = [queue EXCEPT ![Fs] = Append(Q, Fragment(c, sent[c] + 1))]
      /\ pc' = [pc EXCEPT ![Fs] = Woken(@), ![c] = IF sent'[c] = Len(payload[c]) THEN "read" ELSE @]
      /\ UNCHANGED <<msg, tree, openfile, payload, opens>>
  BY DEF Write, At, tableVars
<1>2. /\ ClientOK(c) /\ IsSeq(Q) /\ queue[c] = <<>> /\ payload[c] \in Requests
      /\ sent[c] \in Nat /\ sent[c] < Len(payload[c]) /\ Len(payload[c]) \in Nat
  <2>1. ClientOK(c) /\ IsSeq(Q)
    BY WhoIsWho DEF Talks, Transfers, Mail, MailInv
  <2>2. payload[c] \in Requests
    BY <1>1, <2>1 DEF ClientOK
  <2>3. QED
    BY <1>1, <2>1, <2>2, RequestShapes DEF ClientOK
<1>3. sent'[c] = sent[c] + 1 /\ \A d \in Owners \ {c} : sent'[d] = sent[d]
  BY <1>1 DEF Talks, ClientVarsOK
<1>4. /\ pc'[Fs] = Woken(pc[Fs])
      /\ pc'[c] = IF sent[c] + 1 = Len(payload[c]) THEN "read" ELSE "write"
      /\ \A d \in Owners \ {c} : pc'[d] = pc[d]
  BY <1>1, <1>3, WhoIsWho DEF Talks, Mail, MailInv
<1>5. /\ queue'[Fs] = Append(Q, Fragment(c, sent[c] + 1))
      /\ \A u \in Owners : queue'[u] = queue[u]
  BY <1>1, WhoIsWho DEF Talks, Mail, MailInv
<1>6. /\ n \in Nat /\ DOMAIN Q = 1..n /\ DOMAIN queue'[Fs] = 1..(n + 1)
      /\ queue'[Fs][n + 1] = Fragment(c, sent[c] + 1)
      /\ \A i \in 1..n : queue'[Fs][i] = Q[i]
  <2>1. n \in Nat /\ DOMAIN Q = 1..n
    BY <1>2, Shape
  <2>2. /\ DOMAIN queue'[Fs] = 1..(n + 1)
        /\ queue'[Fs] = [i \in 1..(n + 1) |-> IF i = n + 1 THEN Fragment(c, sent[c] + 1) ELSE Q[i]]
    BY <1>2, <1>5, AppendAt
  <2> HIDE DEF Q
  <2>3. QED
    BY <2>1, <2>2
<1>7. ClientOK(c)' /\ InFlight(c) /\ InFlight(c)'
  <2>1. queue'[c] = <<>> /\ queue[c] = <<>> /\ pc[c] = "write" /\ payload'[c] = payload[c]
    BY <1>1, <1>2, <1>5
  <2>2. sent'[c] = sent[c] + 1 /\ sent'[c] \in 0 .. Len(payload[c]) /\ payload[c] \in Requests
    BY <1>2, <1>3
  <2>3. \/ pc'[c] = "read" /\ sent'[c] = Len(payload[c])
        \/ pc'[c] = "write" /\ sent'[c] < Len(payload[c])
    BY <1>2, <1>4, <2>2
  <2>4. ClientOK(c)'
    BY <2>1, <2>2, <2>3 DEF ClientOK, Waiting
  <2>5. QED
    BY <2>1, <2>3, <2>4 DEF InFlight
<1>8. \A d \in Owners \ {c} : Kept(d) /\ (ClientOK(d) => ClientOK(d)')
  BY <1>1, <1>3, <1>4, <1>5, OthersKept DEF Talks
<1>9. PICK num : Numbered(num)
  BY DEF Talks, Transfers
<1>10. /\ InFlight(c) /\ InFlight(c)' /\ HasRead(msg, c) \in Nat /\ HasRead(msg, c) <= sent[c]
       /\ \A d \in Owners : HasRead(msg', d) = HasRead(msg, d)
  <2>1. InFlight(c) /\ InFlight(c)'
    BY <1>7
  <2>2. HasRead(msg, c) \in Nat /\ HasRead(msg, c) <= sent[c]
    BY <1>2, ReadIsNat DEF Talks
  <2>3. QED
    BY <1>1, <2>1, <2>2 DEF HasRead
<1>11. \A i \in 1..n : Q[i].sender \in Owners
  BY <1>6 DEF Talks, Mail, MailInv, Sent
<1> PICK new : new = [i \in 1..(n + 1) |-> IF i = n + 1 THEN sent[c] + 1 ELSE num[i]]
  OBVIOUS
<1>12. new[n + 1] = sent[c] + 1 /\ \A i \in 1..n : new[i] = num[i]
  BY <1>6
<1>13. \A i \in 1..n :
         /\ InFlight(Q[i].sender)
         /\ num[i] \in (HasRead(msg, Q[i].sender) + 1) .. sent[Q[i].sender]
         /\ Q[i] = Fragment(Q[i].sender, num[i])
  BY <1>6, <1>9 DEF Numbered
<1>14. ASSUME NEW d \in Owners, NEW i \in 1..(n + 1), queue'[Fs][i].sender = d
       PROVE  /\ InFlight(d)' /\ new[i] \in (HasRead(msg, d) + 1) .. sent'[d]
              /\ queue'[Fs][i] = Fragment(d, new[i])'
  <2>1. \A k : Fragment(d, k)' = Fragment(d, k)
    BY <1>1 DEF Fragment
  <2>2. CASE i = n + 1
    <3>1. queue'[Fs][i] = Fragment(c, new[i]) /\ d = c /\ new[i] = sent[c] + 1
      BY <1>6, <1>12, <1>14, <2>2 DEF Fragment
    <3>2. sent[c] + 1 \in (HasRead(msg, c) + 1) .. (sent[c] + 1)
      BY <1>2, <1>10
    <3>3. QED
      BY <1>3, <1>10, <2>1, <3>1, <3>2
  <2>3. CASE i # n + 1
    <3>1. i \in 1..n /\ queue'[Fs][i] = Q[i] /\ new[i] = num[i] /\ Q[i].sender = d
      BY <1>6, <1>12, <1>14, <2>3
    <3>2. InFlight(d) /\ num[i] \in (HasRead(msg, d) + 1) .. sent[d] /\ Q[i] = Fragment(d, num[i])
      BY <1>13, <3>1
    <3>3. InFlight(d)' /\ num[i] \in (HasRead(msg, d) + 1) .. sent'[d]
      <4>1. CASE d = c
        BY <1>2, <1>3, <1>10, <3>2, <4>1
      <4>2. CASE d # c
        BY <1>8, <3>2, <4>2 DEF Kept
      <4>3. QED
        BY <4>1, <4>2
    <3>4. QED
      BY <2>1, <3>1, <3>2, <3>3
  <2>4. QED
    BY <2>2, <2>3
<1>15. ASSUME NEW i \in 1..(n + 1), NEW j \in 1..(n + 1), i < j,
              queue'[Fs][i].sender = queue'[Fs][j].sender
       PROVE  new[i] < new[j]
  <2>1. i \in 1..n /\ queue'[Fs][i] = Q[i] /\ new[i] = num[i]
    BY <1>6, <1>12, <1>15
  <2>2. CASE j = n + 1
    <3>1. Q[i].sender = c /\ new[j] = sent[c] + 1
      BY <1>6, <1>12, <1>15, <2>1, <2>2 DEF Fragment
    <3>2. num[i] \in (HasRead(msg, c) + 1) .. sent[c]
      BY <1>13, <2>1, <3>1
    <3>3. QED
      BY <1>2, <1>10, <2>1, <3>1, <3>2
  <2>3. CASE j # n + 1
    <3>1. j \in 1..n /\ queue'[Fs][j] = Q[j] /\ new[j] = num[j]
      BY <1>6, <1>12, <2>3
    <3>2. QED
      BY <1>6, <1>9, <1>15, <2>1, <3>1 DEF Numbered
  <2>4. QED
    BY <2>2, <2>3
<1>16. ASSUME NEW d \in Owners, InFlight(d)', NEW k \in (HasRead(msg, d) + 1) .. sent'[d]
       PROVE  \E i \in 1..(n + 1) : queue'[Fs][i].sender = d /\ new[i] = k
  <2>1. CASE d = c /\ k = sent[c] + 1
    <3>1. n + 1 \in 1..(n + 1) /\ queue'[Fs][n + 1].sender = c
      BY <1>6 DEF Fragment
    <3>2. QED
      BY <1>12, <2>1, <3>1
  <2>2. CASE ~(d = c /\ k = sent[c] + 1)
    <3>1. InFlight(d) /\ k \in (HasRead(msg, d) + 1) .. sent[d]
      <4>1. CASE d = c
        BY <1>2, <1>3, <1>10, <1>16, <2>2, <4>1
      <4>2. CASE d # c
        BY <1>8, <1>16, <4>2 DEF Kept
      <4>3. QED
        BY <4>1, <4>2
    <3>2. PICK i \in 1..n : Q[i].sender = d /\ num[i] = k
      BY <1>6, <1>9, <3>1 DEF Numbered
    <3>3. i \in 1..(n + 1)
      BY <1>6
    <3>4. QED
      BY <1>6, <1>12, <3>2, <3>3
  <2>3. QED
    BY <2>1, <2>2
<1>17. \A i \in 1..(n + 1) : queue'[Fs][i].sender \in Owners
  <2>1. ASSUME NEW i \in 1..(n + 1) PROVE queue'[Fs][i].sender \in Owners
    <3>1. CASE i = n + 1
      BY <1>6, <3>1 DEF Fragment
    <3>2. CASE i # n + 1
      BY <1>6, <1>11, <3>2
    <3>3. QED
      BY <3>1, <3>2
  <2>2. QED
    BY <2>1
<1> HIDE DEF Q, n
<1>18. Numbered(new)'
  <2>1. ASSUME NEW i \in DOMAIN queue'[Fs]
        PROVE  /\ InFlight(queue[Fs][i].sender)'
               /\ new[i] \in (HasRead(msg', queue'[Fs][i].sender) + 1) .. sent'[queue'[Fs][i].sender]
               /\ queue'[Fs][i] = Fragment(queue[Fs][i].sender, new[i])'
    BY <1>6, <1>10, <1>14, <1>17
  <2>2. \A i, j \in DOMAIN queue'[Fs] :
          i < j /\ queue'[Fs][i].sender = queue'[Fs][j].sender => new[i] < new[j]
    BY <1>6, <1>15
  <2>3. \A d \in Owners : InFlight(d)' =>
          \A k \in (HasRead(msg', d) + 1) .. sent'[d] :
            \E i \in DOMAIN queue'[Fs] : queue'[Fs][i].sender = d /\ new[i] = k
    BY <1>6, <1>10, <1>16
  <2>4. QED
    BY <2>1, <2>2, <2>3 DEF Numbered
<1>19. ServerOK'
  <2>1. pc'[Fs] = "serve" <=> pc[Fs] = "serve"
    BY <1>4 DEF Woken
  <2>2. ASSUME msg # NULL PROVE BeginningOf(msg.sender, Len(msg.data), Len(payload[msg.sender]))'
    <3>1. PICK d \in Owners : d = msg.sender
      BY <2>2 DEF Talks, Mail, MailInv, Sent
    <3> PICK k : k = Len(msg.data)
      OBVIOUS
    <3>2. BeginningOf(d, k, Len(payload[d]))
      BY <2>2, <3>1 DEF Talks, Transfers, ServerOK
    <3>3. InFlight(d)' /\ k \in 1 .. sent'[d] /\ sent'[d] <= Len(payload[d])
      <4>1. CASE d = c
        BY <1>2, <1>3, <1>10, <3>2, <4>1 DEF BeginningOf
      <4>2. CASE d # c
        BY <1>8, <3>2, <4>2 DEF BeginningOf, Kept
      <4>3. QED
        BY <4>1, <4>2
    <3>4. BeginningOf(d, k, Len(payload[d]))'
      BY <1>1, <2>1, <3>2, <3>3 DEF BeginningOf
    <3>5. QED
      BY <1>1, <3>1, <3>4
  <2>3. QED
    BY <1>1, <2>1, <2>2 DEF ServerOK, Talks, Transfers
<1>20. \A d \in Owners : ClientOK(d)'
  BY <1>7, <1>8 DEF Talks, Transfers
<1>21. QED
  BY <1>18, <1>19, <1>20 DEF Transfers

\* The server reads the next fragment of a request.
LEMMA FirstIsNext ==
  ASSUME Talks, queue[Fs] # <<>>
  PROVE  \E c \in Owners :
           /\ c = Head(queue[Fs]).sender
           /\ InFlight(c) /\ HasRead(msg, c) + 1 <= sent[c]
           /\ Head(queue[Fs]) = Fragment(c, HasRead(msg, c) + 1)
           /\ \E num : Numbered(num) /\ num[1] = HasRead(msg, c) + 1
<1> DEFINE Q == queue[Fs]
<1>1. IsSeq(Q)
  BY WhoIsWho DEF Talks, Mail, MailInv
<1>2. /\ Len(Q) \in Nat /\ DOMAIN Q = 1..Len(Q) /\ 1 \in DOMAIN Q /\ Head(Q) = Q[1]
  BY <1>1, Shape, Shorter
<1>3. PICK c \in Owners : c = Q[1].sender
  BY <1>2 DEF Talks, Mail, MailInv, Sent
<1>4. PICK num : Numbered(num)
  BY DEF Talks, Transfers
<1>5. InFlight(c) /\ num[1] \in (HasRead(msg, c) + 1) .. sent[c] /\ Q[1] = Fragment(c, num[1])
  BY <1>2, <1>3, <1>4 DEF Numbered
<1>6. HasRead(msg, c) \in Nat /\ sent[c] \in Nat
  BY <1>5, ReadIsNat DEF Talks
<1>7. HasRead(msg, c) + 1 \in (HasRead(msg, c) + 1) .. sent[c]
  BY <1>5, <1>6
<1>8. PICK i \in DOMAIN Q : Q[i].sender = c /\ num[i] = HasRead(msg, c) + 1
  BY <1>4, <1>5, <1>7 DEF Numbered
<1>9. i = 1
  <2>1. SUFFICES ASSUME i # 1 PROVE FALSE
    OBVIOUS
  <2>2. 1 < i
    BY <1>2, <2>1
  <2>3. num[1] < num[i]
    BY <1>2, <1>3, <1>4, <1>8, <2>2 DEF Numbered
  <2>4. QED
    BY <1>5, <1>6, <1>8, <2>3
<1>10. QED
  BY <1>2, <1>3, <1>4, <1>5, <1>7, <1>8, <1>9

\* Steps that take the first fragment from the queue of the server.
LEMMA NumberedTail ==
  ASSUME Talks, Taken(queue, queue', Fs), UNCHANGED <<payload, sent, opens>>, \A d \in Owners : pc'[d] = pc[d],
         NEW c \in Owners, c = Head(queue[Fs]).sender,
         NEW num, Numbered(num), num[1] = HasRead(msg, c) + 1, HasRead(msg', c) = HasRead(msg, c) + 1,
         \A d \in Owners \ {c} : HasRead(msg', d) = HasRead(msg, d)
  PROVE  /\ \E new : Numbered(new)'
         /\ \A d \in Owners : InFlight(d)' = InFlight(d) /\ queue'[d] = queue[d]
<1>1. /\ 1 \in DOMAIN queue[Fs] /\ Head(queue[Fs]) = queue[Fs][1]
      /\ \E n \in Nat : /\ DOMAIN queue[Fs] = 1..(n + 1) /\ DOMAIN queue'[Fs] = 1..n
                        /\ \A i \in 1..n : queue'[Fs][i] = queue[Fs][i + 1]
      /\ \A u \in Tasks : u # Fs => queue'[u] = queue[u]
  <2>1. Queues(queue) /\ Fs \in Tasks
    BY WhoIsWho DEF Talks, Mail, MailInv, Queues
  <2>2. QED
    BY <2>1, TakenAt
<1>a. PICK Q : Q = queue[Fs]
  OBVIOUS
<1>2. PICK n \in Nat : /\ DOMAIN Q = 1..(n + 1) /\ DOMAIN queue'[Fs] = 1..n
                      /\ \A i \in 1..n : queue'[Fs][i] = Q[i + 1]
  BY <1>1, <1>a
<1>3. /\ DOMAIN Q = 1..(n + 1) /\ 1 \in DOMAIN Q /\ Q[1].sender = c
      /\ DOMAIN queue'[Fs] = 1..n /\ \A i \in 1..n : queue'[Fs][i] = Q[i + 1]
      /\ \A d \in Owners : queue'[d] = queue[d]
  BY <1>1, <1>2, <1>a, WhoIsWho
<1>4. \A d \in Owners : InFlight(d)' = InFlight(d)
  BY <1>3 DEF InFlight
<1>b. PICK new : new = [i \in 1..n |-> num[i + 1]]
  OBVIOUS
<1>5. \A i \in 1..n : new[i] = num[i + 1] /\ i + 1 \in DOMAIN Q /\ 1 < i + 1
  BY <1>3, <1>b
<1>6. \A d, k : Fragment(d, k)' = Fragment(d, k)
  BY DEF Fragment
<1>7. \A i \in DOMAIN Q :
        /\ Q[i].sender \in Owners /\ InFlight(Q[i].sender)
        /\ num[i] \in (HasRead(msg, Q[i].sender) + 1) .. sent[Q[i].sender]
        /\ Q[i] = Fragment(Q[i].sender, num[i])
  BY <1>a DEF Numbered, Talks, Mail, MailInv, Sent
<1>8. HasRead(msg, c) \in Nat
  BY ReadIsNat DEF Talks
<1>9. ASSUME NEW i \in 1..n, NEW d \in Owners, queue'[Fs][i].sender = d
      PROVE  /\ InFlight(d)' /\ new[i] \in (HasRead(msg', d) + 1) .. sent'[d]
             /\ queue'[Fs][i] = Fragment(d, new[i])'
  <2>1. Q[i + 1].sender = d /\ queue'[Fs][i] = Q[i + 1]
    BY <1>3, <1>9
  <2>2. InFlight(d) /\ new[i] \in (HasRead(msg, d) + 1) .. sent[d] /\ Q[i + 1] = Fragment(d, new[i])
    BY <1>5, <1>7, <2>1
  <2>3. new[i] \in (HasRead(msg', d) + 1) .. sent[d]
    <3>1. CASE d = c
      <4>1. 1 \in DOMAIN Q /\ Q[1].sender = c
        BY <1>3
      <4>2. num[1] < new[i]
        BY <1>5, <1>a, <2>1, <3>1, <4>1 DEF Numbered
      <4>3. QED
        BY <1>8, <2>2, <3>1, <4>2
    <3>2. CASE d # c
      BY <2>2, <3>2
    <3>3. QED
      BY <3>1, <3>2
  <2>4. QED
    BY <1>4, <1>6, <2>1, <2>2, <2>3
<1>10. ASSUME NEW i \in 1..n, NEW j \in 1..n, i < j,
              queue'[Fs][i].sender = queue'[Fs][j].sender
       PROVE  new[i] < new[j]
  <2>1. Q[i + 1].sender = Q[j + 1].sender /\ i + 1 < j + 1
    BY <1>3, <1>10
  <2>2. QED
    BY <1>5, <1>a, <2>1 DEF Numbered
<1>11. \A d \in Owners : InFlight(d)' =>
         \A k \in (HasRead(msg', d) + 1) .. sent'[d] :
           \E i \in 1..n : queue'[Fs][i].sender = d /\ new[i] = k
  <2> SUFFICES ASSUME NEW d \in Owners, InFlight(d)', NEW k \in (HasRead(msg', d) + 1) .. sent'[d]
               PROVE  \E i \in 1..n : queue'[Fs][i].sender = d /\ new[i] = k
    OBVIOUS
  <2>1. InFlight(d) /\ k \in (HasRead(msg, d) + 1) .. sent[d] /\ ~(d = c /\ k = num[1])
    <3>1. CASE d = c
      BY <1>4, <1>8, <3>1
    <3>2. CASE d # c
      BY <1>4, <3>2
    <3>3. QED
      BY <3>1, <3>2
  <2>2. PICK j \in DOMAIN Q : Q[j].sender = d /\ num[j] = k
    BY <1>a, <2>1 DEF Numbered
  <2>3. j # 1
    BY <1>3, <2>1, <2>2
  <2>4. j - 1 \in 1..n /\ (j - 1) + 1 = j
    BY <1>3, <2>3
  <2>5. queue'[Fs][j - 1].sender = d /\ new[j - 1] = k
    BY <1>3, <1>5, <2>2, <2>4
  <2>6. QED
    BY <2>4, <2>5
<1>12. \A i \in 1..n : queue'[Fs][i].sender \in Owners
  BY <1>3, <1>5, <1>7
<1>13. Numbered(new)'
  <2>1. \A i \in DOMAIN queue'[Fs] :
          /\ InFlight(queue[Fs][i].sender)'
          /\ new[i] \in (HasRead(msg', queue'[Fs][i].sender) + 1) .. sent'[queue'[Fs][i].sender]
          /\ queue'[Fs][i] = Fragment(queue[Fs][i].sender, new[i])'
    BY <1>3, <1>9, <1>12
  <2>2. \A i, j \in DOMAIN queue'[Fs] :
          i < j /\ queue'[Fs][i].sender = queue'[Fs][j].sender => new[i] < new[j]
    BY <1>3, <1>10
  <2>3. \A d \in Owners : InFlight(d)' =>
          \A k \in (HasRead(msg', d) + 1) .. sent'[d] :
            \E i \in DOMAIN queue'[Fs] : queue'[Fs][i].sender = d /\ new[i] = k
    <3>1. DOMAIN queue'[Fs] = 1..n
      BY <1>3
    <3>2. QED
      BY <1>11, <3>1
  <2>4. QED
    BY <2>1, <2>2, <2>3 DEF Numbered
<1>14. QED
  BY <1>3, <1>4, <1>13

\* The message the server has when it has read the first fragment, or the next.
Piece(m, c, k, n) ==
  /\ n \in Nat /\ sent[c] \in Nat /\ sent[c] <= n /\ k <= n
  /\ DOMAIN m = {"sender", "msg_size", "data", "size", "of"}
  /\ m.sender = c /\ m.of = opens[c] /\ m.msg_size = 2 * n - 1
  /\ m.data = payload[c][k] /\ m.size = IF k < n THEN 2 ELSE 1

LEMMA FragmentIs ==
  ASSUME Talks, NEW c \in Owners, InFlight(c), NEW k \in Nat, k <= sent[c]
  PROVE  Piece(Fragment(c, k), c, k, Len(payload[c]))
<1>1. sent[c] \in Nat /\ sent[c] <= Len(payload[c]) /\ payload[c] \in Requests
  BY ReadIsNat DEF Talks
<1>2. Len(payload[c]) \in Nat /\ k <= Len(payload[c])
  BY <1>1, RequestShapes
<1>3. PICK m : m = Fragment(c, k)
  OBVIOUS
<1>4. /\ DOMAIN m = {"sender", "msg_size", "data", "size", "of"}
      /\ m.sender = c /\ m.of = opens[c] /\ m.msg_size = 2 * (Len(payload[c]) - 1) + 1
      /\ m.data = payload[c][k] /\ m.size = IF k < Len(payload[c]) THEN 2 ELSE 1
  BY <1>3 DEF Fragment, Size, PayloadSize
<1>5. 2 * (Len(payload[c]) - 1) + 1 = 2 * Len(payload[c]) - 1
  BY <1>2
<1>6. Piece(m, c, k, Len(payload[c]))
  BY <1>1, <1>2, <1>4, <1>5 DEF Piece
<1>7. QED
  BY <1>3, <1>6

LEMMA AnswersByReadFirst ==
  ASSUME NullApart, Talks, ReadFirst
  PROVE  Transfers'
<1>a. PICK h : h = Head(queue[Fs])
  OBVIOUS
<1>1. /\ msg = NULL /\ queue[Fs] # <<>> /\ pc[Fs] \in {"read", "retry"}
      /\ msg' = [h EXCEPT !.data = <<h.data>>]
      /\ pc' = [pc EXCEPT ![Fs] = IF h.msg_size <= PayloadSize THEN "serve" ELSE "read"]
      /\ queue' = [queue EXCEPT ![Fs] = Tail(queue[Fs])]
      /\ UNCHANGED <<tree, openfile, payload, sent, opens>>
  BY <1>a DEF ReadFirst, Reading, Goes, tableVars, clientVars
<1>2. PICK c \in Owners :
        /\ c = h.sender /\ InFlight(c) /\ HasRead(msg, c) + 1 <= sent[c] /\ h = Fragment(c, HasRead(msg, c) + 1)
        /\ \E num : Numbered(num) /\ num[1] = HasRead(msg, c) + 1
  BY <1>1, <1>a, FirstIsNext
<1>b. PICK n : n = Len(payload[c])
  OBVIOUS
<1>3. \A d \in Owners : HasRead(msg, d) = 0
  BY <1>1 DEF HasRead
<1>4. /\ n \in Nat /\ sent[c] \in Nat /\ sent[c] <= n /\ 1 <= sent[c]
      /\ DOMAIN h = {"sender", "msg_size", "data", "size", "of"}
      /\ h.sender = c /\ h.of = opens[c] /\ h.msg_size = 2 * n - 1
      /\ h.data = payload[c][1] /\ h.size = IF 1 < n THEN 2 ELSE 1
  <2>1. 1 \in Nat /\ 1 <= sent[c] /\ h = Fragment(c, 1)
    BY <1>2, <1>3
  <2>2. Piece(h, c, 1, n)
    BY <1>2, <1>b, <2>1, FragmentIs
  <2>3. QED
    BY <2>1, <2>2 DEF Piece
<1>5. /\ DOMAIN msg' = {"sender", "msg_size", "data", "size", "of"}
      /\ msg'.sender = c /\ msg'.of = opens[c] /\ msg'.msg_size = 2 * n - 1
      /\ msg'.data = <<payload[c][1]>> /\ msg'.size = IF 1 < n THEN 2 ELSE 1
      /\ msg' # NULL
  BY <1>1, <1>4 DEF NullApart
<1>6. Len(msg'.data) = 1 /\ msg'.data = [i \in 1..1 |-> payload[c][i]]
  BY <1>5
<1>7. /\ pc'[Fs] = "serve" <=> 1 = n
      /\ \A d \in Owners : pc'[d] = pc[d]
  <2>1. pc'[Fs] = IF h.msg_size <= 2 THEN "serve" ELSE "read"
    BY <1>1, WhoIsWho, MovesBy DEF PayloadSize
  <2>2. h.msg_size <= 2 <=> 1 = n
    BY <1>4
  <2>3. QED
    BY <1>1, <2>1, <2>2, WhoIsWho, MovesBy
<1>8. HasRead(msg', c) = HasRead(msg, c) + 1 /\ \A d \in Owners \ {c} : HasRead(msg', d) = HasRead(msg, d)
  BY <1>3, <1>5, <1>6 DEF HasRead
<1>9. PICK num : Numbered(num) /\ num[1] = HasRead(msg, c) + 1
  BY <1>2
<1>10. /\ \E new : Numbered(new)'
       /\ \A d \in Owners : InFlight(d)' = InFlight(d) /\ queue'[d] = queue[d]
  <2>1. c = Head(queue[Fs]).sender
    BY <1>4, <1>a
  <2>2. Taken(queue, queue', Fs)
    BY <1>1 DEF Taken
  <2>3. QED
    BY <1>1, <1>7, <1>8, <1>9, <2>1, <2>2, NumberedTail
<1>11. BeginningOf(c, 1, n)'
  <2>1. InFlight(c)' /\ 1 \in 1 .. sent'[c] /\ sent'[c] <= n
    BY <1>1, <1>2, <1>4, <1>10
  <2>2. msg'.size = IF 1 < n THEN 2 * 1 ELSE 2 * n - 1
    BY <1>4, <1>5
  <2>3. QED
    BY <1>1, <1>5, <1>6, <1>7, <2>1, <2>2 DEF BeginningOf
<1>12. ServerOK'
  BY <1>1, <1>b, <1>5, <1>6, <1>11 DEF ServerOK
<1>13. \A d \in Owners : ClientOK(d)'
  BY <1>1, <1>7, <1>10, OthersKept DEF Talks, Transfers
<1>14. QED
  BY <1>10, <1>12, <1>13 DEF Transfers

LEMMA AnswersByReadMore ==
  ASSUME NullApart, Talks, ReadMore, ~disturbed', failure' = "none"
  PROVE  Transfers'
<1>1. PICK h : h = Head(queue[Fs])
  OBVIOUS
<1>2. /\ msg # NULL /\ queue[Fs] # <<>> /\ pc[Fs] \in {"read", "retry"}
      /\ msg' = Joined(msg, h) /\ h.sender = msg.sender
      /\ pc' = [pc EXCEPT ![Fs] = IF msg.size + h.size = msg.msg_size THEN "serve" ELSE "read"]
      /\ queue' = [queue EXCEPT ![Fs] = Tail(queue[Fs])]
      /\ UNCHANGED <<tree, openfile, payload, sent, opens>>
  <2>1. PICK joined : joined = Joined(msg, h)
    OBVIOUS
  <2>2. /\ msg # NULL /\ queue[Fs] # <<>> /\ pc[Fs] \in {"read", "retry"}
        /\ msg' = joined /\ h.sender = msg.sender
        /\ pc' = [pc EXCEPT ![Fs] = IF joined.size = msg.msg_size THEN "serve" ELSE "read"]
        /\ queue' = [queue EXCEPT ![Fs] = Tail(queue[Fs])]
        /\ UNCHANGED <<tree, openfile, payload, sent, opens>>
    BY <1>1, <2>1 DEF ReadMore, Reading, Goes, tableVars, clientVars
  <2>3. PICK c \in Owners : c = msg.sender
    BY <2>2 DEF Talks, Mail, MailInv, Sent
  <2>4. "size" \in DOMAIN msg
    BY <2>2, <2>3 DEF Talks, Transfers, ServerOK, BeginningOf
  <2>5. joined.size = msg.size + h.size
    BY <2>1, <2>4 DEF Joined
  <2>6. QED
    BY <2>1, <2>2, <2>5
<1>3. PICK c \in Owners :
        /\ c = h.sender /\ InFlight(c) /\ HasRead(msg, c) + 1 <= sent[c]
        /\ h = Fragment(c, HasRead(msg, c) + 1)
        /\ \E num : Numbered(num) /\ num[1] = HasRead(msg, c) + 1
  BY <1>1, <1>2, FirstIsNext
<1>4. PICK n : n = Len(payload[c])
  OBVIOUS
<1>5. PICK k : k = Len(msg.data)
  OBVIOUS
<1>6. BeginningOf(c, k, n)
  BY <1>2, <1>3, <1>4, <1>5 DEF Talks, Transfers, ServerOK
<1>7. /\ k \in Nat /\ k # 0 /\ HasRead(msg, c) = k /\ k + 1 <= sent[c] /\ h = Fragment(c, k + 1)
      /\ sent[c] \in Nat
  <2>1. HasRead(msg, c) = k /\ sent[c] \in Nat
    BY <1>2, <1>3, <1>5, ReadIsNat DEF HasRead, Talks
  <2>2. QED
    BY <1>3, <1>6, <2>1 DEF BeginningOf
<1>8. /\ n \in Nat /\ sent[c] <= n /\ k + 1 <= n
      /\ h.data = payload[c][k + 1] /\ h.size = IF k + 1 < n THEN 2 ELSE 1
  <2>1. PICK j \in Nat : j = k + 1
    BY <1>7
  <2>2. j <= sent[c] /\ h = Fragment(c, j)
    BY <1>7, <2>1
  <2>3. Piece(h, c, j, n)
    BY <1>3, <1>4, <2>2, FragmentIs
  <2>4. QED
    BY <2>1, <2>3 DEF Piece
<1>9. /\ DOMAIN msg = {"sender", "msg_size", "data", "size", "of"}
      /\ msg.data = [i \in 1..k |-> payload[c][i]]
      /\ msg.msg_size = 2 * n - 1 /\ msg.of = opens[c] /\ msg.size = 2 * k /\ msg.sender = c
  BY <1>2, <1>3, <1>6, <1>7, <1>8 DEF BeginningOf
<1>10. /\ DOMAIN msg' = {"sender", "msg_size", "data", "size", "of"}
       /\ msg'.sender = c /\ msg'.of = opens[c] /\ msg'.msg_size = 2 * n - 1
       /\ msg'.data = Append(msg.data, h.data) /\ msg'.size = msg.size + h.size
       /\ msg' # NULL
  <2>1. /\ DOMAIN msg' = DOMAIN msg
        /\ msg'.sender = msg.sender /\ msg'.of = msg.of /\ msg'.msg_size = msg.msg_size
        /\ msg'.data = Append(msg.data, h.data) /\ msg'.size = msg.size + h.size
    BY <1>2, <1>9 DEF Joined
  <2>2. QED
    BY <1>9, <2>1 DEF NullApart
<1>11. Len(msg'.data) = k + 1 /\ msg'.data = [i \in 1..(k + 1) |-> payload[c][i]]
  <2>1. PICK s : s = msg.data
    OBVIOUS
  <2>2. s = [i \in 1..k |-> payload[c][i]] /\ s = [i \in 1..k |-> s[i]]
    BY <1>9, <2>1
  <2>3. IsSeq(s) /\ Len(s) = k
    BY <1>7, <2>2, Listed
  <2>4. PICK r : r = Append(s, payload[c][k + 1])
    OBVIOUS
  <2>5. /\ Len(r) = k + 1
        /\ r = [i \in 1..(k + 1) |-> IF i = k + 1 THEN payload[c][k + 1] ELSE s[i]]
    BY <2>3, <2>4, AppendAt
  <2>6. \A i \in 1..(k + 1) : i # k + 1 => i \in 1..k
    BY <1>7
  <2>7. \A i \in 1..(k + 1) : (IF i = k + 1 THEN payload[c][k + 1] ELSE s[i]) = payload[c][i]
    BY <2>2, <2>6
  <2>8. r = [i \in 1..(k + 1) |-> payload[c][i]]
    BY <2>5, <2>7
  <2>9. msg'.data = r
    BY <1>8, <1>10, <2>1, <2>4
  <2>10. QED
    BY <2>5, <2>8, <2>9
<1>12. /\ msg'.size = IF k + 1 < n THEN 2 * (k + 1) ELSE 2 * n - 1
       /\ msg'.size = 2 * n - 1 <=> k + 1 = n
  <2>1. msg'.size = 2 * k + IF k + 1 < n THEN 2 ELSE 1
    BY <1>8, <1>9, <1>10
  <2>2. CASE k + 1 < n
    <3>1. msg'.size = 2 * (k + 1)
      BY <1>7, <2>1, <2>2
    <3>2. QED
      BY <1>7, <1>8, <2>2, <3>1
  <2>3. CASE k + 1 = n
    <3>1. msg'.size = 2 * n - 1
      BY <1>7, <1>8, <2>1, <2>3
    <3>2. QED
      BY <1>7, <1>8, <2>3, <3>1
  <2>4. QED
    BY <1>7, <1>8, <2>2, <2>3
<1>13. /\ pc'[Fs] = "serve" <=> k + 1 = n
       /\ \A d \in Owners : pc'[d] = pc[d]
  <2>1. PICK where : where = IF msg.size + h.size = msg.msg_size THEN "serve" ELSE "read"
    OBVIOUS
  <2>2. pc' = [pc EXCEPT ![Fs] = where]
    BY <1>2, <2>1
  <2>3. pc'[Fs] = where /\ \A u \in Tasks : u # Fs => pc'[u] = pc[u]
    BY <2>2, WhoIsWho, MovesBy
  <2>4. where = "serve" <=> k + 1 = n
    BY <1>9, <1>10, <1>12, <2>1
  <2>5. QED
    BY <2>3, <2>4, WhoIsWho
<1>14. HasRead(msg', c) = HasRead(msg, c) + 1 /\ \A d \in Owners \ {c} : HasRead(msg', d) = HasRead(msg, d)
  BY <1>7, <1>9, <1>10, <1>11 DEF HasRead
<1>15. PICK num : Numbered(num) /\ num[1] = HasRead(msg, c) + 1
  BY <1>3
<1>16. /\ \E new : Numbered(new)'
       /\ \A d \in Owners : InFlight(d)' = InFlight(d) /\ queue'[d] = queue[d]
  <2>1. c = Head(queue[Fs]).sender
    BY <1>1, <1>3
  <2>2. Taken(queue, queue', Fs)
    BY <1>2 DEF Taken
  <2>3. QED
    BY <1>2, <1>13, <1>14, <1>15, <2>1, <2>2, NumberedTail
<1>17. BeginningOf(c, k + 1, n)'
  <2>1. InFlight(c)' /\ k + 1 \in 1 .. sent'[c] /\ sent'[c] <= n
    BY <1>2, <1>3, <1>7, <1>8, <1>16
  <2>2. QED
    BY <1>2, <1>10, <1>11, <1>12, <1>13, <2>1 DEF BeginningOf
<1>18. ServerOK'
  BY <1>2, <1>4, <1>10, <1>11, <1>17 DEF ServerOK
<1>19. \A d \in Owners : ClientOK(d)'
  BY <1>2, <1>13, <1>16, OthersKept DEF Talks, Transfers
<1>20. QED
  BY <1>16, <1>18, <1>19 DEF Transfers

\* The server answers a request it has read the whole of.
LEMMA AnswersByServe ==
  ASSUME NullApart, Talks, Serve, ~disturbed'
  PROVE  /\ Transfers'
         /\ \A i \in DOMAIN openfile :
              openfile[i] # NULL => i \in DOMAIN openfile' /\ openfile'[i] = openfile[i]
<1>1. pc[Fs] = "serve" /\ msg # NULL
  BY DEF Serve, At, Talks, Transfers, ServerOK
<1>2. PICK c \in Owners : c = msg.sender
  BY <1>1 DEF Talks, Mail, MailInv, Sent
<1>3. PICK n : n = Len(payload[c])
  OBVIOUS
<1>4. PICK k : k = Len(msg.data)
  OBVIOUS
<1>5. BeginningOf(c, k, n)
  BY <1>1, <1>2, <1>3, <1>4 DEF Talks, Transfers, ServerOK
<1>6. ClientOK(c) /\ InFlight(c)
  BY <1>5 DEF Talks, Transfers, BeginningOf
<1>7. /\ payload[c] \in Requests /\ n \in Nat /\ sent[c] = n /\ k = n
      /\ pc[c] \in Waiting /\ queue[c] = <<>>
  <2>1. pc[c] # "idle" /\ queue[c] = <<>> /\ payload[c] \in Requests
    BY <1>6 DEF InFlight, ClientOK
  <2>2. n \in Nat /\ k = n /\ k \in 1 .. sent[c] /\ sent[c] <= n /\ sent[c] \in 0 .. n
    BY <1>1, <1>3, <1>5, <1>6, <2>1, RequestShapes DEF BeginningOf, ClientOK
  <2>3. sent[c] = n
    BY <2>2
  <2>4. QED
    BY <1>3, <1>6, <2>1, <2>2, <2>3 DEF ClientOK
<1>8. msg.data = payload[c]
  <2>1. IsSeq(payload[c])
    BY <1>7, RequestShapes
  <2>2. payload[c] = [i \in 1..n |-> payload[c][i]]
    BY <1>3, <2>1, Shape
  <2>3. QED
    BY <1>5, <1>7, <2>2 DEF BeginningOf
<1>9. PICK a \in Opens(c, Named(payload[c])) :
        /\ openfile' = a.list
        /\ queue' = [queue EXCEPT ![c] = Append(@, [handle |-> a.handle, error |-> a.error])]
        /\ pc' = [pc EXCEPT ![Fs] = "read", ![c] = Woken(@)]
  BY <1>2, <1>8 DEF Serve
<1>10. msg' = NULL /\ UNCHANGED <<tree, payload, sent, opens>>
  BY DEF Serve, clientVars
<1>11. PICK m : m = [handle |-> a.handle, error |-> a.error]
  OBVIOUS
<1>12. /\ pc'[Fs] = "read" /\ pc'[c] = Woken(pc[c]) /\ \A d \in Owners \ {c} : pc'[d] = pc[d]
  BY <1>9, WhoIsWho DEF Talks, Mail, MailInv
<1>13. /\ queue'[Fs] = queue[Fs] /\ queue'[c] = Append(<<>>, m)
       /\ \A d \in Owners \ {c} : queue'[d] = queue[d]
  BY <1>7, <1>9, <1>11, WhoIsWho DEF Talks, Mail, MailInv
<1>14. \A i \in DOMAIN openfile :
         openfile[i] # NULL => i \in DOMAIN openfile' /\ openfile'[i] = openfile[i]
  BY <1>9, Opened DEF Talks, Mail
<1>15. Right(tree, openfile', c, m, payload[c])
  BY <1>7, <1>9, <1>11, ServeRight DEF Talks, Mail
<1>16. ClientOK(c)' /\ ~InFlight(c)'
  <2>1. pc'[c] \in Waiting
    BY <1>7, <1>12 DEF Woken, Waiting
  <2>2. queue'[c] # <<>> /\ Len(queue'[c]) = 1 /\ queue'[c][1] = m
    BY <1>13
  <2>3. payload'[c] \in Requests /\ sent'[c] = Len(payload'[c]) /\ sent'[c] \in 0 .. Len(payload'[c])
    BY <1>3, <1>7, <1>10
  <2>4. Right(tree', openfile', c, queue'[c][1], payload'[c])
    BY <1>10, <1>15, <2>2
  <2>5. ClientOK(c)'
    BY <2>1, <2>2, <2>3, <2>4 DEF ClientOK, Waiting
  <2>6. QED
    BY <2>2, <2>5 DEF InFlight
<1>17. \A d \in Owners \ {c} : Kept(d) /\ (ClientOK(d) => ClientOK(d)')
  BY <1>10, <1>12, <1>13, <1>14, OthersKept DEF Talks
<1>18. PICK num : Numbered(num)
  BY DEF Talks, Transfers
<1>19. /\ HasRead(msg, c) = n
       /\ \A d \in Owners \ {c} : HasRead(msg, d) = 0
       /\ \A d \in Owners : HasRead(msg', d) = 0
  BY <1>1, <1>2, <1>4, <1>7, <1>10 DEF HasRead
<1>20. ASSUME NEW i \in DOMAIN queue[Fs]
       PROVE  \E d \in Owners \ {c} :
                /\ queue[Fs][i].sender = d /\ InFlight(d)'
                /\ num[i] \in 1 .. sent'[d] /\ queue[Fs][i] = Fragment(d, num[i])'
  <2>1. PICK d \in Owners : d = queue[Fs][i].sender
    BY DEF Talks, Mail, MailInv, Sent
  <2>2. InFlight(d) /\ num[i] \in (HasRead(msg, d) + 1) .. sent[d] /\ queue[Fs][i] = Fragment(d, num[i])
    BY <1>18, <2>1 DEF Numbered
  <2>3. d # c
    BY <1>7, <1>19, <2>2
  <2>4. InFlight(d)' /\ num[i] \in 1 .. sent'[d]
    <3>1. HasRead(msg, d) = 0 /\ 0 + 1 = 1
      BY <1>19, <2>3
    <3>2. QED
      BY <1>10, <1>17, <2>2, <2>3, <3>1 DEF Kept
  <2>5. Fragment(d, num[i])' = Fragment(d, num[i])
    BY <1>10 DEF Fragment
  <2>6. QED
    BY <2>1, <2>2, <2>3, <2>4, <2>5
<1>21. ASSUME NEW d \in Owners, InFlight(d)', NEW j \in 1 .. sent'[d]
       PROVE  \E i \in DOMAIN queue[Fs] : queue[Fs][i].sender = d /\ num[i] = j
  <2>1. d # c
    BY <1>16, <1>21
  <2>2. InFlight(d) /\ j \in (HasRead(msg, d) + 1) .. sent[d]
    BY <1>10, <1>17, <1>19, <1>21, <2>1 DEF Kept
  <2>3. QED
    BY <1>18, <2>2 DEF Numbered
<1>22. Numbered(num)'
  <2>1. \A i \in DOMAIN queue'[Fs] :
          /\ InFlight(queue[Fs][i].sender)'
          /\ num[i] \in (HasRead(msg', queue'[Fs][i].sender) + 1) .. sent'[queue'[Fs][i].sender]
          /\ queue'[Fs][i] = Fragment(queue[Fs][i].sender, num[i])'
    <3> SUFFICES ASSUME NEW i \in DOMAIN queue'[Fs]
                 PROVE  /\ InFlight(queue[Fs][i].sender)'
                        /\ num[i] \in (HasRead(msg', queue'[Fs][i].sender) + 1) .. sent'[queue'[Fs][i].sender]
                        /\ queue'[Fs][i] = Fragment(queue[Fs][i].sender, num[i])'
      OBVIOUS
    <3>1. i \in DOMAIN queue[Fs] /\ queue'[Fs][i] = queue[Fs][i]
      BY <1>13
    <3>2. PICK d \in Owners \ {c} :
            /\ queue[Fs][i].sender = d /\ InFlight(d)'
            /\ num[i] \in 1 .. sent'[d] /\ queue[Fs][i] = Fragment(d, num[i])'
      BY <1>20, <3>1
    <3>3. HasRead(msg', d) + 1 = 1
      BY <1>19
    <3>4. QED
      BY <3>1, <3>2, <3>3
  <2>2. \A i, j \in DOMAIN queue'[Fs] :
          i < j /\ queue'[Fs][i].sender = queue'[Fs][j].sender => num[i] < num[j]
    BY <1>13, <1>18 DEF Numbered
  <2>3. \A d \in Owners : InFlight(d)' =>
          \A j \in (HasRead(msg', d) + 1) .. sent'[d] :
            \E i \in DOMAIN queue'[Fs] : queue'[Fs][i].sender = d /\ num[i] = j
    <3>1. \A d \in Owners : HasRead(msg', d) + 1 = 1
      BY <1>19
    <3>2. QED
      BY <1>13, <1>21, <3>1
  <2>4. QED
    BY <2>1, <2>2, <2>3 DEF Numbered
<1>23. ServerOK'
  BY <1>10, <1>12 DEF ServerOK
<1>24. \A d \in Owners : ClientOK(d)'
  BY <1>16, <1>17 DEF Talks, Transfers
<1>25. QED
  BY <1>14, <1>22, <1>23, <1>24 DEF Transfers

-----------------------------------------------------------------------------
(* Answers are right: the steps together.                                   *)

LEMMA AnswersCarried ==
  ASSUME AnswersInv, part = "clients", part' = part, ClientVarsOK', disturbed => disturbed',
         ~disturbed' /\ failure' = "none" => Transfers',
         ~disturbed' =>
           /\ tree' = tree
           /\ \A i \in DOMAIN openfile :
                openfile[i] # NULL => i \in DOMAIN openfile' /\ openfile'[i] = openfile[i]
           /\ \A d \in Owners : \/ answer'[d] = answer[d] \/ answer'[d] = NULL
                                \/ Right(tree, openfile', d, answer'[d], answer'[d].to)
  PROVE  AnswersInv'
<1>1. Clean' => Transfers'
  BY DEF Clean
<1>2. part' # "table"
  OBVIOUS
<1>3. ASSUME ~disturbed', NEW d \in Owners PROVE Answered(d)'
  <2>1. SUFFICES ASSUME answer'[d] # NULL PROVE Right(tree, openfile', d, answer'[d], answer'[d].to)
    BY <1>3 DEF Answered
  <2>2. CASE answer'[d] = answer[d]
    <3>1. Right(tree, openfile, d, answer[d], answer[d].to)
      BY <1>3, <2>1, <2>2 DEF AnswersInv, Answered
    <3>2. Right(tree, openfile', d, answer[d], answer[d].to)
      BY <1>3, <3>1, RightKept
    <3>3. QED
      BY <2>2, <3>2
  <2>3. CASE answer'[d] # answer[d]
    BY <1>3, <2>1, <2>3
  <2>4. QED
    BY <2>2, <2>3
<1>4. QED
  BY <1>1, <1>2, <1>3 DEF AnswersInv

LEMMA TalksNow ==
  ASSUME FilesInv, AnswersInv, part = "clients", failure = "none", ~disturbed
  PROVE  Talks
BY DEF FilesInv, TalkInv, AnswersInv, Clean, Talks, Mail

LEMMA ClientStep ==
  ASSUME NullApart, FilesInv, AnswersInv, part = "clients", part' = part, NEW c \in Owners, Client(c)
  PROVE  AnswersInv'
<1> USE DEF ClientVarsOK
<1>1. CASE \E r \in Requests : Open(c, r)
  <2>1. PICK r \in Requests : Open(c, r)
    BY <1>1
  <2>2. ~disturbed => Transfers'
    BY <2>1, TalksNow, AnswersByOpen DEF Open, At
  <2>3. /\ ClientVarsOK' /\ disturbed' = disturbed /\ tree' = tree /\ openfile' = openfile
        /\ \A d \in Owners : answer'[d] = answer[d] \/ answer'[d] = NULL
    BY <2>1 DEF Open, Returns, tableVars, AnswersInv
  <2>4. QED
    BY <2>2, <2>3, AnswersCarried
<1>2. CASE Write(c)
  <2>1. ~disturbed => Transfers'
    BY <1>2, TalksNow, AnswersByWrite DEF Write, At
  <2>2. /\ ClientVarsOK' /\ disturbed' = disturbed /\ tree' = tree /\ openfile' = openfile
        /\ answer' = answer
    BY <1>2 DEF Write, tableVars, AnswersInv
  <2>3. QED
    BY <2>1, <2>2, AnswersCarried
<1>3. CASE GivesUp(c)
  <2>1. disturbed => disturbed'
    BY <1>3 DEF GivesUp
  <2>2. ~disturbed' => Transfers'
    BY <1>3, <2>1, TalksNow, AnswersByGivesUp DEF GivesUp, At
  <2>3. /\ ClientVarsOK' /\ tree' = tree /\ openfile' = openfile
        /\ \A d \in Owners : answer'[d] = answer[d] \/ answer'[d] = NULL
    BY <1>3 DEF GivesUp, Returns, tableVars, AnswersInv
  <2>4. QED
    BY <2>1, <2>2, <2>3, AnswersCarried
<1>4. CASE TakeAnswer(c)
  <2>1. ~disturbed => Transfers' /\ Right(tree, openfile, c, Head(queue[c]), payload[c])
    BY <1>4, TalksNow, AnswersByTakeAnswer DEF TakeAnswer, Reading
  <2>2. PICK m : m = Head(queue[c])
    OBVIOUS
  <2>3. answer' = [answer EXCEPT ![c] = [to |-> payload[c], handle |-> m.handle, error |-> m.error]]
    BY <1>4, <2>2 DEF TakeAnswer, Returns
  <2>4. /\ disturbed' = disturbed /\ tree' = tree /\ openfile' = openfile
        /\ UNCHANGED <<payload, sent, opens>>
    BY <1>4 DEF TakeAnswer
  <2>5. /\ ClientVarsOK'
        /\ answer'[c] = [to |-> payload[c], handle |-> m.handle, error |-> m.error]
        /\ \A d \in Owners \ {c} : answer'[d] = answer[d]
    BY <2>3, <2>4 DEF AnswersInv
  <2>6. ~disturbed => Right(tree, openfile', c, answer'[c], answer'[c].to)
    <3> SUFFICES ASSUME ~disturbed PROVE Right(tree, openfile', c, answer'[c], answer'[c].to)
      OBVIOUS
    <3>1. Right(tree, openfile, c, m, payload[c])
      BY <2>1, <2>2
    <3>2. answer'[c].to = payload[c] /\ answer'[c].handle = m.handle /\ answer'[c].error = m.error
      BY <2>5
    <3>3. QED
      BY <2>4, <3>1, <3>2 DEF Right
  <2>7. QED
    BY <2>1, <2>4, <2>5, <2>6, AnswersCarried
<1>5. QED
  BY <1>1, <1>2, <1>3, <1>4 DEF Client

LEMMA ServerStep ==
  ASSUME NullApart, FilesInv, AnswersInv, part = "clients", part' = part, Server
  PROVE  AnswersInv'
<1>1. CASE Start
  <2>1. ~disturbed => Transfers'
    BY <1>1, TalksNow, AnswersByStart DEF Start, At
  <2>2. UNCHANGED <<clientVars, tree, openfile, disturbed>>
    BY <1>1 DEF Start, tableVars
  <2>3. QED
    BY <2>1, <2>2, AnswersCarried DEF clientVars, ClientVarsOK, AnswersInv
<1>2. CASE ReadFirst
  <2>1. ~disturbed => Transfers'
    BY <1>2, TalksNow, AnswersByReadFirst DEF ReadFirst, Reading
  <2>2. UNCHANGED <<clientVars, tree, openfile, disturbed>>
    BY <1>2 DEF ReadFirst, tableVars
  <2>3. QED
    BY <2>1, <2>2, AnswersCarried DEF clientVars, ClientVarsOK, AnswersInv
<1>3. CASE ReadMore
  <2>1. disturbed => disturbed'
    BY <1>3 DEF ReadMore
  <2>2. ~disturbed' /\ failure' = "none" => Transfers'
    BY <1>3, <2>1, TalksNow, AnswersByReadMore DEF ReadMore, Reading
  <2>3. UNCHANGED <<clientVars, tree, openfile>>
    BY <1>3 DEF ReadMore, tableVars
  <2>4. QED
    BY <2>1, <2>2, <2>3, AnswersCarried DEF clientVars, ClientVarsOK, AnswersInv
<1>4. CASE ReadFails
  <2>1. UNCHANGED <<clientVars, tree, openfile, disturbed>> /\ failure' # "none"
    BY <1>4 DEF ReadFails, tableVars
  <2>2. QED
    BY <2>1, AnswersCarried DEF clientVars, ClientVarsOK, AnswersInv
<1>5. CASE Serve
  <2>1. disturbed => disturbed'
    BY <1>5 DEF Serve
  <2>2. UNCHANGED <<clientVars, tree>>
    BY <1>5 DEF Serve
  <2>3. ~disturbed' =>
          /\ Transfers'
          /\ \A i \in DOMAIN openfile :
               openfile[i] # NULL => i \in DOMAIN openfile' /\ openfile'[i] = openfile[i]
    BY <1>5, <2>1, TalksNow, AnswersByServe DEF Serve, At
  <2>4. QED
    BY <2>1, <2>2, <2>3, AnswersCarried DEF clientVars, ClientVarsOK, AnswersInv
<1>6. QED
  BY <1>1, <1>2, <1>3, <1>4, <1>5 DEF Server

LEMMA WaitStep ==
  ASSUME FilesInv, AnswersInv, part = "clients", part' = part, NEW t \in Tasks, Waits(t)
  PROVE  AnswersInv'
<1>1. ~disturbed => Transfers'
  BY TalksNow, AnswersByWaits DEF Waits, Reading, At
<1>2. UNCHANGED <<clientVars, tree, openfile, disturbed>>
  BY DEF Waits, tableVars
<1>3. QED
  BY <1>1, <1>2, AnswersCarried DEF clientVars, ClientVarsOK, AnswersInv

LEMMA AnswersInit ==
  ASSUME MCInit PROVE AnswersInv
<1>1. /\ queue = [t \in Tasks |-> <<>>] /\ msg = NULL /\ tree = tree
      /\ pc = [t \in Tasks |-> IF t = Fs THEN "start" ELSE "idle"]
      /\ payload = [c \in Owners |-> NULL] /\ sent = [c \in Owners |-> 0]
      /\ opens = [c \in Owners |-> 0] /\ answer = [c \in Owners |-> NULL]
  BY DEF MCInit, FilesInit, Clients
<1>2. ClientVarsOK
  BY <1>1 DEF ClientVarsOK
<1>3. /\ pc[Fs] = "start" /\ queue[Fs] = <<>>
      /\ \A c \in Owners : pc[c] = "idle" /\ queue[c] = <<>> /\ answer[c] = NULL
  BY <1>1, WhoIsWho
<1>4. \A num : Numbered(num)
  <2>1. DOMAIN queue[Fs] = {}
    BY <1>3, EmptyIsSeq
  <2>2. \A c \in Owners : ~InFlight(c)
    BY <1>3 DEF InFlight
  <2>3. QED
    BY <2>1, <2>2 DEF Numbered
<1>5. \A c \in Owners : ClientOK(c) /\ Answered(c)
  BY <1>3 DEF ClientOK, Waiting, Answered
<1>6. ServerOK
  BY <1>1, <1>3 DEF ServerOK
<1>7. QED
  BY <1>2, <1>3, <1>4, <1>5, <1>6 DEF AnswersInv, Transfers

LEMMA AnswersStay ==
  ASSUME FilesInv, AnswersInv, UNCHANGED <<part, filesVars>> PROVE AnswersInv'
<1>1. UNCHANGED <<part, tree, openfile, queue, pc, msg, payload, sent, opens, answer, disturbed, failure>>
  BY DEF filesVars, tableVars, clientVars
<1>2. Clean => Transfers'
  <2> SUFFICES ASSUME Clean PROVE Transfers'
    OBVIOUS
  <2>1. Talks
    BY TalksNow DEF Clean
  <2>2. \A d \in Owners : Kept(d) /\ (ClientOK(d) => ClientOK(d)')
    BY <1>1, <2>1, OthersKept DEF Talks
  <2>3. (\E num : Numbered(num)') /\ ServerOK'
    BY <1>1, <2>1, <2>2, NumberedQuiet DEF Talks
  <2>4. QED
    BY <2>1, <2>2, <2>3 DEF Talks, Transfers
<1>3. QED
  BY <1>1, <1>2 DEF AnswersInv, ClientVarsOK, Clean, Answered

(* As long as the server joins fragments of one request only and no memory  *)
(* runs out on the way, what fs_open returns is about the path it was asked *)
(* for, however many tasks send requests of however many fragments at the   *)
(* same time: a handle is one of the file the path names, and ENOTDIR means *)
(* a file on the way.                                                       *)
THEOREM AnswersAlwaysMatch ==
  ASSUME NullApart, Offsets \subseteq Int, MaxOpen \in Nat PROVE MCSpec => []AnswersMatch
<1>1. AnswersInv => AnswersMatch
  <2> SUFFICES ASSUME AnswersInv, NEW c \in Owners, ~disturbed, answer[c] # NULL
               PROVE  LET to == answer[c].to
                          p  == Head(to)
                      IN /\ answer[c].handle # NULL =>
                              /\ to = <<p>> /\ p.absolute
                              /\ openfile[answer[c].handle + 1].file = p.names
                              /\ p.names \in tree /\ (p.trailing => p.names \in Dirs)
                         /\ answer[c].error = "ENOTDIR" =>
                              \E i \in 1..Len(p.names) : SubSeq(p.names, 1, i) \in tree \ Dirs
    BY DEF AnswersMatch, Clients
  <2>1. Right(tree, openfile, c, answer[c], answer[c].to)
    BY DEF AnswersInv, Answered
  <2>2. QED
    BY <2>1 DEF Right
<1>2. MCInit => AnswersInv
  BY AnswersInit
<1>3. FilesInv /\ AnswersInv /\ [MCNext]_<<part, filesVars>> => AnswersInv'
  <2> SUFFICES ASSUME FilesInv, AnswersInv, [MCNext]_<<part, filesVars>> PROVE AnswersInv'
    OBVIOUS
  <2>1. CASE part = "table" /\ part' = part /\ UNCHANGED clientVars
    BY <2>1 DEF AnswersInv, clientVars, ClientVarsOK, Clean, Answered
  <2>2. CASE part = "clients" /\ part' = part /\ FilesNext
    BY <2>2, ClientStep, ServerStep, WaitStep DEF FilesNext, Clients
  <2>3. CASE UNCHANGED <<part, filesVars>>
    BY <2>3, AnswersStay
  <2>4. QED
    BY <2>1, <2>2, <2>3 DEF MCNext
<1>4. MCSpec => []FilesInv
  BY FilesInvAlways DEF Hypotheses
<1>5. QED
  BY <1>1, <1>2, <1>3, <1>4, PTL DEF MCSpec
=============================================================================
