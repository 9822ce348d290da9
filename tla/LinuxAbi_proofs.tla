--------------------------- MODULE LinuxAbi_proofs ---------------------------
(***************************************************************************)
(* The consoles, whatever is written to them, by anyone or by Linux        *)
(* programs, and what the writes of programs leave behind, for consoles    *)
(* of every size and number.                                               *)
(***************************************************************************)
EXTENDS LinuxAbi, FiniteSetTheorems, SequenceTheorems, WellFoundedInduction, TLAPS

-----------------------------------------------------------------------------
(* A console and its screen.                                                *)

EscapeOK(e) ==
  /\ e = [on |-> e.on, type |-> e.type, params |-> e.params]
  /\ e.on \in BOOLEAN
  /\ e.params \in Seq(Int) /\ Len(e.params) > 0 /\ Len(e.params) <= MaxEscape

ConOK(c) ==
  /\ c = [x |-> c.x, y |-> c.y, color |-> c.color, change_cur |-> c.change_cur,
          escape |-> c.escape, buffer |-> c.buffer]
  /\ c.x \in 0 .. Width - 1 /\ c.y \in 0 .. Height - 1
  /\ EscapeOK(c.escape)

ScreenOK(s) == s = [con |-> s.con, screen |-> s.screen] /\ ConOK(s.con)

\* What a character never changes: whose screen it is.
SameOwner(c, d) == d.buffer = c.buffer /\ d.change_cur = c.change_cur
\* What a character that is printed never changes either.
SameLook(c, d) == d.escape = c.escape /\ d.color = c.color

Sizes == Width \in Nat \ {0} /\ Height \in Nat \ {0} /\ MaxEscape \in Nat \ {0}

LEMMA Sized == Sizes
BY ConsoleAssumption DEF Sizes

LEMMA NextLineKeeps ==
  ASSUME NEW s, ScreenOK(s)
  PROVE  /\ ScreenOK(NextLine(s))
         /\ SameOwner(s.con, NextLine(s).con) /\ SameLook(s.con, NextLine(s).con)
<1>1. CASE s.con.y + 1 < Height
  <2>1. NextLine(s) = [s EXCEPT !.con.y = @ + 1]
    BY <1>1 DEF NextLine
  <2>2. NextLine(s) = [con |-> [s.con EXCEPT !.y = @ + 1], screen |-> s.screen]
    BY <2>1 DEF ScreenOK
  <2>3. s.con.y + 1 \in 0 .. Height - 1
    BY <1>1, Sized DEF Sizes, ScreenOK, ConOK
  <2>4. QED
    BY <2>2, <2>3 DEF ScreenOK, ConOK, SameOwner, SameLook
<1>2. CASE ~(s.con.y + 1 < Height)
  <2>1. NextLine(s) = [con |-> s.con, screen |-> Scroll(s.screen, s.con.color)]
    BY <1>2 DEF NextLine, ScreenOK
  <2>2. QED
    BY <2>1 DEF ScreenOK, SameOwner, SameLook
<1>3. QED
  BY <1>1, <1>2

LEMMA PutRawKeeps ==
  ASSUME NEW s, ScreenOK(s), NEW g
  PROVE  /\ ScreenOK(PutRaw(s, g))
         /\ SameOwner(s.con, PutRaw(s, g).con) /\ SameLook(s.con, PutRaw(s, g).con)
<1> DEFINE cell == [glyph |-> g, color |-> s.con.color]
           put  == [s EXCEPT !.screen[<<s.con.x, s.con.y>>] = cell]
           pic  == [s.screen EXCEPT ![<<s.con.x, s.con.y>>] = cell]
<1>1. PutRaw(s, g) = IF g = "nul" THEN s
                     ELSE IF s.con.x + 1 < Width THEN [put EXCEPT !.con.x = @ + 1]
                     ELSE NextLine([put EXCEPT !.con.x = 0])
  BY DEF PutRaw
<1>2. put = [con |-> s.con, screen |-> pic]
  BY DEF ScreenOK
<1> HIDE DEF put, pic
<1>3. CASE g = "nul"
  BY <1>1, <1>3 DEF SameOwner, SameLook
<1>4. CASE g # "nul" /\ s.con.x + 1 < Width
  <2>1. PutRaw(s, g) = [con |-> [s.con EXCEPT !.x = @ + 1], screen |-> pic]
    BY <1>1, <1>2, <1>4
  <2>2. s.con.x + 1 \in 0 .. Width - 1
    BY <1>4, Sized DEF Sizes, ScreenOK, ConOK
  <2>3. QED
    BY <2>1, <2>2 DEF ScreenOK, ConOK, SameOwner, SameLook
<1>5. CASE g # "nul" /\ ~(s.con.x + 1 < Width)
  <2> DEFINE t == [con |-> [s.con EXCEPT !.x = 0], screen |-> pic]
  <2>1. PutRaw(s, g) = NextLine(t)
    BY <1>1, <1>2, <1>5
  <2>2. 0 \in 0 .. Width - 1
    BY Sized DEF Sizes
  <2>3. ScreenOK(t) /\ SameOwner(s.con, t.con) /\ SameLook(s.con, t.con)
    BY <2>2 DEF ScreenOK, ConOK, SameOwner, SameLook
  <2> HIDE DEF t
  <2>4. QED
    BY <2>1, <2>3, NextLineKeeps DEF SameOwner, SameLook
<1>6. QED
  BY <1>3, <1>4, <1>5

LEMMA ParseEscapeKeeps ==
  ASSUME NEW c, ConOK(c)
  PROVE  /\ ConOK(ParseEscape(c)) /\ SameOwner(c, ParseEscape(c))
         /\ ParseEscape(c).escape = c.escape
<1>1. PICK v : ParseEscape(c) = [c EXCEPT !.color = v]
  BY DEF ParseEscape
<1>2. QED
  BY <1>1 DEF ConOK, SameOwner

LEMMA NextParamKeeps ==
  ASSUME NEW p \in Seq(Int), Len(p) > 0, Len(p) <= MaxEscape
  PROVE  NextParam(p) \in Seq(Int) /\ Len(NextParam(p)) > 0 /\ Len(NextParam(p)) <= MaxEscape
<1>1. CASE Len(p) < MaxEscape
  BY <1>1, Sized DEF NextParam, Sizes
<1>2. CASE ~(Len(p) < MaxEscape)
  <2>1. NextParam(p) = [p EXCEPT ![MaxEscape] = 0]
    BY <1>2 DEF NextParam
  <2>2. MaxEscape \in 1 .. Len(p) /\ 0 \in Int
    BY <1>2, Sized DEF Sizes
  <2>2a. NextParam(p) \in Seq(Int) /\ Len(NextParam(p)) = Len(p)
    BY <2>1, <2>2, ExceptSeq
  <2>3. QED
    BY <2>2a
<1>3. QED
  BY <1>1, <1>2

LEMMA DigitsKeep ==
  ASSUME NEW p \in Seq(Int), Len(p) > 0, NEW n \in Int
  PROVE  WithDigits(p, n) \in Seq(Int) /\ Len(WithDigits(p, n)) = Len(p)
<1> DEFINE d == (Last(p) * (IF n < 10 THEN 10 ELSE 100) + n) % 256
<1>1. Front(p) \in Seq(Int) /\ Len(Front(p)) = Len(p) - 1
  <2>1. Front(p) = SubSeq(p, 1, Len(p) - 1)
    BY DEF Front
  <2>2. 1 \in Int /\ Len(p) \in Nat /\ Len(p) - 1 \in Int
    OBVIOUS
  <2>3. \A i \in 1 .. Len(p) - 1 : p[i] \in Int
    OBVIOUS
  <2> DEFINE k == Len(p) - 1
  <2>3a. k = Len(p) - 1
    OBVIOUS
  <2> HIDE DEF k
  <2>4. k \in Nat /\ (1 <= k \/ k = 0)
    BY <2>2, <2>3a
  <2>5. /\ SubSeq(p, 1, k) \in Seq(Int)
        /\ Len(SubSeq(p, 1, k)) = IF 1 <= k THEN k - 1 + 1 ELSE 0
    BY <2>2, <2>3, <2>3a, <2>4, SubSeqProperties
  <2>6. (IF 1 <= k THEN k - 1 + 1 ELSE 0) = k
    BY <2>4
  <2>7. QED
    BY <2>1, <2>3a, <2>5, <2>6
<1>2. d \in Int
  <2>1. Last(p) \in Int
    BY DEF Last
  <2>2. n < 10 => Last(p) * 10 + n \in Int
    BY <2>1
  <2>3. Last(p) * 100 + n \in Int
    BY <2>1
  <2>4. \A x \in Int : x % 256 \in Int
    OBVIOUS
  <2>5. Last(p) * (IF n < 10 THEN 10 ELSE 100) + n \in Int
    BY <2>2, <2>3
  <2>6. QED
    BY <2>4, <2>5
<1>3. WithDigits(p, n) = Front(p) \o <<d>>
  BY DEF WithDigits
<1> HIDE DEF d
<1>4. <<d>> \in Seq(Int) /\ Len(<<d>>) = 1
  BY <1>2
<1>5. QED
  BY <1>1, <1>3, <1>4, ConcatProperties

LEMMA OnIs ==
  ASSUME NEW e, e = [on |-> e.on, type |-> e.type, params |-> e.params], NEW v
  PROVE  /\ [e EXCEPT !.on = v] = [on |-> v, type |-> e.type, params |-> e.params]
         /\ [e EXCEPT !.on = v].on = v
         /\ [e EXCEPT !.on = v].type = e.type
         /\ [e EXCEPT !.on = v].params = e.params
OBVIOUS

LEMMA OnKeeps ==
  ASSUME NEW e, EscapeOK(e), NEW v \in BOOLEAN
  PROVE  EscapeOK([e EXCEPT !.on = v])
<1> DEFINE d == [e EXCEPT !.on = v]
<1>1. d = [on |-> v, type |-> e.type, params |-> e.params] /\ d.on = v /\ d.type = e.type /\ d.params = e.params
  BY OnIs DEF EscapeOK
<1> HIDE DEF d
<1>2. d = [on |-> d.on, type |-> d.type, params |-> d.params]
  BY <1>1
<1>3. EscapeOK(d)
  BY <1>1, <1>2 DEF EscapeOK
<1>4. QED
  BY <1>3 DEF d

LEMMA OffKeeps ==
  ASSUME NEW e, EscapeOK(e)
  PROVE  EscapeOK([e EXCEPT !.on = FALSE])
BY OnKeeps, Zenon

LEMMA NoEscapeOK == EscapeOK(NoEscape) /\ NoEscape.params = <<0>> /\ ~NoEscape.on
<1>1. <<0>> \in Seq(Int) /\ Len(<<0>>) = 1
  OBVIOUS
<1>2. QED
  BY <1>1, Sized DEF NoEscape, EscapeOK, Sizes

LEMMA BeginsOK == EscapeOK([NoEscape EXCEPT !.on = TRUE])
BY NoEscapeOK, OnKeeps, Zenon

LEMMA NumberIs == DOMAIN Number = {"n0", "n1", "n31", "n37"} /\ \A ch \in DOMAIN Number : Number[ch] \in Int
<1>1. DOMAIN Number = {"n0", "n1", "n31", "n37"}
  BY DEF Number
<1>2. Number["n0"] = 0 /\ Number["n1"] = 1 /\ Number["n31"] = 31 /\ Number["n37"] = 37
  BY DEF Number
<1>3. QED
  BY <1>1, <1>2

\* The rest of an escape sequence changes the sequence and the color.
LEMMA PutEscapedKeeps ==
  ASSUME NEW c, ConOK(c), NEW ch
  PROVE  ConOK(PutEscaped(c, ch)) /\ SameOwner(c, PutEscaped(c, ch))
<1> DEFINE n == PutEscaped(c, ch)
<1>0. EscapeOK(c.escape)
  BY DEF ConOK
<1>1. CASE c.escape.type = "none"
  <2>1. PICK v : n = [c EXCEPT !.escape.type = v]
    BY <1>1 DEF PutEscaped
  <2>2. n = [c EXCEPT !.escape = [c.escape EXCEPT !.type = v]]
    BY <2>1 DEF ConOK
  <2>3. EscapeOK([c.escape EXCEPT !.type = v])
    BY <1>0 DEF EscapeOK
  <2>4. QED
    BY <2>2, <2>3 DEF ConOK, SameOwner
<1>2. CASE c.escape.type \notin {"none", "["}
  <2>1. n = [c EXCEPT !.escape.on = FALSE]
    BY <1>2 DEF PutEscaped
  <2>2. n = [c EXCEPT !.escape = [c.escape EXCEPT !.on = FALSE]]
    BY <2>1 DEF ConOK
  <2>3. EscapeOK([c.escape EXCEPT !.on = FALSE])
    BY <1>0, OffKeeps
  <2>4. QED
    BY <2>2, <2>3 DEF ConOK, SameOwner
<1>3. CASE c.escape.type = "[" /\ (ch = ";" \/ ch \in DOMAIN Number)
  <2>1. PICK v : n = [c EXCEPT !.escape.params = v] /\ v \in Seq(Int) /\ Len(v) > 0 /\ Len(v) <= MaxEscape
    <3>1. CASE ch = ";"
      <4>1. n = [c EXCEPT !.escape.params = NextParam(c.escape.params)]
        BY <1>3, <3>1, NumberIs DEF PutEscaped, ConOK, EscapeOK
      <4>2. QED
        BY <1>0, <4>1, NextParamKeeps DEF EscapeOK
    <3>2. CASE ch # ";" /\ ch \in DOMAIN Number
      <4>1. n = [c EXCEPT !.escape.params = WithDigits(c.escape.params, Number[ch])]
        BY <1>3, <3>2 DEF PutEscaped, ConOK, EscapeOK
      <4>2. Number[ch] \in Int
        BY <3>2, NumberIs
      <4>3. QED
        BY <1>0, <4>1, <4>2, DigitsKeep DEF EscapeOK
    <3>3. QED
      BY <1>3, <3>1, <3>2
  <2>2. n = [c EXCEPT !.escape = [c.escape EXCEPT !.params = v]]
    BY <2>1 DEF ConOK
  <2>3. EscapeOK([c.escape EXCEPT !.params = v])
    BY <1>0, <2>1 DEF EscapeOK
  <2>4. QED
    BY <2>2, <2>3 DEF ConOK, SameOwner
<1>4. CASE c.escape.type = "[" /\ ch # ";" /\ ch \notin DOMAIN Number
  <2> DEFINE p == ParseEscape(c)
  <2>1. n = [p EXCEPT !.escape.on = FALSE]
    BY <1>4 DEF PutEscaped
  <2>2. ConOK(p) /\ SameOwner(c, p)
    BY ParseEscapeKeeps
  <2> HIDE DEF p
  <2>3. n = [p EXCEPT !.escape = [p.escape EXCEPT !.on = FALSE]]
    BY <2>1, <2>2 DEF ConOK
  <2>4. EscapeOK([p.escape EXCEPT !.on = FALSE])
    BY <2>2, OffKeeps DEF ConOK
  <2>5. QED
    BY <2>2, <2>3, <2>4 DEF ConOK, SameOwner
<1>5. QED
  BY <1>1, <1>2, <1>3, <1>4

\* A character, whatever it is.
LEMMA PutCharKeeps ==
  ASSUME NEW s, ScreenOK(s), NEW ch
  PROVE  ScreenOK(PutChar(s, ch)) /\ SameOwner(s.con, PutChar(s, ch).con)
<1> DEFINE n == PutChar(s, ch)
<1>0. s.con.escape.on \in BOOLEAN /\ 0 \in 0 .. Width - 1
  BY Sized DEF ScreenOK, ConOK, EscapeOK, Sizes
<1>1. CASE s.con.escape.on
  <2>1. n = [con |-> PutEscaped(s.con, ch), screen |-> s.screen]
    BY <1>1 DEF PutChar, ScreenOK
  <2>2. QED
    BY <2>1, PutEscapedKeeps DEF ScreenOK
<1>2. CASE ~s.con.escape.on /\ ch = "esc"
  <2> DEFINE e == [NoEscape EXCEPT !.on = TRUE]
  <2>1. n = [con |-> [s.con EXCEPT !.escape = e], screen |-> s.screen]
    BY <1>2 DEF PutChar, ScreenOK, ConOK
  <2>2. EscapeOK(e)
    BY BeginsOK
  <2> HIDE DEF e
  <2>3. QED
    BY <2>1, <2>2 DEF ScreenOK, ConOK, SameOwner
<1>3. CASE ~s.con.escape.on /\ ch \in {"cr", "lf", "bs"}
  <2>1. PICK v \in 0 .. Width - 1 :
          LET t == [con |-> [s.con EXCEPT !.x = v], screen |-> s.screen]
          IN  n = t \/ n = NextLine(t)
    <3>1. CASE ch = "cr"
      <4>1. n = [s EXCEPT !.con.x = 0]
        BY <1>3, <3>1 DEF PutChar
      <4>2. n = [con |-> [s.con EXCEPT !.x = 0], screen |-> s.screen]
        BY <4>1 DEF ScreenOK
      <4>3. QED
        BY <1>0, <4>2
    <3>2. CASE ch = "lf"
      <4>1. n = NextLine([s EXCEPT !.con.x = 0])
        BY <1>3, <3>2 DEF PutChar
      <4>2. [s EXCEPT !.con.x = 0] = [con |-> [s.con EXCEPT !.x = 0], screen |-> s.screen]
        BY DEF ScreenOK
      <4>3. QED
        BY <1>0, <4>1, <4>2
    <3>3. CASE ch = "bs"
      <4> DEFINE v == IF s.con.x > 0 THEN s.con.x - 1 ELSE 0
      <4>1. n = [s EXCEPT !.con.x = v]
        BY <1>3, <3>3 DEF PutChar, ScreenOK
      <4>2. n = [con |-> [s.con EXCEPT !.x = v], screen |-> s.screen]
        BY <4>1 DEF ScreenOK
      <4>3. v \in 0 .. Width - 1
        BY Sized DEF ScreenOK, ConOK, Sizes
      <4> HIDE DEF v
      <4>4. QED
        BY <4>2, <4>3
    <3>4. QED
      BY <1>3, <3>1, <3>2, <3>3
  <2> DEFINE t == [con |-> [s.con EXCEPT !.x = v], screen |-> s.screen]
  <2>2. ScreenOK(t) /\ SameOwner(s.con, t.con)
    BY DEF ScreenOK, ConOK, SameOwner
  <2>3. n = t \/ n = NextLine(t)
    BY <2>1
  <2> HIDE DEF t
  <2>4. QED
    BY <2>2, <2>3, NextLineKeeps DEF SameOwner
<1>4. CASE ~s.con.escape.on /\ ch \notin {"esc", "cr", "lf", "bs"}
  <2>1. n = PutRaw(s, ch)
    BY <1>4 DEF PutChar
  <2>2. QED
    BY <2>1, PutRawKeeps
<1>5. QED
  BY <1>0, <1>1, <1>2, <1>3, <1>4

-----------------------------------------------------------------------------
(* One character after another.                                             *)

\* A set of numbers has a least one.
LEMMA Least ==
  ASSUME NEW S \in SUBSET Nat, S # {}
  PROVE  \E m \in S : \A n \in S : m <= n
<1> DEFINE R == OpToRel(<, Nat)
<1>1. \E m \in S : \A n \in S : <<n, m>> \notin R
  <2>1. IsWellFoundedOn(R, Nat)
    BY NatLessThanWellFounded
  <2> HIDE DEF R
  <2> QED
    BY <2>1, WFMin
<1>2. ASSUME NEW n \in S, NEW m \in S, n < m PROVE <<n, m>> \in R
  BY <1>2 DEF OpToRel
<1> HIDE DEF R
<1>3. PICK m \in S : \A n \in S : <<n, m>> \notin R
  BY <1>1
<1>4. \A n \in S : ~(n < m)
  BY <1>2, <1>3
<1>5. QED
  BY <1>4

\* f has the screens after each of the first n characters.
After(f, s, chars, n) ==
  f = [i \in 0 .. n |-> IF i = 0 THEN s ELSE PutChar(f[i - 1], chars[i])]

LEMMA AfterExists ==
  ASSUME NEW s, NEW chars, NEW n \in Nat
  PROVE  \E f : After(f, s, chars, n)
<1> DEFINE S == {k \in Nat : \A f : ~After(f, s, chars, k)}
<1> SUFFICES ASSUME S # {} PROVE FALSE
  OBVIOUS
<1>1. PICK m \in S : \A k \in S : m <= k
  BY Least
<1>2. m \in Nat /\ \A f : ~After(f, s, chars, m)
  OBVIOUS
<1>3. CASE m = 0
  <2> DEFINE g == [i \in 0 .. 0 |-> s]
  <2>1. After(g, s, chars, 0)
    BY DEF After
  <2>2. QED
    BY <1>2, <1>3, <2>1
<1>4. CASE m # 0
  <2>1. m - 1 \in Nat /\ ~(m <= m - 1)
    BY <1>2, <1>4
  <2>2. m - 1 \notin S
    BY <1>1, <2>1
  <2>3. PICK f : After(f, s, chars, m - 1)
    BY <2>1, <2>2
  <2> DEFINE g == [i \in 0 .. m |-> IF i = m THEN PutChar(f[m - 1], chars[m]) ELSE f[i]]
  <2> HIDE DEF S
  <2>4. \A i \in 0 .. m - 1 : f[i] = IF i = 0 THEN s ELSE PutChar(f[i - 1], chars[i])
    BY <2>3 DEF After
  <2>5. \A i \in 0 .. m : g[i] = IF i = 0 THEN s ELSE PutChar(g[i - 1], chars[i])
    <3> SUFFICES ASSUME NEW i \in 0 .. m
                 PROVE  g[i] = IF i = 0 THEN s ELSE PutChar(g[i - 1], chars[i])
      OBVIOUS
    <3>1. i # 0 => i - 1 \in 0 .. m - 1 /\ i - 1 # m
      BY <1>2
    <3>2. i # 0 => g[i - 1] = f[i - 1]
      BY <3>1, <1>2
    <3>3. CASE i = m
      BY <3>2, <3>3, <1>4
    <3>4. CASE i # m
      <4>1. i \in 0 .. m - 1
        BY <3>4, <1>2
      <4>2. g[i] = f[i]
        BY <3>4
      <4>3. QED
        BY <4>1, <4>2, <2>4, <3>2
    <3>5. QED
      BY <3>3, <3>4
  <2>6. g = [i \in 0 .. m |-> g[i]]
    OBVIOUS
  <2> HIDE DEF g
  <2>7. After(g, s, chars, m)
    BY <2>5, <2>6 DEF After
  <2>8. QED
    BY <1>2, <2>7
<1>5. QED
  BY <1>3, <1>4

\* What is left after all of them, and after each.
LEMMA PutAllIs ==
  ASSUME NEW s, NEW chars, Len(chars) \in Nat
  PROVE  \E f : /\ PutAll(s, chars) = f[Len(chars)]
                /\ f[0] = s
                /\ \A i \in 1 .. Len(chars) : f[i] = PutChar(f[i - 1], chars[i])
<1>0. PICK h : After(h, s, chars, Len(chars))
  BY AfterExists
<1>1. h = [i \in 0 .. Len(chars) |-> IF i = 0 THEN s ELSE PutChar(h[i - 1], chars[i])]
  BY <1>0 DEF After
<1> DEFINE f == CHOOSE f : f = [i \in 0 .. Len(chars) |-> IF i = 0 THEN s ELSE PutChar(f[i - 1], chars[i])]
<1>2. f = [i \in 0 .. Len(chars) |-> IF i = 0 THEN s ELSE PutChar(f[i - 1], chars[i])]
  BY <1>1
<1>3. PutAll(s, chars) = f[Len(chars)]
  BY DEF PutAll
<1> HIDE DEF f
<1>4. f[0] = s
  BY <1>2
<1>5. \A i \in 1 .. Len(chars) : f[i] = PutChar(f[i - 1], chars[i])
  BY <1>2
<1>6. QED
  BY <1>3, <1>4, <1>5

LEMMA PutAllKeeps ==
  ASSUME NEW s, ScreenOK(s), NEW chars, Len(chars) \in Nat
  PROVE  ScreenOK(PutAll(s, chars)) /\ SameOwner(s.con, PutAll(s, chars).con)
<1>1. PICK f : /\ PutAll(s, chars) = f[Len(chars)]
               /\ f[0] = s
               /\ \A i \in 1 .. Len(chars) : f[i] = PutChar(f[i - 1], chars[i])
  BY PutAllIs
<1> DEFINE Good(i) == ScreenOK(f[i]) /\ SameOwner(s.con, f[i].con)
           S == {i \in 0 .. Len(chars) : ~Good(i)}
<1>2. SUFFICES S = {}
  <2>1. Good(Len(chars))
    BY <1>2
  <2>2. QED
    BY <1>1, <2>1
<1> SUFFICES ASSUME S # {} PROVE FALSE
  OBVIOUS
<1>3. PICK m \in S : \A k \in S : m <= k
  <2>1. S \in SUBSET Nat
    OBVIOUS
  <2>2. QED
    BY <2>1, Least
<1>4. m \in 0 .. Len(chars) /\ ~Good(m)
  OBVIOUS
<1>5. m # 0
  BY <1>1, <1>4 DEF SameOwner
<1>6. m \in 1 .. Len(chars) /\ m - 1 \in 0 .. Len(chars) /\ ~(m <= m - 1)
  BY <1>4, <1>5
<1>7. Good(m - 1)
  BY <1>3, <1>6
<1> HIDE DEF S
<1>8. f[m] = PutChar(f[m - 1], chars[m])
  BY <1>1, <1>6
<1>9. ScreenOK(f[m]) /\ SameOwner(f[m - 1].con, f[m].con)
  BY <1>7, <1>8, PutCharKeeps
<1>10. QED
  BY <1>4, <1>7, <1>9 DEF SameOwner

-----------------------------------------------------------------------------
(* The consoles.                                                            *)

Screens == Buffers \cup {Video}

\* Who is who, and who owns which screen.
OwnersInv ==
  /\ syscon \in Consoles
  /\ con = [c \in Consoles |-> con[c]]
  /\ content = [b \in Screens |-> content[b]]
  /\ shown = [c \in Consoles |-> shown[c]]
  /\ free \subseteq Buffers
  /\ Cardinality(free) = Cardinality(Buffers) + 1 - Cardinality(Consoles)
  /\ cursor = Offset(con[syscon].x, con[syscon].y)

ConInv(c) ==
  /\ ConOK(con[c]) /\ con[c].buffer \in Screens \ free
  /\ con[c].change_cur <=> c = syscon
  /\ con[c].buffer = Video <=> c = syscon
  /\ content[con[c].buffer] = shown[c]
  /\ \A d \in Consoles : con[c].buffer = con[d].buffer => c = d

ConsoleInv == OwnersInv /\ \A c \in Consoles : ConInv(c)

LEMMA ConsoleInvKeeps == ConsoleInv => ConsolesKept
<1> SUFFICES ASSUME ConsoleInv PROVE ConsolesKept
  OBVIOUS
<1>1. ASSUME NEW c \in Consoles
      PROVE  /\ content[con[c].buffer] = shown[c]
             /\ <<con[c].x, con[c].y>> \in Cells
             /\ Len(con[c].escape.params) <= MaxEscape
             /\ con[c].buffer = Video <=> c = syscon
             /\ con[c].buffer \notin free
             /\ \A d \in Consoles : con[c].buffer = con[d].buffer => c = d
  <2>1. ConInv(c)
    BY DEF ConsoleInv
  <2>2. con[c].x \in 0 .. Width - 1 /\ con[c].y \in 0 .. Height - 1
    BY <2>1 DEF ConInv, ConOK
  <2>3. <<con[c].x, con[c].y>> \in Cells
    BY <2>2 DEF Cells
  <2>4. QED
    BY <2>1, <2>3 DEF ConInv, ConOK, EscapeOK
<1>2. QED
  BY <1>1 DEF ConsolesKept, ConsoleInv, OwnersInv

LEMMA ConsoleStarts == ConsoleInit => ConsoleInv
<1> SUFFICES ASSUME ConsoleInit PROVE ConsoleInv
  OBVIOUS
<1>1. PICK f \in [Consoles -> Screens], at \in Cells :
        /\ f[0] = Video /\ \A c, d \in Consoles : f[c] = f[d] => c = d
        /\ con = [c \in Consoles |-> NewConsole(f[c], IF c = 0 THEN at ELSE <<0, 0>>)]
        /\ free = Buffers \ {f[c] : c \in Consoles}
        /\ syscon = 0 /\ calls = 0 /\ cursor = Offset(at[1], at[2])
        /\ content = [b \in Buffers \cup {Video} |-> Clear(DefaultColor)]
        /\ shown = [c \in Consoles |-> Clear(DefaultColor)]
  BY DEF ConsoleInit, Screens
<1>2. 0 \in Consoles /\ IsFiniteSet(Consoles) /\ IsFiniteSet(Buffers) /\ Video \notin Buffers
  BY ConsoleAssumption
<1> DEFINE place(c) == IF c = 0 THEN at ELSE <<0, 0>>
<1>3. \A c \in Consoles : con[c] = NewConsole(f[c], place(c))
  BY <1>1
<1>4. at[1] \in 0 .. Width - 1 /\ at[2] \in 0 .. Height - 1
  BY <1>1 DEF Cells
<1>5. \A c \in Consoles : place(c)[1] \in 0 .. Width - 1 /\ place(c)[2] \in 0 .. Height - 1
  BY <1>4, Sized DEF Sizes
<1> HIDE DEF place
<1>6. ASSUME NEW c \in Consoles
      PROVE  /\ ConOK(con[c]) /\ con[c].buffer = f[c]
             /\ con[c].change_cur <=> f[c] = Video
             /\ con[c].x = place(c)[1] /\ con[c].y = place(c)[2]
  <2> DEFINE b == f[c] = Video
  <2>1. con[c] = [x |-> place(c)[1], y |-> place(c)[2], color |-> DefaultColor,
                  change_cur |-> b, escape |-> NoEscape, buffer |-> f[c]]
    BY <1>3 DEF NewConsole
  <2>2. b <=> f[c] = Video
    OBVIOUS
  <2> HIDE DEF b
  <2>3. /\ con[c].x = place(c)[1] /\ con[c].y = place(c)[2] /\ con[c].escape = NoEscape
        /\ con[c].buffer = f[c] /\ con[c].change_cur = b /\ con[c].color = DefaultColor
    BY <2>1
  <2>4. ConOK(con[c])
    BY <1>5, <2>1, <2>3, NoEscapeOK DEF ConOK
  <2>5. QED
    BY <2>2, <2>3, <2>4
<1>7. ASSUME NEW c \in Consoles PROVE ConInv(c)
  <2>1. f[c] \in Screens
    BY <1>1
  <2>2. f[c] \notin free
    BY <1>1
  <2>3. f[c] = Video <=> c = syscon
    BY <1>1, <1>2
  <2>4. content[f[c]] = Clear(DefaultColor) /\ shown[c] = Clear(DefaultColor)
    BY <1>1, <2>1 DEF Screens
  <2>5. \A d \in Consoles : con[d].buffer = f[d]
    BY <1>6
  <2>6. QED
    BY <1>1, <1>6, <2>1, <2>2, <2>3, <2>4, <2>5 DEF ConInv
<1>8. OwnersInv
  <2> DEFINE T == {f[c] : c \in Consoles}
  <2>1. IsFiniteSet(T) /\ Cardinality(T) = Cardinality(Consoles)
    <3>1. f \in Surjection(Consoles, T) /\ f \in Injection(Consoles, T)
      BY <1>1 DEF Surjection, Injection, IsInjective
    <3>2. QED
      BY <1>2, <3>1, FS_Surjection
  <2>2. T \subseteq Screens /\ Video \in T
    BY <1>1, <1>2
  <2>3. free = Screens \ T
    BY <1>1, <2>2 DEF Screens
  <2> HIDE DEF T
  <2>4. IsFiniteSet(Screens) /\ Cardinality(Screens) = Cardinality(Buffers) + 1
    BY <1>2, FS_AddElement DEF Screens
  <2>5. IsFiniteSet(free) /\ Cardinality(free) = Cardinality(Screens) - Cardinality(Screens \cap T)
    BY <2>3, <2>4, FS_Difference
  <2>6. Screens \cap T = T
    BY <2>2
  <2>7. Cardinality(free) = Cardinality(Buffers) + 1 - Cardinality(Consoles)
    <3>1. Cardinality(Buffers) \in Nat /\ Cardinality(Consoles) \in Nat
      BY <1>2, FS_CardinalityType
    <3>2. Cardinality(free) = Cardinality(Screens) - Cardinality(T)
      BY <2>5, <2>6
    <3>3. QED
      BY <2>1, <2>4, <3>1, <3>2
  <2>8. cursor = Offset(con[syscon].x, con[syscon].y)
    BY <1>1, <1>2, <1>6 DEF place
  <2>9. con = [c \in Consoles |-> con[c]] /\ content = [b \in Screens |-> content[b]]
          /\ shown = [c \in Consoles |-> shown[c]] /\ syscon \in Consoles /\ free \subseteq Buffers
    BY <1>1, <1>2 DEF Screens
  <2>10. QED
    BY <2>7, <2>8, <2>9 DEF OwnersInv
<1>9. QED
  BY <1>7, <1>8 DEF ConsoleInv

\* What is printed to a console goes to its screen and no other.
LEMMA BecomesKeeps ==
  ASSUME ConsoleInv, NEW c \in Consoles, NEW s, ScreenOK(s), SameOwner(con[c], s.con),
         Becomes(c, s)
  PROVE  ConsoleInv'
<1>1. /\ con' = [con EXCEPT ![c] = s.con]
      /\ content' = [content EXCEPT ![con[c].buffer] = s.screen]
      /\ shown' = [shown EXCEPT ![c] = s.screen]
      /\ cursor' = IF s.con.change_cur THEN Offset(s.con.x, s.con.y) ELSE cursor
      /\ syscon' = syscon /\ free' = free
  BY DEF Becomes, SameOwner
<1>2. \A d \in Consoles : ConInv(d)
  BY DEF ConsoleInv
<1>3. OwnersInv /\ syscon \in Consoles
  BY DEF ConsoleInv, OwnersInv
<1>4. /\ \A d \in Consoles : con'[d] = IF d = c THEN s.con ELSE con[d]
      /\ \A d \in Consoles : shown'[d] = IF d = c THEN s.screen ELSE shown[d]
      /\ \A b \in Screens : content'[b] = IF b = con[c].buffer THEN s.screen ELSE content[b]
  BY <1>1, <1>3 DEF OwnersInv
<1>5. \A d \in Consoles : con'[d].buffer = con[d].buffer /\ con'[d].change_cur = con[d].change_cur
  BY <1>4 DEF SameOwner
<1>6. ASSUME NEW d \in Consoles PROVE ConInv(d)'
  <2>1. ConOK(con'[d])
    BY <1>2, <1>4 DEF ScreenOK, ConInv
  <2>2. con'[d].buffer \in Screens \ free'
    BY <1>1, <1>2, <1>5 DEF ConInv, Screens
  <2>3. content'[con'[d].buffer] = shown'[d]
    <3>1. con[d].buffer \in Screens /\ (con[c].buffer = con[d].buffer => c = d)
      BY <1>2 DEF ConInv
    <3>2. content[con[d].buffer] = shown[d]
      BY <1>2 DEF ConInv
    <3>3. QED
      BY <1>4, <1>5, <3>1, <3>2
  <2>4. /\ con'[d].change_cur <=> d = syscon'
        /\ con'[d].buffer = Video <=> d = syscon'
    BY <1>1, <1>2, <1>5 DEF ConInv
  <2>5. \A e \in Consoles : con'[d].buffer = con'[e].buffer => d = e
    BY <1>2, <1>5 DEF ConInv
  <2>6. QED
    BY <2>1, <2>2, <2>3, <2>4, <2>5 DEF ConInv, Screens
<1>7. OwnersInv'
  <2>1. cursor' = Offset(con'[syscon].x, con'[syscon].y)
    <3>1. CASE c = syscon
      <4>1. s.con.change_cur
        BY <1>2, <3>1 DEF ConInv, SameOwner
      <4>2. QED
        BY <1>1, <1>4, <3>1, <4>1
    <3>2. CASE c # syscon
      <4>1. ~s.con.change_cur
        BY <1>2, <3>2 DEF ConInv, SameOwner
      <4>2. con'[syscon] = con[syscon]
        BY <1>3, <1>4, <3>2
      <4>3. QED
        BY <1>1, <1>3, <4>1, <4>2 DEF OwnersInv
    <3>3. QED
      BY <3>1, <3>2
  <2>2. con' = [d \in Consoles |-> con'[d]] /\ shown' = [d \in Consoles |-> shown'[d]]
    BY <1>1, <1>3 DEF OwnersInv
  <2>3. content' = [b \in Screens |-> content'[b]]
    BY <1>1, <1>3 DEF OwnersInv
  <2>4. QED
    BY <1>1, <1>3, <2>1, <2>2, <2>3 DEF OwnersInv, Screens
<1>8. QED
  BY <1>6, <1>7 DEF ConsoleInv

\* console_switch: two screens change places and the page that is left is free.
LEMMA ExchangeKeeps ==
  ASSUME ConsoleInv, NEW c \in Consoles, c # syscon, NEW b \in free, Exchange(c, b)
  PROVE  ConsoleInv'
<1> DEFINE old == con[c].buffer
<1>1. /\ con' = [con EXCEPT ![syscon].buffer = b, ![syscon].change_cur = FALSE,
                            ![c].buffer = Video, ![c].change_cur = TRUE]
      /\ content' = [content EXCEPT ![b] = content[Video], ![Video] = content[old]]
      /\ free' = (free \ {b}) \cup {old}
      /\ cursor' = Offset(con[c].x, con[c].y) /\ syscon' = c
      /\ shown' = shown
  BY DEF Exchange
<1>2. \A d \in Consoles : ConInv(d)
  BY DEF ConsoleInv
<1>3. OwnersInv /\ syscon \in Consoles /\ free \subseteq Buffers
  BY DEF ConsoleInv, OwnersInv
<1>4. b \in Buffers /\ b # Video /\ old \in Buffers /\ old # Video /\ old \notin free /\ b # old
  BY <1>2, <1>3, ConsoleAssumption DEF ConInv, Screens
<1>5. con[syscon].buffer = Video
  BY <1>2, <1>3 DEF ConInv
<1> HIDE DEF old
<1>6. /\ \A d \in Consoles : ConOK(con'[d])
      /\ \A d \in Consoles : con'[d].buffer = IF d = syscon THEN b ELSE IF d = c THEN Video ELSE con[d].buffer
      /\ \A d \in Consoles : con'[d].change_cur <=> d = c
      /\ con'[c].x = con[c].x /\ con'[c].y = con[c].y
  <2> DEFINE off == FALSE
             on == TRUE
  <2>1. ~off /\ on
    OBVIOUS
  <2>2. con' = [con EXCEPT ![syscon].buffer = b, ![syscon].change_cur = off,
                           ![c].buffer = Video, ![c].change_cur = on]
    BY <1>1
  <2> HIDE DEF off, on
  <2>3. con = [d \in Consoles |-> con[d]]
    BY <1>3 DEF OwnersInv
  <2>4. con'[syscon] = [con[syscon] EXCEPT !.buffer = b, !.change_cur = off]
    BY <1>3, <2>2, <2>3
  <2>5. con'[c] = [con[c] EXCEPT !.buffer = Video, !.change_cur = on]
    BY <1>3, <2>2, <2>3
  <2>6. \A d \in Consoles : d # c /\ d # syscon => con'[d] = con[d]
    BY <1>3, <2>2, <2>3
  <2>7. ConOK(con[syscon]) /\ ConOK(con[c])
    BY <1>2, <1>3 DEF ConInv
  <2>8. ConOK(con'[syscon]) /\ con'[syscon].buffer = b /\ con'[syscon].change_cur = off
    BY <2>4, <2>7 DEF ConOK
  <2>9. /\ ConOK(con'[c]) /\ con'[c].buffer = Video /\ con'[c].change_cur = on
        /\ con'[c].x = con[c].x /\ con'[c].y = con[c].y
    BY <2>5, <2>7 DEF ConOK
  <2>10. ASSUME NEW d \in Consoles
         PROVE  /\ ConOK(con'[d])
                /\ con'[d].buffer = IF d = syscon THEN b ELSE IF d = c THEN Video ELSE con[d].buffer
                /\ con'[d].change_cur <=> d = c
    <3>1. CASE d = syscon
      BY <2>1, <2>8, <3>1
    <3>2. CASE d = c
      BY <2>1, <2>9, <3>2
    <3>3. CASE d # c /\ d # syscon
      <4>1. con'[d] = con[d] /\ ConInv(d)
        BY <1>2, <2>6, <3>3
      <4>2. QED
        BY <3>3, <4>1 DEF ConInv
    <3>4. QED
      BY <3>1, <3>2, <3>3
  <2>11. QED
    BY <2>9, <2>10
<1>7. \A a \in Screens : content'[a] = IF a = Video THEN content[old]
                                       ELSE IF a = b THEN content[Video] ELSE content[a]
  <2>1. content = [a \in Screens |-> content[a]] /\ b \in Screens /\ Video \in Screens
    BY <1>3, <1>4 DEF OwnersInv, Screens
  <2>2. QED
    BY <1>1, <1>4, <2>1
<1>8. ASSUME NEW d \in Consoles PROVE ConInv(d)'
  <2>1. con[d].buffer \in Screens \ free /\ content[con[d].buffer] = shown[d]
    BY <1>2 DEF ConInv
  <2>2. (con[d].buffer = Video <=> d = syscon) /\ (con[d].buffer = old <=> d = c)
    BY <1>2 DEF ConInv, old
  <2>3. con'[d].buffer = IF d = syscon THEN b ELSE IF d = c THEN Video ELSE con[d].buffer
    BY <1>6
  <2>4. con'[d].buffer \in Screens \ free'
    <3>1. con'[d].buffer \in Screens /\ con'[d].buffer \notin free \ {b}
      BY <1>3, <1>4, <2>1, <2>3, ConsoleAssumption DEF Screens
    <3>2. con'[d].buffer # old
      BY <1>4, <2>2, <2>3
    <3>3. QED
      BY <1>1, <3>1, <3>2
  <2>5. content'[con'[d].buffer] = shown'[d]
    <3>1. CASE d = syscon
      BY <1>1, <1>4, <1>5, <1>7, <2>1, <2>3, <3>1 DEF Screens
    <3>2. CASE d = c
      <4>1. con'[d].buffer = Video /\ Video \in Screens
        BY <2>3, <3>2 DEF Screens
      <4>2. content'[Video] = content[old] /\ con[d].buffer = old
        BY <1>7, <4>1, <2>2, <3>2
      <4>3. QED
        BY <1>1, <2>1, <4>1, <4>2
    <3>3. CASE d # c /\ d # syscon
      BY <1>1, <1>7, <2>1, <2>2, <2>3, <3>3
    <3>4. QED
      BY <3>1, <3>2, <3>3
  <2>6. con'[d].buffer = Video <=> d = syscon'
    BY <1>1, <1>4, <2>2, <2>3
  <2>7. ASSUME NEW e \in Consoles, con'[d].buffer = con'[e].buffer PROVE d = e
    <3>1. con'[e].buffer = IF e = syscon THEN b ELSE IF e = c THEN Video ELSE con[e].buffer
      BY <1>6
    <3>2. con[e].buffer \in Screens \ free /\ (con[e].buffer = Video <=> e = syscon)
      BY <1>2 DEF ConInv
    <3>3. con[d].buffer = con[e].buffer => d = e
      BY <1>2 DEF ConInv
    <3>4. QED
      BY <1>4, <2>1, <2>2, <2>3, <2>7, <3>1, <3>2, <3>3
  <2>8. ConOK(con'[d]) /\ (con'[d].change_cur <=> d = syscon')
    BY <1>1, <1>6
  <2>9. QED
    BY <2>4, <2>5, <2>6, <2>7, <2>8 DEF ConInv, Screens
<1>9. OwnersInv'
  <2>1. IsFiniteSet(free) /\ b \in free
    BY <1>3, ConsoleAssumption, FS_Subset
  <2>2. IsFiniteSet(free \ {b}) /\ Cardinality(free \ {b}) = Cardinality(free) - 1
    BY <2>1, FS_RemoveElement
  <2>3. old \notin free \ {b}
    BY <1>4
  <2>4. Cardinality(free') = Cardinality(free \ {b}) + 1
    BY <1>1, <2>2, <2>3, FS_AddElement
  <2>5. Cardinality(free) \in Nat
    BY <2>1, FS_CardinalityType
  <2>6. Cardinality(free') = Cardinality(free)
    BY <2>2, <2>4, <2>5
  <2>7. free' \subseteq Buffers /\ syscon' \in Consoles
    BY <1>1, <1>3, <1>4
  <2>8. con' = [d \in Consoles |-> con'[d]] /\ shown' = [d \in Consoles |-> shown'[d]]
    BY <1>1, <1>3 DEF OwnersInv
  <2>9. content' = [a \in Screens |-> content'[a]]
    BY <1>1, <1>3 DEF OwnersInv
  <2>10. cursor' = Offset(con'[syscon'].x, con'[syscon'].y)
    BY <1>1, <1>6
  <2>11. QED
    BY <1>3, <2>6, <2>7, <2>8, <2>9, <2>10 DEF OwnersInv, Screens
<1>10. QED
  BY <1>8, <1>9 DEF ConsoleInv

LEMMA PlaceKeeps ==
  ASSUME NEW c, ConOK(c), NEW x \in 0 .. Width - 1, NEW y \in 0 .. Height - 1
  PROVE  ConOK([c EXCEPT !.x = x, !.y = y]) /\ SameOwner(c, [c EXCEPT !.x = x, !.y = y])
<1> DEFINE d == [c EXCEPT !.x = x]
<1>1. [c EXCEPT !.x = x, !.y = y] = [d EXCEPT !.y = y]
  OBVIOUS
<1>2. ConOK(d) /\ SameOwner(c, d)
  BY DEF ConOK, SameOwner
<1> HIDE DEF d
<1>3. ConOK([d EXCEPT !.y = y]) /\ SameOwner(d, [d EXCEPT !.y = y])
  BY <1>2 DEF ConOK, SameOwner
<1>4. QED
  BY <1>1, <1>2, <1>3 DEF SameOwner

Moved(s, x, y) == [s EXCEPT !.con.x = x, !.con.y = y]

LEMMA MovedKeeps ==
  ASSUME NEW s, ScreenOK(s), NEW x \in 0 .. Width - 1, NEW y \in 0 .. Height - 1
  PROVE  ScreenOK(Moved(s, x, y)) /\ SameOwner(s.con, Moved(s, x, y).con)
<1> DEFINE t == [s EXCEPT !.con.x = x]
           d == [s.con EXCEPT !.x = x]
<1>1. Moved(s, x, y) = [t EXCEPT !.con.y = y]
  BY DEF Moved
<1>2. t = [con |-> d, screen |-> s.screen]
  BY DEF ScreenOK
<1>3. [s.con EXCEPT !.x = x, !.y = y] = [d EXCEPT !.y = y]
  OBVIOUS
<1>4. ConOK([d EXCEPT !.y = y]) /\ SameOwner(s.con, [d EXCEPT !.y = y])
  <2>1. ConOK(s.con)
    BY DEF ScreenOK
  <2>2. QED
    BY <1>3, <2>1, PlaceKeeps
<1> HIDE DEF t, d
<1>5. [t EXCEPT !.con.y = y] = [con |-> [d EXCEPT !.y = y], screen |-> s.screen]
  BY <1>2
<1>6. QED
  BY <1>1, <1>4, <1>5 DEF ScreenOK

LEMMA ConsoleSame ==
  ConsoleInv /\ UNCHANGED <<con, syscon, content, free, cursor, shown>> => ConsoleInv'
<1> SUFFICES ASSUME ConsoleInv, UNCHANGED <<con, syscon, content, free, cursor, shown>>
             PROVE  ConsoleInv'
  OBVIOUS
<1>1. OwnersInv'
  BY DEF ConsoleInv, OwnersInv, Screens
<1>2. ASSUME NEW c \in Consoles PROVE ConInv(c)'
  <2>1. ConInv(c)
    BY DEF ConsoleInv
  <2>2. QED
    BY <2>1 DEF ConInv, Screens
<1>3. QED
  BY <1>1, <1>2 DEF ConsoleInv

LEMMA ScreenOf ==
  ASSUME ConsoleInv, NEW c \in Consoles
  PROVE  /\ ScreenOK(Screen(c)) /\ Screen(c).con = con[c]
         /\ Screen(c) = [con |-> con[c], screen |-> content[con[c].buffer]]
<1>1. ConOK(con[c])
  BY DEF ConsoleInv, ConInv
<1>2. QED
  BY <1>1 DEF Screen, ScreenOK

\* Whatever is printed by the calls of console.c.
LEMMA ConsoleSteps == ConsoleInv /\ [ConsoleNext]_consoleVars => ConsoleInv'
<1> SUFFICES ASSUME ConsoleInv, [ConsoleNext]_consoleVars PROVE ConsoleInv'
  OBVIOUS
<1>1. ASSUME NEW c \in Consoles, NEW ch, Putchar(c, ch) PROVE ConsoleInv'
  <2>1. Becomes(c, PutChar(Screen(c), ch))
    BY <1>1 DEF Putchar
  <2>2. ScreenOK(PutChar(Screen(c), ch)) /\ SameOwner(con[c], PutChar(Screen(c), ch).con)
    BY ScreenOf, PutCharKeeps
  <2>3. QED
    BY <2>1, <2>2, BecomesKeeps
<1>2. ASSUME NEW c \in Consoles, NEW ch, PutcharRaw(c, ch) PROVE ConsoleInv'
  <2>1. Becomes(c, PutRaw(Screen(c), ch))
    BY <1>2 DEF PutcharRaw
  <2>2. ScreenOK(PutRaw(Screen(c), ch)) /\ SameOwner(con[c], PutRaw(Screen(c), ch).con)
    BY ScreenOf, PutRawKeeps
  <2>3. QED
    BY <2>1, <2>2, BecomesKeeps
<1>3. ASSUME NEW c \in Consoles, NEW p \in Places, Gotoxy(c, p[1], p[2]) PROVE ConsoleInv'
  <2> DEFINE x == IF p[1] >= Width THEN Width - 1 ELSE p[1]
             y == IF p[2] >= Height THEN Height - 1 ELSE p[2]
  <2>1. Becomes(c, Moved(Screen(c), x, y))
    BY <1>3 DEF Gotoxy, Moved
  <2>2. p[1] \in Nat /\ p[2] \in Nat
    BY ConsoleAssumption
  <2>3. x \in 0 .. Width - 1 /\ y \in 0 .. Height - 1
    BY <2>2, Sized DEF Sizes
  <2> HIDE DEF x, y
  <2>4. ScreenOK(Moved(Screen(c), x, y)) /\ SameOwner(con[c], Moved(Screen(c), x, y).con)
    BY <2>3, ScreenOf, MovedKeeps
  <2>5. QED
    BY <2>1, <2>4, BecomesKeeps
<1>4. ASSUME NEW c \in Consoles, ClearScreen(c) PROVE ConsoleInv'
  <2> DEFINE s == [con |-> [con[c] EXCEPT !.x = 0, !.y = 0], screen |-> Clear(con[c].color)]
  <2>1. Becomes(c, s)
    BY <1>4 DEF ClearScreen
  <2>2. 0 \in 0 .. Width - 1 /\ 0 \in 0 .. Height - 1
    BY Sized DEF Sizes
  <2>3. ConOK(con[c])
    BY DEF ConsoleInv, ConInv
  <2>4. ConOK([con[c] EXCEPT !.x = 0, !.y = 0]) /\ SameOwner(con[c], [con[c] EXCEPT !.x = 0, !.y = 0])
    BY <2>2, <2>3, PlaceKeeps
  <2>5. ScreenOK(s) /\ SameOwner(con[c], s.con)
    BY <2>4 DEF ScreenOK
  <2> HIDE DEF s
  <2>6. QED
    BY <2>1, <2>5, BecomesKeeps
<1>5. ASSUME NEW c \in Consoles, ConsoleSwitch(c) PROVE ConsoleInv'
  BY <1>5, ExchangeKeeps DEF ConsoleSwitch
<1>6. CASE UNCHANGED consoleVars
  BY <1>6, ConsoleSame DEF consoleVars
<1>7. QED
  BY <1>1, <1>2, <1>3, <1>4, <1>5, <1>6 DEF ConsoleNext

\* Each console shows what was printed to it and nothing else, whatever is
\* written to consoles and however they are switched.
THEOREM ConsolesAlwaysKept == ConsoleSpec => []ConsolesKept
<1>1. ConsoleSpec => []ConsoleInv
  BY ConsoleStarts, ConsoleSteps, PTL DEF ConsoleSpec
<1>2. QED
  BY <1>1, ConsoleInvKeeps, PTL

-----------------------------------------------------------------------------
(* What programs have left to print.                                        *)

Letters == {"esc", "[", ";", "m", "n0", "n1", "n37"}
Strings == {Light.chars, Normal.chars}

StringItems == {i \in [kind : {"string"}, chars : Strings, at : Nat] : i.at < Len(i.chars)}
BufferItems == {i \in [kind : {"buffer"}, chars : Texts, at : Nat] : i.at < Len(i.chars)}
Items == StringItems \cup BufferItems

ProgOK(r) ==
  /\ r = [pc |-> r.pc, gate |-> r.gate, eax |-> r.eax, out |-> r.out, entry |-> r.entry,
          base |-> r.base, own |-> r.own, brk |-> r.brk]
  /\ r.out \in Seq(Items)
  /\ r.pc = "runs" => r.base \in r.own

ProgInv ==
  /\ cut \in [Programs -> Cuts]
  /\ prog = [p \in Programs |-> prog[p]]
  /\ \A p \in Programs : ProgOK(prog[p])

\* A write ends with the color put back.
Finishes(out) == out = <<>> \/ out[Len(out)] = Normal

\* What a system call of a program makes of it: what it prints afterwards is
\* nothing, or puts the color back.
Serves(p) ==
  \E r : /\ ProgOK(r) /\ prog' = [prog EXCEPT ![p] = r]
         /\ Finishes(r.out) /\ (\A i \in DOMAIN r.out : r.out[i].at = 0)

LEMMA StringLengths ==
  /\ Light.chars \in Seq(Letters) /\ Len(Light.chars) = 6
  /\ Normal.chars \in Seq(Letters) /\ Len(Normal.chars) = 4
<1>1. Light.chars = <<"esc", "[", "n1", ";", "n37", "m">>
  BY DEF Light, String
<1>2. Normal.chars = <<"esc", "[", "n0", "m">>
  BY DEF Normal, String
<1>3. /\ <<"esc", "[", "n1", ";", "n37", "m">> \in Seq(Letters)
      /\ Len(<<"esc", "[", "n1", ";", "n37", "m">>) = 6
  BY DEF Letters
<1>4. /\ <<"esc", "[", "n0", "m">> \in Seq(Letters)
      /\ Len(<<"esc", "[", "n0", "m">>) = 4
  BY DEF Letters
<1>5. QED
  BY <1>1, <1>2, <1>3, <1>4

LEMMA LightItem == Light \in Items /\ Light.at = 0 /\ Light.kind = "string"
<1>1. Light = [kind |-> "string", chars |-> Light.chars, at |-> 0] /\ Light.at = 0 /\ Light.kind = "string"
  BY DEF Light, String
<1>2. Light \in [kind : {"string"}, chars : Strings, at : Nat]
  BY <1>1 DEF Strings
<1>3. Light.at < Len(Light.chars)
  BY <1>1, StringLengths
<1>4. Light \in StringItems
  BY <1>2, <1>3 DEF StringItems
<1>5. QED
  BY <1>1, <1>4 DEF Items

LEMMA NormalItem == Normal \in Items /\ Normal.at = 0 /\ Normal.kind = "string"
<1>1. Normal = [kind |-> "string", chars |-> Normal.chars, at |-> 0] /\ Normal.at = 0 /\ Normal.kind = "string"
  BY DEF Normal, String
<1>2. Normal \in [kind : {"string"}, chars : Strings, at : Nat]
  BY <1>1 DEF Strings
<1>3. Normal.at < Len(Normal.chars)
  BY <1>1, StringLengths
<1>4. Normal \in StringItems
  BY <1>2, <1>3 DEF StringItems
<1>5. QED
  BY <1>1, <1>4 DEF Items

LEMMA TextIs ==
  ASSUME NEW text \in Texts
  PROVE  text \in Seq(Glyphs) /\ Len(text) \in Nat /\ Len(text) > 0
<1>1. text \in Seq(Glyphs) /\ text # <<>>
  BY LinuxAssumption
<1>2. QED
  BY <1>1, EmptySeq

LEMMA PutItem ==
  ASSUME NEW text \in Texts
  PROVE  Put(text) \in Items /\ Put(text).at = 0
<1>1. Put(text) = [kind |-> "buffer", chars |-> text, at |-> 0] /\ Put(text).at = 0 /\ Put(text).chars = text
  BY DEF Put
<1>2. Put(text) \in [kind : {"buffer"}, chars : Texts, at : Nat]
  BY <1>1
<1>3. QED
  BY <1>1, <1>2, TextIs DEF Items, BufferItems

\* What is left of an item, and of the list it is the first of.
LEMMA ItemIs ==
  ASSUME NEW i \in Items
  PROVE  /\ i = [kind |-> i.kind, chars |-> i.chars, at |-> i.at]
         /\ i.at \in Nat /\ Len(i.chars) \in Nat /\ i.at < Len(i.chars)
         /\ i.kind = "string" => i.chars \in Strings /\ i.chars \in Seq(Letters)
         /\ i.kind = "buffer" => i.chars \in Texts
         /\ i.kind \in {"string", "buffer"}
<1>1. CASE i \in StringItems
  <2>1. i \in [kind : {"string"}, chars : Strings, at : Nat] /\ i.at < Len(i.chars)
    BY <1>1 DEF StringItems
  <2>2. i.chars \in Strings /\ i.chars \in Seq(Letters) /\ Len(i.chars) \in Nat
    BY <2>1, StringLengths DEF Strings
  <2>3. QED
    BY <2>1, <2>2
<1>2. CASE i \in BufferItems
  <2>1. i \in [kind : {"buffer"}, chars : Texts, at : Nat] /\ i.at < Len(i.chars)
    BY <1>2 DEF BufferItems
  <2>2. Len(i.chars) \in Nat
    BY <2>1, TextIs
  <2>3. QED
    BY <2>1, <2>2
<1>3. QED
  BY <1>1, <1>2 DEF Items

LEMMA ItemLater ==
  ASSUME NEW i \in Items, NEW n \in Nat, n < Len(i.chars)
  PROVE  [i EXCEPT !.at = n] \in Items
<1> DEFINE j == [i EXCEPT !.at = n]
<1>1. j = [kind |-> i.kind, chars |-> i.chars, at |-> n]
  BY ItemIs
<1> HIDE DEF j
<1>2. j.kind = i.kind /\ j.chars = i.chars /\ j.at = n
  BY <1>1
<1>3. CASE i.kind = "string"
  <2>1. i.chars \in Strings
    BY <1>3, ItemIs
  <2>2. j \in [kind : {"string"}, chars : Strings, at : Nat]
    BY <1>1, <1>3, <2>1
  <2>3. j \in Items
    BY <1>2, <2>2 DEF Items, StringItems
  <2>4. QED
    BY <2>3 DEF j
<1>4. CASE i.kind = "buffer"
  <2>1. i.chars \in Texts
    BY <1>4, ItemIs
  <2>2. j \in [kind : {"buffer"}, chars : Texts, at : Nat]
    BY <1>1, <1>4, <2>1
  <2>3. j \in Items
    BY <1>2, <2>2 DEF Items, BufferItems
  <2>4. QED
    BY <2>3 DEF j
<1>5. QED
  BY <1>3, <1>4, ItemIs

LEMMA LinuxStarts == LinuxInit => ProgInv
<1> SUFFICES ASSUME LinuxInit PROVE ProgInv
  OBVIOUS
<1>1. prog = [p \in Programs |-> NewProgram] /\ cut \in [Programs -> Cuts]
  BY DEF LinuxInit
<1>2. ProgOK(NewProgram)
  <2> DEFINE off == FALSE
             low == Min(Breaks)
  <2>1. NewProgram = [pc |-> "waits", gate |-> off, eax |-> 0, out |-> <<>>, entry |-> -1,
                      base |-> UserTlsBase, own |-> {}, brk |-> low]
    BY DEF NewProgram
  <2> HIDE DEF off, low
  <2>2. <<>> \in Seq(Items)
    OBVIOUS
  <2>3. QED
    BY <2>1, <2>2 DEF ProgOK
<1>3. QED
  BY <1>1, <1>2 DEF ProgInv

LEMMA BecomingKeeps ==
  ASSUME ProgInv, NEW p \in Programs, NEW r, ProgOK(r), prog' = [prog EXCEPT ![p] = r], cut' = cut
  PROVE  /\ ProgInv'
         /\ \A q \in Programs : prog'[q] = IF q = p THEN r ELSE prog[q]
<1>1. \A q \in Programs : prog'[q] = IF q = p THEN r ELSE prog[q]
  BY DEF ProgInv
<1>2. prog' = [q \in Programs |-> prog'[q]]
  BY DEF ProgInv
<1>3. \A q \in Programs : ProgOK(prog'[q])
  BY <1>1 DEF ProgInv
<1>4. QED
  BY <1>1, <1>2, <1>3 DEF ProgInv, ProgOK, Items, StringItems, BufferItems, Strings

LEMMA EaxKeeps ==
  ASSUME NEW r, ProgOK(r), NEW v
  PROVE  ProgOK([r EXCEPT !.eax = v]) /\ [r EXCEPT !.eax = v].out = r.out
<1> DEFINE d == [r EXCEPT !.eax = v]
<1>1. d = [pc |-> r.pc, gate |-> r.gate, eax |-> v, out |-> r.out, entry |-> r.entry,
           base |-> r.base, own |-> r.own, brk |-> r.brk]
  BY DEF ProgOK
<1> HIDE DEF d
<1>2. /\ d.pc = r.pc /\ d.gate = r.gate /\ d.eax = v /\ d.out = r.out /\ d.entry = r.entry
      /\ d.base = r.base /\ d.own = r.own /\ d.brk = r.brk
  BY <1>1
<1>3. ProgOK(d)
  BY <1>1, <1>2 DEF ProgOK
<1>4. QED
  BY <1>2, <1>3 DEF d

LEMMA OutKeeps ==
  ASSUME NEW r, ProgOK(r), NEW out \in Seq(Items)
  PROVE  ProgOK([r EXCEPT !.out = out]) /\ [r EXCEPT !.out = out].out = out
BY DEF ProgOK

LEMMA ReturnsServe ==
  ASSUME ProgInv, NEW p \in Programs, prog[p].out = <<>>, NEW v, Returns(p, v)
  PROVE  Serves(p)
<1> DEFINE r == [prog[p] EXCEPT !.eax = v]
<1>1. prog' = [prog EXCEPT ![p] = r]
  BY DEF Returns, Becoming
<1>2. ProgOK(prog[p])
  BY DEF ProgInv
<1>3. ProgOK(r) /\ r.out = <<>>
  BY <1>2, EaxKeeps
<1> HIDE DEF r
<1>4. Finishes(r.out) /\ \A i \in DOMAIN r.out : r.out[i].at = 0
  BY <1>3 DEF Finishes
<1>5. QED
  BY <1>1, <1>3, <1>4 DEF Serves

\* A program prints what it wrote between its color and the one there was.
LEMMA PrintsServe ==
  ASSUME ProgInv, NEW p \in Programs, NEW out \in Seq(Items), NEW v, out[Len(out)] = Normal,
         \A i \in DOMAIN out : out[i].at = 0,
         \/ Becoming(p, [prog[p] EXCEPT !.out = out, !.eax = v])
         \/ Becoming(p, [prog[p] EXCEPT !.eax = v, !.out = out])
  PROVE  Serves(p)
<1> DEFINE d == [prog[p] EXCEPT !.out = out]
           r == [d EXCEPT !.eax = v]
<1>1. prog' = [prog EXCEPT ![p] = r]
  BY DEF Becoming
<1>2. ProgOK(prog[p])
  BY DEF ProgInv
<1>3. ProgOK(d) /\ d.out = out
  BY <1>2, OutKeeps
<1> HIDE DEF d
<1>4. ProgOK(r) /\ r.out = out
  BY <1>3, EaxKeeps
<1> HIDE DEF r
<1>5. QED
  BY <1>1, <1>4 DEF Serves, Finishes

\* The other fields of a program.
LEMMA ExitedOK ==
  ASSUME NEW r, ProgOK(r)
  PROVE  ProgOK([r EXCEPT !.pc = "exited"]) /\ [r EXCEPT !.pc = "exited"].out = r.out
BY DEF ProgOK

LEMMA BrkOK ==
  ASSUME NEW r, ProgOK(r), NEW v
  PROVE  ProgOK([r EXCEPT !.brk = v]) /\ [r EXCEPT !.brk = v].out = r.out
<1> DEFINE d == [r EXCEPT !.brk = v]
<1>1. d = [pc |-> r.pc, gate |-> r.gate, eax |-> r.eax, out |-> r.out, entry |-> r.entry,
           base |-> r.base, own |-> r.own, brk |-> v]
  BY DEF ProgOK
<1> HIDE DEF d
<1>2. /\ d.pc = r.pc /\ d.gate = r.gate /\ d.eax = r.eax /\ d.out = r.out /\ d.entry = r.entry
      /\ d.base = r.base /\ d.own = r.own /\ d.brk = v
  BY <1>1
<1>3. ProgOK(d)
  BY <1>1, <1>2 DEF ProgOK
<1>4. QED
  BY <1>2, <1>3 DEF d

LEMMA EntryOK ==
  ASSUME NEW r, ProgOK(r), NEW v
  PROVE  ProgOK([r EXCEPT !.entry = v]) /\ [r EXCEPT !.entry = v].out = r.out
<1> DEFINE d == [r EXCEPT !.entry = v]
<1>1. d = [pc |-> r.pc, gate |-> r.gate, eax |-> r.eax, out |-> r.out, entry |-> v,
           base |-> r.base, own |-> r.own, brk |-> r.brk]
  BY DEF ProgOK
<1> HIDE DEF d
<1>2. /\ d.pc = r.pc /\ d.gate = r.gate /\ d.eax = r.eax /\ d.out = r.out /\ d.entry = v
      /\ d.base = r.base /\ d.own = r.own /\ d.brk = r.brk
  BY <1>1
<1>3. ProgOK(d)
  BY <1>1, <1>2 DEF ProgOK
<1>4. QED
  BY <1>2, <1>3 DEF d

AreaOf(r, base) == [r EXCEPT !.base = base, !.own = @ \cup {base}]

LEMMA AreaOK ==
  ASSUME NEW r, ProgOK(r), NEW v
  PROVE  ProgOK(AreaOf(r, v)) /\ AreaOf(r, v).out = r.out
<1> DEFINE c == [r EXCEPT !.base = v]
           d == AreaOf(r, v)
           o == r.own \cup {v}
<1>0. d = [c EXCEPT !.own = o]
  BY DEF AreaOf, ProgOK
<1>1. c = [pc |-> r.pc, gate |-> r.gate, eax |-> r.eax, out |-> r.out, entry |-> r.entry,
           base |-> v, own |-> r.own, brk |-> r.brk]
  BY DEF ProgOK
<1>2. v \in o
  OBVIOUS
<1> HIDE DEF c, d, o
<1>3. d = [pc |-> r.pc, gate |-> r.gate, eax |-> r.eax, out |-> r.out, entry |-> r.entry,
           base |-> v, own |-> o, brk |-> r.brk]
  BY <1>0, <1>1
<1>4. /\ d.pc = r.pc /\ d.gate = r.gate /\ d.eax = r.eax /\ d.out = r.out /\ d.entry = r.entry
      /\ d.base = v /\ d.own = o /\ d.brk = r.brk
  BY <1>3
<1>5. ProgOK(d)
  BY <1>2, <1>3, <1>4 DEF ProgOK
<1>6. QED
  BY <1>4, <1>5 DEF d

\* What is written between the two colors.
Between(l, m, n) == <<l>> \o m \o <<n>>

IsJoin(s, a, b) ==
  /\ Len(s) = Len(a) + Len(b)
  /\ \A j \in 1 .. Len(a) + Len(b) : s[j] = IF j <= Len(a) THEN a[j] ELSE b[j - Len(a)]

LEMMA Joined ==
  ASSUME NEW S, NEW a \in Seq(S), NEW b \in Seq(S)
  PROVE  a \o b \in Seq(S) /\ IsJoin(a \o b, a, b)
BY ConcatProperties DEF IsJoin

IsBetween(out, l, m, n) ==
  /\ Len(out) = Len(m) + 2 /\ out[1] = l /\ out[Len(m) + 2] = n
  /\ \A i \in 1 .. Len(m) : out[i + 1] = m[i]

LEMMA BetweenIs ==
  ASSUME NEW S, NEW l \in S, NEW m \in Seq(S), NEW n \in S
  PROVE  Between(l, m, n) \in Seq(S) /\ IsBetween(Between(l, m, n), l, m, n)
<1> DEFINE a == <<l>>
           b == <<n>>
           c == a \o m
           out == c \o b
           k == Len(m)
<1>1. a \in Seq(S) /\ Len(a) = 1 /\ a[1] = l /\ b \in Seq(S) /\ Len(b) = 1 /\ b[1] = n
  OBVIOUS
<1>2. Between(l, m, n) = out
  BY DEF Between
<1>3. k \in Nat /\ k = Len(m)
  OBVIOUS
<1> HIDE DEF a, b, k
<1>3a. c = a \o m /\ out = c \o b
  OBVIOUS
<1> HIDE DEF c, out
<1>4. /\ c \in Seq(S) /\ Len(c) = 1 + k
      /\ \A i \in 1 .. 1 + k : c[i] = IF i <= 1 THEN a[i] ELSE m[i - 1]
  <2>1. c \in Seq(S) /\ IsJoin(c, a, m)
    BY <1>1, <1>3a, Joined
  <2>2. QED
    BY <1>1, <1>3, <2>1 DEF IsJoin
<1>5. /\ out \in Seq(S) /\ Len(out) = 1 + k + 1
      /\ \A i \in 1 .. 1 + k + 1 : out[i] = IF i <= 1 + k THEN c[i] ELSE b[i - (1 + k)]
  <2>1. out \in Seq(S) /\ IsJoin(out, c, b)
    BY <1>1, <1>3a, <1>4, Joined
  <2>2. QED
    BY <1>1, <1>4, <2>1 DEF IsJoin
<1>6. out[1] = l
  <2>1. c[1] = a[1]
    BY <1>3, <1>4
  <2>2. out[1] = c[1]
    BY <1>3, <1>5
  <2>3. QED
    BY <1>1, <2>1, <2>2
<1>7. out[k + 2] = n
  <2> DEFINE z == k + 2
  <2>1. z = k + 2
    OBVIOUS
  <2> HIDE DEF z
  <2>1a. z \in 1 .. 1 + k + 1 /\ ~(z <= 1 + k) /\ z - (1 + k) = 1
    BY <1>3, <2>1
  <2>1b. out[z] = b[z - (1 + k)]
    BY <1>5, <2>1a
  <2>2. out[k + 2] = b[1]
    BY <2>1, <2>1a, <2>1b
  <2>3. QED
    BY <1>1, <2>2
<1>8. ASSUME NEW i \in 1 .. k PROVE out[i + 1] = m[i]
  <2>1. /\ i + 1 \in 1 .. 1 + k + 1 /\ i + 1 <= 1 + k /\ i + 1 \in 1 .. 1 + k
        /\ ~(i + 1 <= 1) /\ i + 1 - 1 = i
    BY <1>3
  <2>2. out[i + 1] = c[i + 1] /\ c[i + 1] = m[i]
    BY <1>4, <1>5, <2>1
  <2>3. QED
    BY <2>2
<1>9. Len(out) = k + 2
  BY <1>3, <1>5
<1>10. QED
  BY <1>2, <1>3, <1>5, <1>6, <1>7, <1>8, <1>9 DEF IsBetween

\* Every system call.
LEMMA InterruptServes ==
  ASSUME ProgInv, NEW p \in Programs, Interrupt(p)
  PROVE  Serves(p) /\ cut' = cut /\ served' = served /\ prog[p].out = <<>>
         /\ UNCHANGED <<con, syscon, content, free, cursor, shown>>
<1>1. PICK call \in Implemented \cup NotImplemented : SyscallRun(p, call)
  BY DEF Interrupt
<1>2. prog[p].out = <<>> /\ prog[p].pc = "runs"
  BY DEF Interrupt, AtCall
<1>3. ProgOK(prog[p])
  BY DEF ProgInv
<1>4. Serves(p)
  <2>1. CASE call \in {"exit", "exit_group"}
    <3> DEFINE r == [prog[p] EXCEPT !.pc = "exited"]
    <3>1. prog' = [prog EXCEPT ![p] = r]
      BY <1>1, <2>1 DEF SyscallRun, SysExit, Becoming
    <3>2. ProgOK(r) /\ r.out = <<>>
      BY <1>2, <1>3, ExitedOK
    <3> HIDE DEF r
    <3>3. Finishes(r.out) /\ \A i \in DOMAIN r.out : r.out[i].at = 0
      BY <3>2 DEF Finishes
    <3>4. QED
      BY <3>1, <3>2, <3>3 DEF Serves
  <2>2. CASE call = "write"
    <3>1. PICK fd \in {0, 1}, text \in Texts : Write(p, fd, text)
      BY <1>1, <2>2 DEF SyscallRun
    <3>2. CASE fd \in {1, 2}
      <4> DEFINE out == <<Light, Put(text), Normal>>
      <4>1. Becoming(p, [prog[p] EXCEPT !.out = out, !.eax = 4])
        BY <3>1, <3>2 DEF Write
      <4>2. out \in Seq(Items) /\ Len(out) = 3
        BY LightItem, NormalItem, PutItem
      <4>3. out[1] = Light /\ out[2] = Put(text) /\ out[3] = Normal /\ DOMAIN out = 1 .. 3
        OBVIOUS
      <4> HIDE DEF out
      <4>4. \A i \in DOMAIN out : out[i].at = 0
        <5>1. \A i \in 1 .. 3 : i = 1 \/ i = 2 \/ i = 3
          OBVIOUS
        <5>2. QED
          BY <4>3, <5>1, LightItem, NormalItem, PutItem
      <4>5. out[Len(out)] = Normal
        BY <4>2, <4>3
      <4>6. QED
        BY <4>1, <4>2, <4>4, <4>5, PrintsServe
    <3>3. CASE fd \notin {1, 2}
      BY <1>2, <3>1, <3>3, ReturnsServe DEF Write
    <3>4. QED
      BY <3>2, <3>3
  <2>3. CASE call = "writev"
    <3>1. PICK fd \in {0, 2}, a \in Texts, b \in Texts : Writev(p, fd, <<a, b>>)
      BY <1>1, <2>3 DEF SyscallRun
    <3>2. CASE fd \in {1, 2}
      <4> DEFINE puts == [i \in DOMAIN <<a, b>> |-> Put(<<a, b>>[i])]
                 out == <<Light>> \o puts \o <<Normal>>
      <4>1. Becoming(p, [prog[p] EXCEPT !.eax = 146, !.out = out])
        BY <3>1, <3>2 DEF Writev
      <4>2. puts = <<Put(a), Put(b)>>
        OBVIOUS
      <4>3. puts \in Seq(Items) /\ Len(puts) = 2 /\ puts[1] = Put(a) /\ puts[2] = Put(b)
        BY <4>2, PutItem
      <4>3a. out = Between(Light, puts, Normal)
        BY DEF Between
      <4> HIDE DEF out, puts
      <4>3b. out \in Seq(Items) /\ IsBetween(out, Light, puts, Normal)
        <5>1. Light \in Items /\ Normal \in Items /\ puts \in Seq(Items)
          BY <4>3, LightItem, NormalItem
        <5>2. QED
          BY <4>3a, <5>1, BetweenIs
      <4>4. out \in Seq(Items) /\ Len(out) = 4
        BY <4>3, <4>3b DEF IsBetween
      <4>5. out[1] = Light /\ out[2] = Put(a) /\ out[3] = Put(b) /\ out[4] = Normal /\ DOMAIN out = 1 .. 4
        <5>1. out[1] = Light /\ out[2 + 2] = Normal /\ \A i \in 1 .. 2 : out[i + 1] = puts[i]
          BY <4>3, <4>3b DEF IsBetween
        <5>2. out[1 + 1] = puts[1] /\ out[2 + 1] = puts[2]
          BY <5>1
        <5>3. QED
          BY <4>3, <4>4, <5>1, <5>2
      <4>6. \A i \in DOMAIN out : out[i].at = 0
        <5>1. \A i \in 1 .. 4 : i = 1 \/ i = 2 \/ i = 3 \/ i = 4
          OBVIOUS
        <5>2. QED
          BY <4>5, <5>1, LightItem, NormalItem, PutItem
      <4>7. out[Len(out)] = Normal
        BY <4>4, <4>5
      <4>8. QED
        BY <4>1, <4>4, <4>6, <4>7, PrintsServe
    <3>3. CASE fd \notin {1, 2}
      BY <1>2, <3>1, <3>3, ReturnsServe DEF Writev
    <3>4. QED
      BY <3>2, <3>3
  <2>4. CASE call = "brk"
    <3>1. PICK a \in Breaks \cup {0} : Brk(p, a)
      BY <1>1, <2>4 DEF SyscallRun
    <3>2. CASE \E v : Returns(p, v)
      BY <1>2, <3>2, ReturnsServe
    <3>3. CASE \E v : Becoming(p, [prog[p] EXCEPT !.brk = v, !.eax = v])
      <4>1. PICK v : Becoming(p, [prog[p] EXCEPT !.brk = v, !.eax = v])
        BY <3>3
      <4> DEFINE d == [prog[p] EXCEPT !.brk = v]
                 r == [d EXCEPT !.eax = v]
      <4>2. prog' = [prog EXCEPT ![p] = r]
        BY <4>1 DEF Becoming
      <4>3. ProgOK(d) /\ d.out = <<>>
        BY <1>2, <1>3, BrkOK
      <4> HIDE DEF d
      <4>4. ProgOK(r) /\ r.out = <<>>
        BY <4>3, EaxKeeps
      <4> HIDE DEF r
      <4>5. Finishes(r.out) /\ \A i \in DOMAIN r.out : r.out[i].at = 0
        BY <4>4 DEF Finishes
      <4>6. QED
        BY <4>2, <4>4, <4>5 DEF Serves
    <3>4. QED
      <4>1. a \in Nat /\ (a = 0 \/ a < prog[p].brk \/ ~(a < prog[p].brk))
        BY LinuxAssumption
      <4>2. CASE a = 0
        BY <3>1, <3>2, <4>2 DEF Brk
      <4>3. CASE a # 0 /\ a < prog[p].brk
        BY <3>1, <3>2, <4>3 DEF Brk
      <4>4. CASE a # 0 /\ ~(a < prog[p].brk)
        BY <3>1, <3>3, <4>4 DEF Brk
      <4>5. QED
        BY <4>2, <4>3, <4>4
  <2>5. CASE call = "uname"
    <3>1. PICK buf \in {"NULL", "buf"} : Uname(p, buf)
      BY <1>1, <2>5 DEF SyscallRun
    <3>2. QED
      BY <1>2, <3>1, ReturnsServe DEF Uname
  <2>6. CASE call = "set_thread_area"
    <3>1. PICK desc \in Descriptors(p) : SetThreadArea(p, desc)
      BY <1>1, <2>6 DEF SyscallRun
    <3>2. CASE \E v : Returns(p, v)
      BY <1>2, <3>2, ReturnsServe
    <3>3. CASE Becoming(p, [prog[p] EXCEPT !.eax = 0, !.entry = 6, !.base = desc.base,
                                           !.own = @ \cup {desc.base}])
      <4> DEFINE r0 == [prog[p] EXCEPT !.eax = 0]
                 r1 == [r0 EXCEPT !.entry = 6]
                 r == AreaOf(r1, desc.base)
      <4>1. prog' = [prog EXCEPT ![p] = r]
        BY <3>3 DEF Becoming, AreaOf
      <4>2. ProgOK(r0) /\ r0.out = <<>>
        BY <1>2, <1>3, EaxKeeps
      <4> HIDE DEF r0
      <4>3. ProgOK(r1) /\ r1.out = <<>>
        BY <4>2, EntryOK
      <4> HIDE DEF r1
      <4>4. ProgOK(r) /\ r.out = <<>>
        BY <4>3, AreaOK
      <4> HIDE DEF r
      <4>5. Finishes(r.out) /\ \A i \in DOMAIN r.out : r.out[i].at = 0
        BY <4>4 DEF Finishes
      <4>6. QED
        BY <4>1, <4>4, <4>5 DEF Serves
    <3>4. QED
      <4>0. desc.null \in BOOLEAN /\ desc.valid \in BOOLEAN
        BY DEF Descriptors
      <4> DEFINE entry == IF desc.entry = -1 THEN 6 ELSE desc.entry
      <4>1. CASE desc.null
        BY <3>1, <3>2, <4>1 DEF SetThreadArea
      <4>2. CASE ~desc.null /\ ~desc.valid
        BY <3>1, <3>2, <4>2 DEF SetThreadArea
      <4>3. CASE ~desc.null /\ desc.valid /\ entry # 6
        BY <3>1, <3>2, <4>3 DEF SetThreadArea
      <4>4. CASE ~desc.null /\ desc.valid /\ entry = 6
        BY <3>1, <3>3, <4>4 DEF SetThreadArea
      <4>5. QED
        BY <4>0, <4>1, <4>2, <4>3, <4>4
  <2>7. CASE call \notin {"exit", "exit_group", "write", "writev", "brk", "uname", "set_thread_area"}
    <3>1. Returns(p, -ENOSYS)
      BY <1>1, <2>7 DEF SyscallRun
    <3>2. QED
      BY <1>2, <3>1, ReturnsServe
  <2>8. QED
    BY <2>1, <2>2, <2>3, <2>4, <2>5, <2>6, <2>7
<1>5. QED
  BY <1>2, <1>4 DEF Interrupt

-----------------------------------------------------------------------------
(* What is printed, one kernel call after another.                          *)

\* What is left of a list when n characters of its first item are printed.
Left(out, n) ==
  IF n = Len(Head(out).chars) THEN Tail(out) ELSE <<[Head(out) EXCEPT !.at = n]>> \o Tail(out)

\* The last item of a list of several stays the last.
KeepsLast(out, left) == Len(out) > 1 => left # <<>> /\ left[Len(left)] = out[Len(out)]

\* Every item but the first is one of the list before.
KeepsRest(out, left) ==
  \A i \in DOMAIN left : (\E j \in DOMAIN out : left[i] = out[j])
                         \/ left[i].kind = Head(out).kind

FromRest(out, left) == \A i \in DOMAIN left : \E j \in DOMAIN out : left[i] = out[j]

LEMMA TailIs ==
  ASSUME NEW S, NEW out \in Seq(S), out # <<>>
  PROVE  /\ Head(out) \in S /\ Tail(out) \in Seq(S) /\ Len(Tail(out)) = Len(out) - 1
         /\ Len(out) \in Nat /\ Len(out) > 0 /\ Head(out) = out[1]
         /\ \A i \in 1 .. Len(Tail(out)) : Tail(out)[i] = out[i + 1]
<1>1. Len(out) \in Nat /\ Len(out) > 0
  BY EmptySeq
<1>2. Head(out) \in S /\ Tail(out) \in Seq(S) /\ Len(Tail(out)) = Len(out) - 1 /\ Head(out) = out[1]
  BY <1>1, HeadTailProperties
<1>3. \A i \in 1 .. Len(Tail(out)) : Tail(out)[i] = out[i + 1]
  BY <1>1, <1>2, HeadTailProperties
<1>4. QED
  BY <1>1, <1>2, <1>3

\* The first item is printed to its end.
LEMMA LeftEnds ==
  ASSUME NEW out \in Seq(Items), out # <<>>, NEW n, n = Len(Head(out).chars)
  PROVE  /\ Left(out, n) \in Seq(Items)
         /\ KeepsLast(out, Left(out, n)) /\ FromRest(out, Left(out, n))
         /\ Len(out) = 1 => Left(out, n) = <<>>
<1> DEFINE left == Tail(out)
<1>1. Left(out, n) = left
  BY DEF Left
<1>2. /\ left \in Seq(Items) /\ Len(left) = Len(out) - 1 /\ Len(out) \in Nat
      /\ \A i \in 1 .. Len(left) : left[i] = out[i + 1]
  BY TailIs
<1> HIDE DEF left
<1>3. KeepsLast(out, left)
  <2>1. ASSUME Len(out) > 1 PROVE left # <<>> /\ left[Len(left)] = out[Len(out)]
    <3>1. Len(left) \in 1 .. Len(left) /\ Len(left) + 1 = Len(out)
      BY <1>2, <2>1
    <3>2. QED
      BY <1>2, <3>1
  <2>2. QED
    BY <2>1 DEF KeepsLast
<1>4. FromRest(out, left)
  <2>1. ASSUME NEW i \in DOMAIN left PROVE \E j \in DOMAIN out : left[i] = out[j]
    <3>1. i \in 1 .. Len(left) /\ i + 1 \in DOMAIN out
      BY <1>2
    <3>2. QED
      BY <1>2, <3>1
  <2>2. QED
    BY <2>1 DEF FromRest
<1>5. Len(out) = 1 => left = <<>>
  BY <1>2
<1>6. QED
  BY <1>1, <1>2, <1>3, <1>4, <1>5

\* It is printed in part.
LEMMA LeftGoesOn ==
  ASSUME NEW out \in Seq(Items), out # <<>>, NEW n \in Nat, n < Len(Head(out).chars)
  PROVE  /\ Left(out, n) \in Seq(Items) /\ Left(out, n) # <<>>
         /\ KeepsLast(out, Left(out, n)) /\ KeepsRest(out, Left(out, n))
<1> DEFINE i1 == [Head(out) EXCEPT !.at = n]
           a == <<i1>>
           t == Tail(out)
           left == a \o t
<1>0. Head(out) \in Items
  BY TailIs
<1>1. Left(out, n) = left
  <2>1. Len(Head(out).chars) \in Nat
    BY <1>0, ItemIs
  <2>2. n # Len(Head(out).chars)
    BY <2>1
  <2>3. QED
    BY <2>2 DEF Left
<1>2. /\ t \in Seq(Items) /\ Len(t) = Len(out) - 1 /\ Len(out) \in Nat /\ Len(out) > 0
      /\ \A i \in 1 .. Len(t) : t[i] = out[i + 1]
  BY TailIs
<1>3. i1 \in Items /\ i1.kind = Head(out).kind
  <2>1. i1.kind = Head(out).kind
    BY <1>0, ItemIs
  <2>2. QED
    BY <1>0, <2>1, ItemLater
<1> HIDE DEF i1
<1>4. a \in Seq(Items) /\ Len(a) = 1 /\ a[1] = i1
  BY <1>3
<1>4a. left = a \o t
  OBVIOUS
<1> HIDE DEF a, t, left
<1>5. left \in Seq(Items) /\ IsJoin(left, a, t)
  BY <1>2, <1>4, <1>4a, Joined
<1>6. /\ Len(left) = Len(out) /\ left[1] = i1
      /\ \A i \in 2 .. Len(out) : left[i] = out[i]
  <2>1. /\ Len(left) = 1 + Len(t)
        /\ \A j \in 1 .. 1 + Len(t) : left[j] = IF j <= 1 THEN a[j] ELSE t[j - 1]
    BY <1>4, <1>5 DEF IsJoin
  <2>2. Len(left) = Len(out)
    BY <1>2, <2>1
  <2>3. left[1] = i1
    BY <1>2, <1>4, <2>1
  <2>4. ASSUME NEW i \in 2 .. Len(out) PROVE left[i] = out[i]
    <3>1. i \in 1 .. 1 + Len(t) /\ ~(i <= 1) /\ i - 1 \in 1 .. Len(t) /\ i - 1 + 1 = i
      BY <1>2
    <3>2. left[i] = t[i - 1]
      BY <2>1, <3>1
    <3>3. t[i - 1] = out[i - 1 + 1]
      BY <1>2, <3>1
    <3>4. QED
      BY <3>1, <3>2, <3>3
  <2>5. QED
    BY <2>2, <2>3, <2>4
<1>7. KeepsLast(out, left)
  <2>1. ASSUME Len(out) > 1 PROVE left # <<>> /\ left[Len(left)] = out[Len(out)]
    <3>1. Len(out) \in 2 .. Len(out)
      BY <1>2, <2>1
    <3>2. left # <<>>
      BY <1>2, <1>6, <2>1
    <3>3. QED
      BY <1>6, <3>1, <3>2
  <2>2. QED
    BY <2>1 DEF KeepsLast
<1>8. KeepsRest(out, left)
  <2>1. ASSUME NEW i \in DOMAIN left
        PROVE  (\E j \in DOMAIN out : left[i] = out[j]) \/ left[i].kind = Head(out).kind
    <3>1. i = 1 \/ i \in 2 .. Len(out)
      BY <1>2, <1>5, <1>6
    <3>2. CASE i = 1
      BY <1>3, <1>6, <3>2
    <3>3. CASE i \in 2 .. Len(out)
      <4>1. i \in DOMAIN out
        BY <3>3
      <4>2. QED
        BY <1>6, <3>3, <4>1
    <3>4. QED
      BY <3>1, <3>2, <3>3
  <2>2. QED
    BY <2>1 DEF KeepsRest
<1>9. left # <<>>
  BY <1>2, <1>6
<1>10. QED
  BY <1>1, <1>5, <1>7, <1>8, <1>9

-----------------------------------------------------------------------------
(* The escape sequences programs write.                                     *)

\* In an escape sequence of numbers, or about to be in one.
Escaped(s, type, params) ==
  ScreenOK(s) /\ s.con.escape.on /\ s.con.escape.type = type /\ s.con.escape.params = params

InNumbers(s) == \E params : Escaped(s, "[", params)

LEMMA EscBegins ==
  ASSUME NEW s, ScreenOK(s), ~s.con.escape.on
  PROVE  Escaped(PutChar(s, "esc"), "none", <<0>>)
<1> DEFINE e == [NoEscape EXCEPT !.on = TRUE]
           d == [s.con EXCEPT !.escape = e]
           n == PutChar(s, "esc")
<1>1. n = [con |-> d, screen |-> s.screen]
  BY DEF PutChar, ScreenOK, ConOK
<1>2. e.on /\ e.type = "none" /\ e.params = <<0>>
  <2>1. NoEscape = [on |-> NoEscape.on, type |-> NoEscape.type, params |-> NoEscape.params]
    BY NoEscapeOK DEF EscapeOK
  <2>2. NoEscape.type = "none" /\ NoEscape.params = <<0>>
    BY DEF NoEscape
  <2>3. \A v : [NoEscape EXCEPT !.on = v].on = v /\ [NoEscape EXCEPT !.on = v].type = NoEscape.type
               /\ [NoEscape EXCEPT !.on = v].params = NoEscape.params
    BY <2>1, OnIs
  <2>4. e.on = TRUE /\ e.type = NoEscape.type /\ e.params = NoEscape.params
    BY <2>3, Zenon
  <2>5. QED
    BY <2>2, <2>4
<1> HIDE DEF e
<1>3. d.escape = e
  BY DEF ScreenOK, ConOK
<1>4. ScreenOK(n)
  BY PutCharKeeps
<1> HIDE DEF d, n
<1>5. n.con = d
  BY <1>1
<1>6. Escaped(n, "none", <<0>>)
  BY <1>2, <1>3, <1>4, <1>5 DEF Escaped
<1>7. QED
  BY <1>6 DEF n

LEMMA PutEscapedIs ==
  ASSUME NEW s, ScreenOK(s), s.con.escape.on, NEW ch
  PROVE  PutChar(s, ch).con = PutEscaped(s.con, ch)
<1>1. PutChar(s, ch) = [s EXCEPT !.con = PutEscaped(@, ch)]
  BY DEF PutChar, ScreenOK, ConOK, EscapeOK
<1>2. QED
  BY <1>1 DEF ScreenOK

LEMMA BracketOpens ==
  ASSUME NEW s, NEW params, Escaped(s, "none", params)
  PROVE  Escaped(PutChar(s, "["), "[", params)
<1>1. PutChar(s, "[").con = PutEscaped(s.con, "[") /\ ScreenOK(PutChar(s, "["))
  BY PutEscapedIs, PutCharKeeps DEF Escaped
<1>2. PutEscaped(s.con, "[") = [s.con EXCEPT !.escape.type = "["]
  BY DEF PutEscaped, Escaped, ScreenOK, ConOK, EscapeOK
<1>3. [s.con EXCEPT !.escape.type = "["].escape = [s.con.escape EXCEPT !.type = "["]
  BY DEF Escaped, ScreenOK, ConOK
<1>4. /\ [s.con.escape EXCEPT !.type = "["].type = "["
      /\ [s.con.escape EXCEPT !.type = "["].params = s.con.escape.params
      /\ [s.con.escape EXCEPT !.type = "["].on = s.con.escape.on
  BY DEF Escaped, ScreenOK, ConOK, EscapeOK
<1> DEFINE n == PutChar(s, "[")
           e == [s.con.escape EXCEPT !.type = "["]
<1>5. n.con.escape = e
  BY <1>1, <1>2, <1>3
<1>6. e.type = "[" /\ e.params = params /\ e.on
  BY <1>4 DEF Escaped
<1>7. ScreenOK(n)
  BY <1>1
<1> HIDE DEF e, n
<1>8. Escaped(n, "[", params)
  BY <1>5, <1>6, <1>7 DEF Escaped
<1>9. QED
  BY <1>8 DEF n

LEMMA ParamsKeepOn ==
  ASSUME NEW s, NEW params, Escaped(s, "[", params), NEW v
  PROVE  /\ [s.con EXCEPT !.escape.params = v].escape.on = s.con.escape.on
         /\ [s.con EXCEPT !.escape.params = v].escape.type = "["
         /\ [s.con EXCEPT !.escape.params = v].escape.params = v
<1>1. [s.con EXCEPT !.escape.params = v].escape = [s.con.escape EXCEPT !.params = v]
  BY DEF Escaped, ScreenOK, ConOK
<1>2. /\ [s.con.escape EXCEPT !.params = v].type = "["
      /\ [s.con.escape EXCEPT !.params = v].params = v
      /\ [s.con.escape EXCEPT !.params = v].on = s.con.escape.on
  BY DEF Escaped, ScreenOK, ConOK, EscapeOK
<1>3. QED
  BY <1>1, <1>2

LEMMA Zero == 1 - 1 = 0 /\ 0 * 10 + 0 = 0 /\ 0 % 256 = 0 /\ (IF 0 < 10 THEN 10 ELSE 100) = 10
OBVIOUS

LEMMA ZeroSeq ==
  /\ <<0>> \in Seq(Int) /\ Len(<<0>>) = 1 /\ <<0>>[1] = 0
  /\ SubSeq(<<0>>, 1, 0) = <<>> /\ <<>> \o <<0>> = <<0>>
<1>1. <<0>> \in Seq(Int) /\ Len(<<0>>) = 1 /\ <<0>>[1] = 0
  OBVIOUS
<1>2. SubSeq(<<0>>, 1, 0) = <<>>
  <2>1. 1 \in Int /\ 0 \in Int /\ 1 > 0
    OBVIOUS
  <2>2. QED
    BY <1>1, <2>1, SubSeqEmpty
<1>3. <<>> \o <<0>> = <<0>>
  BY <1>1, ConcatEmptySeq
<1>4. QED
  BY <1>1, <1>2, <1>3

\* A zero that is written is the zero the first number begins with.
LEMMA ZeroStays == WithDigits(<<0>>, 0) = <<0>>
<1>1. Len(<<0>>) - 1 = 0
  BY Zero, ZeroSeq
<1>2. Front(<<0>>) = <<>>
  BY <1>1, ZeroSeq DEF Front
<1>3. Last(<<0>>) = 0
  BY ZeroSeq DEF Last
<1>4. WithDigits(<<0>>, 0) = Front(<<0>>) \o <<(Last(<<0>>) * (IF 0 < 10 THEN 10 ELSE 100) + 0) % 256>>
  BY DEF WithDigits
<1>5. (Last(<<0>>) * (IF 0 < 10 THEN 10 ELSE 100) + 0) % 256 = 0
  BY <1>3, Zero
<1>6. QED
  BY <1>2, <1>4, <1>5, ZeroSeq

LEMMA NumbersGoOn ==
  ASSUME NEW s, NEW params, Escaped(s, "[", params), NEW ch, ch = ";" \/ ch \in DOMAIN Number
  PROVE  /\ InNumbers(PutChar(s, ch))
         /\ params = <<0>> /\ ch = "n0" => Escaped(PutChar(s, ch), "[", <<0>>)
<1> DEFINE n == PutChar(s, ch)
<1>1. n.con = PutEscaped(s.con, ch) /\ ScreenOK(n)
  BY PutEscapedIs, PutCharKeeps DEF Escaped
<1>2. PICK v : /\ PutEscaped(s.con, ch) = [s.con EXCEPT !.escape.params = v]
               /\ ch # ";" => v = WithDigits(params, Number[ch])
  <2>1. CASE ch = ";"
    <3>1. PutEscaped(s.con, ch) = [s.con EXCEPT !.escape.params = NextParam(params)]
      BY <2>1, NumberIs DEF PutEscaped, Escaped, ScreenOK, ConOK, EscapeOK
    <3>2. QED
      BY <2>1, <3>1
  <2>2. CASE ch # ";" /\ ch \in DOMAIN Number
    <3>1. PutEscaped(s.con, ch) = [s.con EXCEPT !.escape.params = WithDigits(params, Number[ch])]
      BY <2>2 DEF PutEscaped, Escaped, ScreenOK, ConOK, EscapeOK
    <3>2. QED
      BY <3>1
  <2>3. QED
    BY <2>1, <2>2
<1> DEFINE d == [s.con EXCEPT !.escape.params = v]
<1>2a. n.con = d /\ ScreenOK(n)
  BY <1>1, <1>2
<1>2b. d.escape.on = s.con.escape.on /\ d.escape.type = "[" /\ d.escape.params = v
  BY ParamsKeepOn
<1>2c. s.con.escape.on
  BY DEF Escaped
<1>2d. ch # ";" => v = WithDigits(params, Number[ch])
  BY <1>2
<1> HIDE DEF d, n
<1>3. Escaped(n, "[", v)
  BY <1>2a, <1>2b, <1>2c DEF Escaped
<1>4. params = <<0>> /\ ch = "n0" => v = <<0>>
  <2>1. Number["n0"] = 0
    BY DEF Number
  <2>2. QED
    BY <1>2d, <2>1, ZeroStays
<1>5. InNumbers(n) /\ (params = <<0>> /\ ch = "n0" => Escaped(n, "[", <<0>>))
  BY <1>3, <1>4 DEF InNumbers
<1>6. QED
  BY <1>5 DEF n

\* One number, 0: the sequence that puts the color back.
Reset(c) == c.escape.params = <<0>>

LEMMA ResetIs ==
  ASSUME NEW c, ConOK(c), Reset(c)
  PROVE  ParseEscape(c).color = DefaultColor
<1> DEFINE init == [color |-> c.color, light |-> 0, blink |-> 0]
           f == CHOOSE a : a = [i \in 0 .. Len(c.escape.params) |->
                                  IF i = 0 THEN init ELSE Attribute(a[i - 1], c.escape.params[i])]
           g == [i \in 0 .. 1 |-> IF i = 0 THEN init ELSE Attribute(init, 0)]
<1>1. ParseEscape(c) = [c EXCEPT !.color = f[Len(c.escape.params)].color]
  BY DEF ParseEscape
<1> HIDE DEF init
<1>2. Len(c.escape.params) = 1 /\ c.escape.params[1] = 0
  BY DEF Reset
<1>3. g = [i \in 0 .. Len(c.escape.params) |->
             IF i = 0 THEN init ELSE Attribute(g[i - 1], c.escape.params[i])]
  <2>1. \A i \in 0 .. 1 : i = 0 \/ i = 1
    OBVIOUS
  <2>2. g[0] = init
    OBVIOUS
  <2>3. \A i \in 0 .. 1 : (IF i = 0 THEN init ELSE Attribute(g[i - 1], c.escape.params[i]))
                          = (IF i = 0 THEN init ELSE Attribute(init, 0))
    <3> SUFFICES ASSUME NEW i \in 0 .. 1
                 PROVE  (IF i = 0 THEN init ELSE Attribute(g[i - 1], c.escape.params[i]))
                          = (IF i = 0 THEN init ELSE Attribute(init, 0))
      OBVIOUS
    <3>1. CASE i = 0
      BY <3>1
    <3>2. CASE i = 1
      BY <1>2, <2>2, <3>2
    <3>3. QED
      BY <2>1, <3>1, <3>2
  <2>4. QED
    BY <1>2, <2>3
<1>4. f = [i \in 0 .. Len(c.escape.params) |->
             IF i = 0 THEN init ELSE Attribute(f[i - 1], c.escape.params[i])]
  <2> HIDE DEF g
  <2>1. QED
    BY <1>3
<1> HIDE DEF f, g
<1>5. f[1] = Attribute(f[0], 0)
  BY <1>2, <1>4
<1>6. Attribute(f[0], 0).color = DefaultColor
  BY DEF Attribute
<1>7. QED
  BY <1>1, <1>2, <1>5, <1>6 DEF ConOK

LEMMA LetterEnds ==
  ASSUME NEW s, NEW params, Escaped(s, "[", params)
  PROVE  /\ ScreenOK(PutChar(s, "m")) /\ ~PutChar(s, "m").con.escape.on
         /\ params = <<0>> => PutChar(s, "m").con.color = DefaultColor
<1> DEFINE p == ParseEscape(s.con)
<1>1. PutChar(s, "m").con = PutEscaped(s.con, "m") /\ ScreenOK(PutChar(s, "m"))
  BY PutEscapedIs, PutCharKeeps DEF Escaped
<1>2. PutEscaped(s.con, "m") = [p EXCEPT !.escape.on = FALSE]
  BY NumberIs DEF PutEscaped, Escaped, ScreenOK, ConOK, EscapeOK
<1>3. ConOK(p) /\ p.escape = s.con.escape
  BY ParseEscapeKeeps DEF Escaped, ScreenOK
<1>4. params = <<0>> => p.color = DefaultColor
  BY ResetIs DEF Reset, Escaped, ScreenOK
<1> HIDE DEF p
<1>5. [p EXCEPT !.escape.on = FALSE] = [p EXCEPT !.escape = [p.escape EXCEPT !.on = FALSE]]
  BY <1>3 DEF ConOK
<1>6. [p.escape EXCEPT !.on = FALSE].on = FALSE
  <2>1. p.escape = [on |-> p.escape.on, type |-> p.escape.type, params |-> p.escape.params]
    BY <1>3 DEF ConOK, EscapeOK
  <2>2. \A v : [p.escape EXCEPT !.on = v].on = v
    BY <2>1, OnIs
  <2>3. QED
    BY <2>2, Zenon
<1> DEFINE e == [p.escape EXCEPT !.on = FALSE]
<1>7. ~e.on
  BY <1>6
<1>8. PutChar(s, "m").con = [p EXCEPT !.escape = e]
  BY <1>1, <1>2, <1>5
<1> HIDE DEF e
<1>9. [p EXCEPT !.escape = e].escape = e /\ [p EXCEPT !.escape = e].color = p.color
  BY <1>3 DEF ConOK
<1>10. QED
  BY <1>1, <1>4, <1>7, <1>8, <1>9

\* f has what is left after each character.
Runs(f, s, chars, n) ==
  /\ PutAll(s, chars) = f[n]
  /\ f[0] = s
  /\ \A i \in 1 .. n : f[i] = PutChar(f[i - 1], chars[i])

LEMMA RunsIs ==
  ASSUME NEW s, NEW chars, NEW n \in Nat, Len(chars) = n
  PROVE  \E f : Runs(f, s, chars, n)
<1>1. Len(chars) \in Nat
  OBVIOUS
<1>2. QED
  BY <1>1, PutAllIs DEF Runs

LEMMA StringsDiffer == Light.chars # Normal.chars
<1>1. Len(Light.chars) = 6 /\ Len(Normal.chars) = 4
  BY StringLengths
<1>2. QED
  BY <1>1

\* The strings programs set colors with are whole escape sequences, and the
\* second puts back the color there was.
LEMMA StringsEnd ==
  ASSUME NEW s, ScreenOK(s), ~s.con.escape.on, NEW chars \in Strings
  PROVE  /\ ~PutAll(s, chars).con.escape.on
         /\ chars = Normal.chars => PutAll(s, chars).con.color = DefaultColor
<1>1. chars = Light.chars \/ chars = Normal.chars
  BY DEF Strings
<1>2. CASE chars = Light.chars
  <2>1. chars = <<"esc", "[", "n1", ";", "n37", "m">> /\ Len(chars) = 6
    BY <1>2 DEF Light, String
  <2>1a. /\ chars[1] = "esc" /\ chars[2] = "[" /\ chars[3] = "n1" /\ chars[4] = ";"
         /\ chars[5] = "n37" /\ chars[6] = "m"
    BY <2>1
  <2>1b. \E g : Runs(g, s, chars, 6)
    <3>1. 6 \in Nat /\ Len(chars) = 6
      BY <2>1
    <3>2. QED
      BY <3>1, RunsIs
  <2>2. PICK f : Runs(f, s, chars, 6)
    BY <2>1b
  <2>2a. \A i \in 1 .. 6 : f[i] = PutChar(f[i - 1], chars[i])
    BY <2>2 DEF Runs
  <2>3. /\ f[1] = PutChar(f[0], "esc") /\ f[2] = PutChar(f[1], "[") /\ f[3] = PutChar(f[2], "n1")
        /\ f[4] = PutChar(f[3], ";") /\ f[5] = PutChar(f[4], "n37") /\ f[6] = PutChar(f[5], "m")
    <3>1. 1 - 1 = 0 /\ 2 - 1 = 1 /\ 3 - 1 = 2 /\ 4 - 1 = 3 /\ 5 - 1 = 4 /\ 6 - 1 = 5
      OBVIOUS
    <3>2. /\ f[1] = PutChar(f[1 - 1], chars[1]) /\ f[2] = PutChar(f[2 - 1], chars[2])
          /\ f[3] = PutChar(f[3 - 1], chars[3]) /\ f[4] = PutChar(f[4 - 1], chars[4])
          /\ f[5] = PutChar(f[5 - 1], chars[5]) /\ f[6] = PutChar(f[6 - 1], chars[6])
      BY <2>2a
    <3>3. QED
      BY <2>1a, <3>1, <3>2
  <2>3a. f[0] = s /\ PutAll(s, chars) = f[6]
    BY <2>2 DEF Runs
  <2>4. Escaped(f[1], "none", <<0>>)
    BY <2>3, <2>3a, EscBegins
  <2>5. Escaped(f[2], "[", <<0>>)
    BY <2>3, <2>4, BracketOpens
  <2>6. InNumbers(f[3])
    BY <2>3, <2>5, NumbersGoOn, NumberIs
  <2>7. InNumbers(f[4])
    BY <2>3, <2>6, NumbersGoOn DEF InNumbers
  <2>8. InNumbers(f[5])
    BY <2>3, <2>7, NumbersGoOn, NumberIs DEF InNumbers
  <2>9. ~f[6].con.escape.on
    BY <2>3, <2>8, LetterEnds DEF InNumbers
  <2>10. chars # Normal.chars
    BY <1>2, StringsDiffer
  <2>11. QED
    BY <2>3a, <2>9, <2>10
<1>3. CASE chars = Normal.chars
  <2>1. chars = <<"esc", "[", "n0", "m">> /\ Len(chars) = 4
    BY <1>3 DEF Normal, String
  <2>1a. chars[1] = "esc" /\ chars[2] = "[" /\ chars[3] = "n0" /\ chars[4] = "m"
    BY <2>1
  <2>1b. \E g : Runs(g, s, chars, 4)
    <3>1. 4 \in Nat /\ Len(chars) = 4
      BY <2>1
    <3>2. QED
      BY <3>1, RunsIs
  <2>2. PICK f : Runs(f, s, chars, 4)
    BY <2>1b
  <2>2a. \A i \in 1 .. 4 : f[i] = PutChar(f[i - 1], chars[i])
    BY <2>2 DEF Runs
  <2>3. /\ f[1] = PutChar(f[0], "esc") /\ f[2] = PutChar(f[1], "[")
        /\ f[3] = PutChar(f[2], "n0") /\ f[4] = PutChar(f[3], "m")
    <3>1. 1 - 1 = 0 /\ 2 - 1 = 1 /\ 3 - 1 = 2 /\ 4 - 1 = 3
      OBVIOUS
    <3>2. /\ f[1] = PutChar(f[1 - 1], chars[1]) /\ f[2] = PutChar(f[2 - 1], chars[2])
          /\ f[3] = PutChar(f[3 - 1], chars[3]) /\ f[4] = PutChar(f[4 - 1], chars[4])
      BY <2>2a
    <3>3. QED
      BY <2>1a, <3>1, <3>2
  <2>3a. f[0] = s /\ PutAll(s, chars) = f[4]
    BY <2>2 DEF Runs
  <2>4. Escaped(f[1], "none", <<0>>)
    BY <2>3, <2>3a, EscBegins
  <2>5. Escaped(f[2], "[", <<0>>)
    BY <2>3, <2>4, BracketOpens
  <2>6. Escaped(f[3], "[", <<0>>)
    BY <2>3, <2>5, NumbersGoOn, NumberIs
  <2>7. ~f[4].con.escape.on /\ f[4].con.color = DefaultColor
    BY <2>3, <2>6, LetterEnds
  <2>8. QED
    BY <2>3a, <2>7
<1>4. QED
  BY <1>1, <1>2, <1>3


-----------------------------------------------------------------------------
(* The calls programs print with.                                           *)

\* What a program has printed is gone from its list, and from no other.
LEMMA PrintedKeeps ==
  ASSUME ProgInv, NEW p \in Programs, prog[p].out # <<>>,
         NEW n \in Nat, n <= Len(Head(prog[p].out).chars),
         Becoming(p, [prog[p] EXCEPT !.out = Printed(p, n)]), cut' = cut
  PROVE  /\ ProgInv'
         /\ \A q \in Programs : prog'[q].out = IF q = p THEN Left(prog[p].out, n) ELSE prog[q].out
<1> DEFINE left == Left(prog[p].out, n)
           r == [prog[p] EXCEPT !.out = left]
<1>1. prog' = [prog EXCEPT ![p] = r]
  BY DEF Becoming, Printed, Left
<1>2. ProgOK(prog[p]) /\ prog[p].out \in Seq(Items)
  BY DEF ProgInv, ProgOK
<1>3. left \in Seq(Items)
  <2>1. CASE n = Len(Head(prog[p].out).chars)
    BY <1>2, <2>1, LeftEnds
  <2>2. CASE n # Len(Head(prog[p].out).chars)
    <3>1. Head(prog[p].out) \in Items
      BY <1>2, TailIs
    <3>2. Len(Head(prog[p].out).chars) \in Nat
      BY <3>1, ItemIs
    <3>3. n < Len(Head(prog[p].out).chars)
      BY <2>2, <3>2
    <3>4. QED
      BY <1>2, <3>3, LeftGoesOn
  <2>3. QED
    BY <2>1, <2>2
<1> HIDE DEF left
<1>4. ProgOK(r) /\ r.out = left
  BY <1>2, <1>3, OutKeeps
<1> HIDE DEF r
<1>5. ProgInv' /\ \A q \in Programs : prog'[q] = IF q = p THEN r ELSE prog[q]
  BY <1>1, <1>4, BecomingKeeps
<1>6. QED
  BY <1>4, <1>5 DEF left

\* How far a string is printed.
End(p) ==
  LET first == Head(prog[p].out) IN
  IF first.at < cut[p] /\ cut[p] < Len(first.chars) THEN cut[p] ELSE Len(first.chars)

Written(p) == SubSeq(Head(prog[p].out).chars, Head(prog[p].out).at + 1, End(p))

LEMMA StringIs ==
  ASSUME ProgInv, NEW p \in Programs, prog[p].out # <<>>, DebugString(p)
  PROVE  /\ End(p) \in Nat /\ End(p) <= Len(Head(prog[p].out).chars)
         /\ Head(prog[p].out).kind = "string" /\ Head(prog[p].out) \in Items
         /\ Len(Head(prog[p].out).chars) \in Nat
         /\ Len(Written(p)) \in Nat
         /\ Becomes(syscon, PutAll(Screen(syscon), Written(p)))
         /\ \E n \in {End(p), Len(Head(prog[p].out).chars)} :
              Becoming(p, [prog[p] EXCEPT !.out = Printed(p, n)])
<1> DEFINE first == Head(prog[p].out)
<1>1. prog[p].out \in Seq(Items)
  BY DEF ProgInv, ProgOK
<1>2. first \in Items
  BY <1>1, TailIs
<1>3. /\ first.kind = "string"
      /\ Becomes(syscon, PutAll(Screen(syscon), Written(p)))
      /\ \E n \in {End(p), Len(first.chars)} : Becoming(p, [prog[p] EXCEPT !.out = Printed(p, n)])
  BY DEF DebugString, Written, End
<1>4. cut[p] \in Nat
  BY LinuxAssumption DEF ProgInv
<1> HIDE DEF first
<1>5. /\ first.at \in Nat /\ Len(first.chars) \in Nat /\ first.at < Len(first.chars)
      /\ first.chars \in Seq(Letters)
  BY <1>2, <1>3, ItemIs
<1>6. End(p) = IF first.at < cut[p] /\ cut[p] < Len(first.chars) THEN cut[p] ELSE Len(first.chars)
  BY DEF End, first
<1>7. End(p) \in Nat /\ End(p) <= Len(first.chars)
  BY <1>4, <1>5, <1>6
<1>8. Len(Written(p)) \in Nat
  <2> DEFINE a == first.at + 1
             b == End(p)
             chars == first.chars
  <2>1. a \in Int /\ b \in Int
    BY <1>5, <1>7
  <2>2. \A i \in a .. b : i \in 1 .. Len(chars)
    BY <1>5, <1>7
  <2>3. chars \in Seq(Letters)
    BY <1>5
  <2>4. Written(p) = SubSeq(chars, a, b)
    BY DEF Written, first
  <2> HIDE DEF a, b, chars
  <2>5. \A i \in a .. b : chars[i] \in Letters
    BY <2>2, <2>3
  <2>6. SubSeq(chars, a, b) \in Seq(Letters)
    BY <2>1, <2>5, SubSeqProperties
  <2>7. QED
    BY <2>4, <2>6
<1>9. QED
  BY <1>2, <1>3, <1>5, <1>7, <1>8 DEF first

LEMMA DebugStringKeeps ==
  ASSUME ConsoleInv, ProgInv, NEW p \in Programs, prog[p].out # <<>>, DebugString(p), cut' = cut
  PROVE  ConsoleInv' /\ ProgInv'
<1>1. syscon \in Consoles
  BY DEF ConsoleInv, OwnersInv
<1>2. /\ End(p) \in Nat /\ End(p) <= Len(Head(prog[p].out).chars)
      /\ Len(Head(prog[p].out).chars) \in Nat
      /\ Len(Written(p)) \in Nat
      /\ Becomes(syscon, PutAll(Screen(syscon), Written(p)))
      /\ \E n \in {End(p), Len(Head(prog[p].out).chars)} :
           Becoming(p, [prog[p] EXCEPT !.out = Printed(p, n)])
  BY StringIs
<1> DEFINE s == PutAll(Screen(syscon), Written(p))
<1>3. ScreenOK(s) /\ SameOwner(con[syscon], s.con)
  BY <1>1, <1>2, ScreenOf, PutAllKeeps
<1>4. Becomes(syscon, s)
  BY <1>2
<1> HIDE DEF s
<1>5. ConsoleInv'
  BY <1>1, <1>3, <1>4, BecomesKeeps
<1>6. PICK n \in {End(p), Len(Head(prog[p].out).chars)} :
        Becoming(p, [prog[p] EXCEPT !.out = Printed(p, n)])
  BY <1>2
<1>7. n \in Nat /\ n <= Len(Head(prog[p].out).chars)
  BY <1>2
<1>8. ProgInv'
  BY <1>6, <1>7, PrintedKeeps
<1>9. QED
  BY <1>5, <1>8

\* A character of a buffer.
LEMMA BufferIs ==
  ASSUME ConsoleInv, ProgInv, NEW p \in Programs, prog[p].out # <<>>, DebugBuf(p)
  PROVE  LET first == Head(prog[p].out)
             ch    == first.chars[first.at + 1]
         IN  /\ first.kind = "buffer" /\ first \in Items /\ ch \in Glyphs
             /\ first.at + 1 \in Nat /\ first.at + 1 <= Len(first.chars)
             /\ Becoming(p, [prog[p] EXCEPT !.out = Printed(p, first.at + 1)])
             /\ \/ UNCHANGED consoleVars
                \/ Becomes(syscon, PutChar(Screen(syscon), ch))
<1> DEFINE first == Head(prog[p].out)
           ch    == first.chars[first.at + 1]
<1>1. prog[p].out \in Seq(Items)
  BY DEF ProgInv, ProgOK
<1>2. first \in Items
  BY <1>1, TailIs
<1>3. /\ first.kind = "buffer"
      /\ Becoming(p, [prog[p] EXCEPT !.out = Printed(p, first.at + 1)])
      /\ UNCHANGED consoleVars \/ Becomes(syscon, PutChar(Screen(syscon), ch))
  BY DEF DebugBuf
<1> HIDE DEF first
<1>4. /\ first.at \in Nat /\ Len(first.chars) \in Nat /\ first.at < Len(first.chars)
      /\ first.chars \in Texts
  BY <1>2, <1>3, ItemIs
<1>5. first.at + 1 \in Nat /\ first.at + 1 <= Len(first.chars) /\ first.at + 1 \in 1 .. Len(first.chars)
  BY <1>4
<1>6. ch \in Glyphs
  <2> DEFINE k == first.at + 1
             chars == first.chars
  <2>1. chars \in Seq(Glyphs)
    BY <1>4, TextIs
  <2>2. k \in 1 .. Len(chars)
    BY <1>5
  <2> HIDE DEF k, chars
  <2>3. chars[k] \in Glyphs
    BY <2>1, <2>2
  <2>4. QED
    BY <2>3 DEF k, chars
<1>7. QED
  BY <1>2, <1>3, <1>5, <1>6 DEF first

LEMMA DebugBufKeeps ==
  ASSUME ConsoleInv, ProgInv, NEW p \in Programs, prog[p].out # <<>>, DebugBuf(p), cut' = cut
  PROVE  ConsoleInv' /\ ProgInv'
<1> DEFINE first == Head(prog[p].out)
           ch    == first.chars[first.at + 1]
           n     == first.at + 1
           s     == PutChar(Screen(syscon), ch)
<1>1. syscon \in Consoles
  BY DEF ConsoleInv, OwnersInv
<1>2. /\ n \in Nat /\ n <= Len(first.chars)
      /\ Becoming(p, [prog[p] EXCEPT !.out = Printed(p, n)])
      /\ UNCHANGED consoleVars \/ Becomes(syscon, s)
  BY BufferIs
<1>3. ScreenOK(s) /\ SameOwner(con[syscon], s.con)
  BY <1>1, ScreenOf, PutCharKeeps
<1> HIDE DEF s, n
<1>4. ConsoleInv'
  <2>1. CASE UNCHANGED consoleVars
    BY <2>1, ConsoleSame DEF consoleVars
  <2>2. CASE Becomes(syscon, s)
    BY <1>1, <1>3, <2>2, BecomesKeeps
  <2>3. QED
    BY <1>2, <2>1, <2>2
<1>5. ProgInv'
  BY <1>2, PrintedKeeps
<1>6. QED
  BY <1>4, <1>5

-----------------------------------------------------------------------------
(* Every step of a program.                                                 *)

\* The start of a program leaves what it prints alone.
Starts(p) ==
  \E r : ProgOK(r) /\ prog' = [prog EXCEPT ![p] = r] /\ r.out = prog[p].out

LEMMA PcOK ==
  ASSUME NEW r, ProgOK(r)
  PROVE  ProgOK([r EXCEPT !.pc = "starts"]) /\ [r EXCEPT !.pc = "starts"].out = r.out
BY DEF ProgOK

LEMMA WaitStarts ==
  ASSUME ProgInv, NEW p \in Programs, WaitForService(p)
  PROVE  Starts(p)
<1> DEFINE r == [prog[p] EXCEPT !.pc = "starts"]
<1>1. prog' = [prog EXCEPT ![p] = r]
  BY DEF WaitForService, Becoming
<1>2. ProgOK(prog[p])
  BY DEF ProgInv
<1>3. ProgOK(r) /\ r.out = prog[p].out
  BY <1>2, PcOK
<1> HIDE DEF r
<1>4. QED
  BY <1>1, <1>3 DEF Starts

\* The first thread area of a program gets its address.
LEMMA AbiInitStarts ==
  ASSUME ProgInv, NEW p \in Programs, AbiInit(p)
  PROVE  Starts(p)
<1> DEFINE on == TRUE
           o  == prog[p].own \cup {prog[p].base}
           x  == prog[p]
           r  == [prog[p] EXCEPT !.pc = "runs", !.gate = on, !.own = o]
<1>1. prog' = [prog EXCEPT ![p] = r]
  BY DEF AbiInit, Becoming
<1>2. ProgOK(x)
  BY DEF ProgInv
<1>3. x.base \in o
  OBVIOUS
<1>4. r = [[[x EXCEPT !.pc = "runs"] EXCEPT !.gate = on] EXCEPT !.own = o]
  OBVIOUS
<1>4a. x.out = prog[p].out
  OBVIOUS
<1> HIDE DEF on, o, r, x
<1>5. r = [pc |-> "runs", gate |-> on, eax |-> x.eax, out |-> x.out, entry |-> x.entry,
           base |-> x.base, own |-> o, brk |-> x.brk]
  BY <1>2, <1>4 DEF ProgOK
<1>6. /\ r.pc = "runs" /\ r.gate = on /\ r.eax = x.eax /\ r.out = x.out /\ r.entry = x.entry
      /\ r.base = x.base /\ r.own = o /\ r.brk = x.brk
  BY <1>5
<1>7. ProgOK(r)
  BY <1>2, <1>3, <1>5, <1>6 DEF ProgOK
<1>8. QED
  BY <1>1, <1>4a, <1>6, <1>7 DEF Starts

LEMMA StartsKeep ==
  ASSUME ProgInv, NEW p \in Programs, Starts(p), cut' = cut
  PROVE  ProgInv' /\ \A q \in Programs : prog'[q].out = prog[q].out
<1>1. PICK r : ProgOK(r) /\ prog' = [prog EXCEPT ![p] = r] /\ r.out = prog[p].out
  BY DEF Starts
<1>2. ProgInv' /\ \A q \in Programs : prog'[q] = IF q = p THEN r ELSE prog[q]
  BY <1>1, BecomingKeeps
<1>3. QED
  BY <1>1, <1>2

LEMMA ProgSame ==
  ProgInv /\ UNCHANGED <<prog, cut>> => ProgInv'
BY DEF ProgInv, ProgOK, Items, StringItems, BufferItems, Strings

LEMMA LinuxSteps ==
  ASSUME ConsoleInv, ProgInv, [LinuxNext]_<<linuxVars, consoleVars>>
  PROVE  ConsoleInv' /\ ProgInv'
<1>1. ASSUME NEW p \in Programs, WaitForService(p) \/ AbiInit(p) PROVE ConsoleInv' /\ ProgInv'
  <2>1. Starts(p)
    BY <1>1, WaitStarts, AbiInitStarts
  <2>2. cut' = cut /\ UNCHANGED consoleVars
    BY <1>1 DEF WaitForService, AbiInit
  <2>3. ProgInv'
    BY <2>1, <2>2, StartsKeep
  <2>4. QED
    BY <2>2, <2>3, ConsoleSame DEF consoleVars
<1>2. ASSUME NEW p \in Programs, Interrupt(p) PROVE ConsoleInv' /\ ProgInv'
  <2>1. /\ Serves(p) /\ cut' = cut
        /\ UNCHANGED <<con, syscon, content, free, cursor, shown>>
    BY <1>2, InterruptServes
  <2>2. PICK r : ProgOK(r) /\ prog' = [prog EXCEPT ![p] = r]
    BY <2>1 DEF Serves
  <2>3. ProgInv'
    BY <2>1, <2>2, BecomingKeeps
  <2>4. QED
    BY <2>1, <2>3, ConsoleSame
<1>3. ASSUME NEW p \in Programs, KernelCall(p) PROVE ConsoleInv' /\ ProgInv'
  <2>1. prog[p].out # <<>> /\ cut' = cut /\ (DebugString(p) \/ DebugBuf(p))
    BY <1>3 DEF KernelCall
  <2>2. QED
    BY <2>1, DebugStringKeeps, DebugBufKeeps
<1>4. CASE Declare
  BY <1>4, ConsoleSame, ProgSame DEF Declare, consoleVars
<1>5. CASE UNCHANGED <<linuxVars, consoleVars>>
  BY <1>5, ConsoleSame, ProgSame DEF linuxVars, consoleVars
<1>6. QED
  BY <1>1, <1>2, <1>3, <1>4, <1>5 DEF LinuxNext, Program

LEMMA LinuxKeeps == LinuxSpec => [](ConsoleInv /\ ProgInv)
<1>1. ConsoleInit /\ LinuxInit => ConsoleInv /\ ProgInv
  BY ConsoleStarts, LinuxStarts
<1>2. (ConsoleInv /\ ProgInv) /\ [LinuxNext]_<<linuxVars, consoleVars>> => (ConsoleInv /\ ProgInv)'
  BY LinuxSteps
<1>3. QED
  BY <1>1, <1>2, PTL DEF LinuxSpec

\* What Linux programs print, in whatever order they print, goes to the console
\* that is shown and nowhere else.
THEOREM LinuxConsolesKept == LinuxSpec => []ConsolesKept
BY LinuxKeeps, ConsoleInvKeeps, PTL

-----------------------------------------------------------------------------
(* What writes leave behind, where no string crosses a page.                *)

\* Strings are printed whole, so none is open between two calls; who has
\* begun a write has still to put the color back.
QuietInv ==
  /\ \A p \in Programs :
       /\ Finishes(prog[p].out)
       /\ \A i \in DOMAIN prog[p].out : prog[p].out[i].kind = "string" => prog[p].out[i].at = 0
  /\ ~con[syscon].escape.on
  /\ (\A p \in Programs : prog[p].out = <<>>) => con[syscon].color = DefaultColor

LEMMA QuietStarts == ConsoleInit /\ LinuxInit => QuietInv
<1> SUFFICES ASSUME ConsoleInit, LinuxInit PROVE QuietInv
  OBVIOUS
<1>1. \A p \in Programs : prog[p].out = <<>>
  BY DEF LinuxInit, NewProgram
<1>2. ASSUME NEW p \in Programs
      PROVE  /\ Finishes(prog[p].out)
             /\ \A i \in DOMAIN prog[p].out : prog[p].out[i].kind = "string" => prog[p].out[i].at = 0
  BY <1>1 DEF Finishes
<1>3. con[syscon].escape = NoEscape /\ con[syscon].color = DefaultColor
  <2>1. PICK f, at : /\ con = [c \in Consoles |-> NewConsole(f[c], IF c = 0 THEN at ELSE <<0, 0>>)]
                     /\ syscon = 0
    BY DEF ConsoleInit
  <2>2. con[syscon] = NewConsole(f[0], at)
    BY <2>1, ConsoleAssumption
  <2> DEFINE b == f[0] = Video
  <2>3. con[syscon] = [x |-> at[1], y |-> at[2], color |-> DefaultColor, change_cur |-> b,
                       escape |-> NoEscape, buffer |-> f[0]]
    BY <2>2 DEF NewConsole
  <2> HIDE DEF b
  <2>4. QED
    BY <2>3
<1>4. ~NoEscape.on
  BY NoEscapeOK
<1>5. QED
  BY <1>2, <1>3, <1>4 DEF QuietInv

\* A step that leaves the consoles and what is to be printed alone.
LEMMA QuietSame ==
  ASSUME QuietInv, con' = con, syscon' = syscon,
         \A p \in Programs : prog'[p].out = prog[p].out
  PROVE  QuietInv'
BY DEF QuietInv, Finishes

\* What is still to be printed ends as before, and was to be printed before.
LEMMA LeftQuiet ==
  ASSUME NEW out \in Seq(Items), out # <<>>, Finishes(out),
         \A i \in DOMAIN out : out[i].kind = "string" => out[i].at = 0,
         NEW n \in Nat,
         n = Len(Head(out).chars) \/ (Head(out).kind = "buffer" /\ n < Len(Head(out).chars))
  PROVE  /\ Finishes(Left(out, n))
         /\ \A i \in DOMAIN Left(out, n) : Left(out, n)[i].kind = "string" => Left(out, n)[i].at = 0
         /\ Left(out, n) = <<>> => Head(out) = Normal
<1> DEFINE left == Left(out, n)
<1>1. /\ Len(out) \in Nat /\ Len(out) > 0 /\ Head(out) = out[1]
      /\ out[Len(out)] = Normal
  BY TailIs DEF Finishes
<1>2. KeepsLast(out, left) /\ (Len(out) = 1 => left = <<>> \/ Head(out).kind = "buffer")
  <2>1. CASE n = Len(Head(out).chars)
    BY <2>1, LeftEnds
  <2>2. CASE Head(out).kind = "buffer" /\ n < Len(Head(out).chars)
    BY <2>2, LeftGoesOn
  <2>3. QED
    BY <2>1, <2>2
<1>3. FromRest(out, left) \/ (KeepsRest(out, left) /\ Head(out).kind = "buffer")
  <2>1. CASE n = Len(Head(out).chars)
    BY <2>1, LeftEnds
  <2>2. CASE Head(out).kind = "buffer" /\ n < Len(Head(out).chars)
    BY <2>2, LeftGoesOn
  <2>3. QED
    BY <2>1, <2>2
<1> HIDE DEF left
<1>4. Len(out) > 1 \/ (Len(out) = 1 /\ Head(out) = Normal)
  <2> DEFINE k == Len(out)
  <2>1. k \in Nat /\ k > 0 /\ Head(out) = out[1] /\ out[k] = Normal
    BY <1>1
  <2> HIDE DEF k
  <2>2. k > 1 \/ k = 1
    BY <2>1
  <2>3. k = 1 => Head(out) = Normal
    BY <2>1
  <2>4. QED
    BY <2>2, <2>3 DEF k
<1>5. Finishes(left)
  <2>1. CASE Len(out) > 1
    BY <1>1, <1>2, <2>1 DEF KeepsLast, Finishes
  <2>2. CASE Len(out) = 1 /\ Head(out) = Normal
    <3>1. Head(out).kind # "buffer"
      BY <2>2, NormalItem
    <3>2. left = <<>>
      BY <1>2, <2>2, <3>1
    <3>3. QED
      BY <3>2 DEF Finishes
  <2>3. QED
    BY <1>4, <2>1, <2>2
<1>6. ASSUME NEW i \in DOMAIN left, left[i].kind = "string" PROVE left[i].at = 0
  <2>1. \E j \in DOMAIN out : left[i] = out[j]
    <3>1. CASE FromRest(out, left)
      BY <3>1 DEF FromRest
    <3>2. CASE KeepsRest(out, left) /\ Head(out).kind = "buffer"
      BY <1>6, <3>2 DEF KeepsRest
    <3>3. QED
      BY <1>3, <3>1, <3>2
  <2>2. QED
    BY <1>6, <2>1
<1>7. left = <<>> => Head(out) = Normal
  BY <1>2, <1>4 DEF KeepsLast
<1>8. QED
  BY <1>5, <1>6, <1>7 DEF left

\* What a program printed and what it has left, taken together.
LEMMA QuietAfter ==
  ASSUME ConsoleInv, ProgInv, QuietInv, NEW p \in Programs, prog[p].out # <<>>,
         NEW n \in Nat,
         \/ n = Len(Head(prog[p].out).chars)
         \/ Head(prog[p].out).kind = "buffer" /\ n < Len(Head(prog[p].out).chars),
         Becoming(p, [prog[p] EXCEPT !.out = Printed(p, n)]), cut' = cut,
         ~con'[syscon'].escape.on,
         Head(prog[p].out) = Normal => con'[syscon'].color = DefaultColor
  PROVE  QuietInv'
<1> DEFINE out == prog[p].out
           left == Left(out, n)
<1>1. out \in Seq(Items) /\ Head(out) \in Items
  BY TailIs DEF ProgInv, ProgOK
<1>2. n <= Len(Head(out).chars)
  BY <1>1, ItemIs
<1>3. \A q \in Programs : prog'[q].out = IF q = p THEN left ELSE prog[q].out
  BY <1>2, PrintedKeeps
<1>4. Finishes(out) /\ \A i \in DOMAIN out : out[i].kind = "string" => out[i].at = 0
  BY DEF QuietInv
<1>5. /\ Finishes(left) /\ \A i \in DOMAIN left : left[i].kind = "string" => left[i].at = 0
      /\ left = <<>> => Head(out) = Normal
  BY <1>1, <1>4, LeftQuiet
<1> HIDE DEF left, out
<1>6. ASSUME NEW q \in Programs
      PROVE  /\ Finishes(prog'[q].out)
             /\ \A i \in DOMAIN prog'[q].out : prog'[q].out[i].kind = "string" => prog'[q].out[i].at = 0
  <2>1. CASE q = p
    BY <1>3, <1>5, <2>1
  <2>2. CASE q # p
    <3>1. prog'[q].out = prog[q].out
      BY <1>3, <2>2
    <3>2. QED
      BY <3>1 DEF QuietInv
  <2>3. QED
    BY <2>1, <2>2
<1>7. ASSUME \A q \in Programs : prog'[q].out = <<>> PROVE con'[syscon'].color = DefaultColor
  <2>1. left = <<>>
    BY <1>3, <1>7
  <2>2. QED
    BY <1>5, <2>1 DEF out
<1>8. QED
  BY <1>6, <1>7 DEF QuietInv, Finishes

\* Strings that cross no page are printed whole.
LEMMA DebugStringQuiet ==
  ASSUME Cuts = {0}, ConsoleInv, ProgInv, QuietInv, NEW p \in Programs, prog[p].out # <<>>,
         DebugString(p), cut' = cut
  PROVE  QuietInv'
<1> DEFINE first == Head(prog[p].out)
           s == Screen(syscon)
           t == PutAll(s, first.chars)
<1>1. syscon \in Consoles /\ con = [c \in Consoles |-> con[c]]
  BY DEF ConsoleInv, OwnersInv
<1>2. /\ first.kind = "string" /\ first \in Items
      /\ Len(first.chars) \in Nat
      /\ Becomes(syscon, PutAll(s, Written(p)))
      /\ \E n \in {End(p), Len(first.chars)} : Becoming(p, [prog[p] EXCEPT !.out = Printed(p, n)])
  BY StringIs
<1>3. prog[p].out \in Seq(Items)
  BY DEF ProgInv, ProgOK
<1>4. first.at = 0
  <2>1. first = prog[p].out[1] /\ 1 \in DOMAIN prog[p].out
    BY <1>3, TailIs
  <2>2. QED
    BY <1>2, <2>1 DEF QuietInv
<1>5. cut[p] = 0
  BY DEF ProgInv
<1>6. End(p) = Len(first.chars)
  BY <1>4, <1>5 DEF End
<1>7. Written(p) = first.chars
  <2>1. first.chars \in Seq(Letters)
    BY <1>2, ItemIs
  <2>2. first.at + 1 = 1
    BY <1>4
  <2>3. Written(p) = SubSeq(first.chars, 1, Len(first.chars))
    BY <1>6, <2>2 DEF Written
  <2>4. QED
    BY <2>1, <2>3, SubSeqFull
<1>8. Becomes(syscon, t)
  BY <1>2, <1>7
<1>9. ScreenOK(s) /\ s.con = con[syscon] /\ ~s.con.escape.on
  BY <1>1, ScreenOf DEF QuietInv
<1>10. first.chars \in Strings
  BY <1>2, ItemIs
<1> HIDE DEF s
<1>11. ~t.con.escape.on /\ (first.chars = Normal.chars => t.con.color = DefaultColor)
  BY <1>9, <1>10, StringsEnd
<1> HIDE DEF t
<1>12. con'[syscon'] = t.con
  BY <1>1, <1>8 DEF Becomes
<1>13. Becoming(p, [prog[p] EXCEPT !.out = Printed(p, Len(first.chars))])
  BY <1>2, <1>6
<1>14. Head(prog[p].out) = Normal => con'[syscon'].color = DefaultColor
  BY <1>11, <1>12
<1>15. ~con'[syscon'].escape.on
  BY <1>11, <1>12
<1>16. QED
  BY <1>2, <1>13, <1>14, <1>15, QuietAfter

\* The characters of a buffer are printed as they are.
LEMMA DebugBufQuiet ==
  ASSUME ConsoleInv, ProgInv, QuietInv, NEW p \in Programs, prog[p].out # <<>>,
         DebugBuf(p), cut' = cut
  PROVE  QuietInv'
<1> DEFINE first == Head(prog[p].out)
           ch == first.chars[first.at + 1]
           n == first.at + 1
           s == Screen(syscon)
           t == PutChar(s, ch)
<1>1. syscon \in Consoles /\ con = [c \in Consoles |-> con[c]]
  BY DEF ConsoleInv, OwnersInv
<1>2. /\ first.kind = "buffer" /\ first \in Items /\ ch \in Glyphs
      /\ n \in Nat /\ n <= Len(first.chars)
      /\ Becoming(p, [prog[p] EXCEPT !.out = Printed(p, n)])
      /\ UNCHANGED consoleVars \/ Becomes(syscon, t)
  BY BufferIs
<1>3. ScreenOK(s) /\ s.con = con[syscon] /\ ~s.con.escape.on
  BY <1>1, ScreenOf DEF QuietInv
<1> HIDE DEF s, ch, n
<1>4. t = PutRaw(s, ch)
  <2>1. ch \notin {"esc", "cr", "lf", "bs"}
    BY <1>2, ConsoleAssumption DEF Controls
  <2>2. QED
    BY <1>3, <2>1 DEF PutChar
<1>5. SameLook(s.con, t.con)
  BY <1>3, <1>4, PutRawKeeps
<1> HIDE DEF t
<1>6. ~con'[syscon'].escape.on
  <2>1. CASE UNCHANGED consoleVars
    BY <1>3, <2>1 DEF consoleVars
  <2>2. CASE Becomes(syscon, t)
    <3>1. con'[syscon'] = t.con
      BY <1>1, <2>2 DEF Becomes
    <3>2. QED
      BY <1>3, <1>5, <3>1 DEF SameLook
  <2>3. QED
    BY <1>2, <2>1, <2>2
<1>7. first # Normal
  BY <1>2, NormalItem
<1>8. n = Len(first.chars) \/ n < Len(first.chars)
  BY <1>2, ItemIs
<1>9. QED
  BY <1>2, <1>6, <1>7, <1>8, QuietAfter

LEMMA QuietSteps ==
  ASSUME Cuts = {0}, ConsoleInv, ProgInv, QuietInv, [LinuxNext]_<<linuxVars, consoleVars>>
  PROVE  QuietInv'
<1>1. ASSUME NEW p \in Programs, WaitForService(p) \/ AbiInit(p) PROVE QuietInv'
  <2>1. Starts(p)
    BY <1>1, WaitStarts, AbiInitStarts
  <2>2. cut' = cut /\ con' = con /\ syscon' = syscon
    BY <1>1 DEF WaitForService, AbiInit, consoleVars
  <2>3. \A q \in Programs : prog'[q].out = prog[q].out
    BY <2>1, <2>2, StartsKeep
  <2>4. QED
    BY <2>2, <2>3, QuietSame
<1>2. ASSUME NEW p \in Programs, Interrupt(p) PROVE QuietInv'
  <2>1. /\ Serves(p) /\ cut' = cut /\ prog[p].out = <<>>
        /\ con' = con /\ syscon' = syscon
    BY <1>2, InterruptServes
  <2>2. PICK r : /\ ProgOK(r) /\ prog' = [prog EXCEPT ![p] = r]
                 /\ Finishes(r.out) /\ \A i \in DOMAIN r.out : r.out[i].at = 0
    BY <2>1 DEF Serves
  <2>2a. ProgOK(r) /\ prog' = [prog EXCEPT ![p] = r]
    BY <2>2
  <2>3. \A q \in Programs : prog'[q] = IF q = p THEN r ELSE prog[q]
    BY <2>1, <2>2a, BecomingKeeps
  <2>4. ASSUME NEW q \in Programs
        PROVE  /\ Finishes(prog'[q].out)
               /\ \A i \in DOMAIN prog'[q].out : prog'[q].out[i].kind = "string" => prog'[q].out[i].at = 0
    <3>1. CASE q = p
      BY <2>2, <2>3, <3>1
    <3>2. CASE q # p
      <4>1. prog'[q] = prog[q]
        BY <2>3, <3>2
      <4>2. QED
        BY <4>1 DEF QuietInv
    <3>3. QED
      BY <3>1, <3>2
  <2>5. ASSUME \A q \in Programs : prog'[q].out = <<>> PROVE con'[syscon'].color = DefaultColor
    <3>1. \A q \in Programs : prog[q].out = <<>>
      BY <2>1, <2>3, <2>5
    <3>2. QED
      BY <2>1, <3>1 DEF QuietInv
  <2>6. ~con'[syscon'].escape.on
    BY <2>1 DEF QuietInv
  <2>7. QED
    BY <2>4, <2>5, <2>6 DEF QuietInv, Finishes
<1>3. ASSUME NEW p \in Programs, KernelCall(p) PROVE QuietInv'
  <2>1. prog[p].out # <<>> /\ cut' = cut /\ (DebugString(p) \/ DebugBuf(p))
    BY <1>3 DEF KernelCall
  <2>2. QED
    BY <2>1, DebugStringQuiet, DebugBufQuiet
<1>4. CASE Declare
  BY <1>4, QuietSame DEF Declare, consoleVars
<1>5. CASE UNCHANGED <<linuxVars, consoleVars>>
  BY <1>5, QuietSame DEF linuxVars, consoleVars
<1>6. QED
  BY <1>1, <1>2, <1>3, <1>4, <1>5 DEF LinuxNext, Program

LEMMA QuietKept == ProgInv /\ QuietInv => LinuxKept
BY DEF ProgInv, ProgOK, QuietInv, LinuxKept, EscapesWhole

\* Where no string of a program's object crosses a page, escape sequences are
\* complete between any two calls, whoever prints in between, the color is the
\* one there was when no program is in a write, and a program that runs finds
\* the address of its thread area there.
THEOREM LinuxAlwaysKept ==
  ASSUME Cuts = {0}
  PROVE  LinuxSpec => []LinuxKept
<1>1. ConsoleInit /\ LinuxInit => ConsoleInv /\ ProgInv /\ QuietInv
  BY ConsoleStarts, LinuxStarts, QuietStarts
<1>2. (ConsoleInv /\ ProgInv /\ QuietInv) /\ [LinuxNext]_<<linuxVars, consoleVars>>
        => (ConsoleInv /\ ProgInv /\ QuietInv)'
  BY LinuxSteps, QuietSteps
<1>3. QED
  BY <1>1, <1>2, QuietKept, PTL DEF LinuxSpec
=============================================================================
