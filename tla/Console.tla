------------------------------- MODULE Console -------------------------------
(***************************************************************************)
(* System consoles (console.c, video.c): text screens, one of which is on  *)
(* video memory and has the hardware cursor; the others are kept in pages  *)
(* of their own until console_switch exchanges them.                       *)
(*                                                                         *)
(* Every call runs with interrupts off.  Characters are what the code      *)
(* tells apart; the digits of a number are written at once.                *)
(***************************************************************************)
EXTENDS Integers, SequencesExt

CONSTANTS
  Consoles,   \* indices of syscon_list
  Width, Height,
  Buffers,    \* the pages there are for screens that are not shown
  MaxEscape,  \* CONSOLE_MAX_ESCAPE
  Glyphs,     \* bound: the characters that are printed
  Numbers,    \* bound: the numbers written in escape sequences, of DOMAIN Number
  Places,     \* bound: where console_gotoxy is asked to go
  MaxCalls    \* bound: how many calls are made

VARIABLES
  con,      \* syscon_list
  syscon,   \* the console that is shown
  content,  \* what each buffer holds
  free,     \* the buffers page_alloc may give
  cursor,   \* the cursor of the video controller
  shown,    \* history: what was printed to each console
  calls     \* how many calls were made

consoleVars == <<con, syscon, content, free, cursor, shown, calls>>

Video == "video"        \* VIDEO_BASE_ADDR
Controls == {"nul", "esc", "cr", "lf", "bs"}

ASSUME ConsoleAssumption ==
  /\ IsFiniteSet(Consoles) /\ 0 \in Consoles
  /\ IsFiniteSet(Buffers) /\ Video \notin Buffers
  /\ Cardinality(Buffers) >= Cardinality(Consoles)
  /\ {Width, Height, MaxEscape} \subseteq Nat \ {0}
  /\ Places \subseteq Nat \X Nat
  /\ Glyphs \cap Controls = {}

Cells == (0 .. Width - 1) \X (0 .. Height - 1)
DefaultColor == [fg |-> 7, bg |-> 0]
Blank(color) == [glyph |-> "space", color |-> color]
Clear(color) == [cell \in Cells |-> Blank(color)]
NoEscape == [on |-> FALSE, type |-> "none", params |-> <<0>>]

\* console_setup, or setup_system_consoles for all but the first.
NewConsole(buffer, at) ==
  [x |-> at[1], y |-> at[2], color |-> DefaultColor, change_cur |-> buffer = Video,
   escape |-> NoEscape, buffer |-> buffer]

\* video_cursor_set_pos_xy: the controller keeps an offset.
Offset(x, y) == y * Width + x

ConsoleInit ==
  \E f \in [Consoles -> Buffers \cup {Video}], at \in Cells :
    /\ f[0] = Video /\ \A c, d \in Consoles : f[c] = f[d] => c = d
    /\ con = [c \in Consoles |-> NewConsole(f[c], IF c = 0 THEN at ELSE <<0, 0>>)]
    /\ free = Buffers \ {f[c] : c \in Consoles}
    /\ syscon = 0 /\ calls = 0 /\ cursor = Offset(at[1], at[2])
    /\ content = [b \in Buffers \cup {Video} |-> Clear(DefaultColor)]
    /\ shown = [c \in Consoles |-> Clear(DefaultColor)]

-----------------------------------------------------------------------------
(* What a character does to s, a console and its screen.                    *)

\* console_scroll
Scroll(screen, color) ==
  [cell \in Cells |-> IF cell[2] = Height - 1 THEN Blank(color) ELSE screen[<<cell[1], cell[2] + 1>>]]

NextLine(s) ==
  IF s.con.y + 1 < Height THEN [s EXCEPT !.con.y = @ + 1]
  ELSE [s EXCEPT !.screen = Scroll(@, s.con.color)]

\* __console_inline_putchar_raw
PutRaw(s, glyph) ==
  LET at   == <<s.con.x, s.con.y>>
      put  == [s EXCEPT !.screen[at] = [glyph |-> glyph, color |-> s.con.color]]
  IN IF glyph = "nul" THEN s
     ELSE IF s.con.x + 1 < Width THEN [put EXCEPT !.con.x = @ + 1] ELSE NextLine([put EXCEPT !.con.x = 0])

\* __ecma_to_vga
EcmaToVga(n) == <<0, 4, 2, 6, 1, 5, 3, 7>>[n + 1]

\* __console_parse_escape, one of its numbers.
Attribute(a, n) ==
  CASE n = 0 -> [color |-> DefaultColor, light |-> 0, blink |-> 0]
    [] n = 1 -> [a EXCEPT !.light = 8]
    [] n = 5 -> [a EXCEPT !.blink = 8]
    [] n = 7 -> [a EXCEPT !.color = [fg |-> @.bg, bg |-> @.fg]]
    [] n \in {21, 22} -> [a EXCEPT !.light = 0]
    [] n = 25 -> [a EXCEPT !.blink = 0]
    [] n \in 30..37 -> [a EXCEPT !.color.fg = EcmaToVga(n - 30) + a.light]
    [] n \in 40..47 -> [a EXCEPT !.color.bg = EcmaToVga(n - 40) + a.blink]
    [] OTHER -> a

\* __console_parse_escape: its test of the suffix is an assignment, so every
\* sequence sets colors.
ParseEscape(c) ==
  LET params == c.escape.params
      a[i \in 0 .. Len(params)] == IF i = 0 THEN [color |-> c.color, light |-> 0, blink |-> 0]
                                   ELSE Attribute(a[i - 1], params[i])
  IN [c EXCEPT !.color = a[Len(params)].color]

\* A number begins; the last one there is room for begins again.
NextParam(params) ==
  IF Len(params) < MaxEscape THEN Append(params, 0)
  ELSE [params EXCEPT ![MaxEscape] = 0]

Number == [n0 |-> 0, n1 |-> 1, n31 |-> 31, n37 |-> 37]

\* The digits of a number, of which a byte is kept.
WithDigits(params, n) ==
  Front(params) \o <<(Last(params) * (IF n < 10 THEN 10 ELSE 100) + n) % 256>>

\* __console_inline_putchar, in an escape sequence.
PutEscaped(c, ch) ==
  CASE c.escape.type = "none" -> [c EXCEPT !.escape.type = IF ch = "nul" THEN @ ELSE ch]
    [] c.escape.type \notin {"none", "["} -> [c EXCEPT !.escape.on = FALSE]
    [] c.escape.type = "[" /\ ch = ";" -> [c EXCEPT !.escape.params = NextParam(@)]
    [] c.escape.type = "[" /\ ch \in DOMAIN Number ->
         [c EXCEPT !.escape.params = WithDigits(@, Number[ch])]
    [] OTHER -> [ParseEscape(c) EXCEPT !.escape.on = FALSE]

\* __console_inline_putchar
PutChar(s, ch) ==
  CASE s.con.escape.on -> [s EXCEPT !.con = PutEscaped(@, ch)]
    [] ~s.con.escape.on /\ ch = "esc" -> [s EXCEPT !.con.escape = [NoEscape EXCEPT !.on = TRUE]]
    [] ~s.con.escape.on /\ ch = "cr" -> [s EXCEPT !.con.x = 0]
    [] ~s.con.escape.on /\ ch = "lf" -> NextLine([s EXCEPT !.con.x = 0])
    [] ~s.con.escape.on /\ ch = "bs" -> [s EXCEPT !.con.x = IF @ > 0 THEN @ - 1 ELSE 0]
    [] OTHER -> PutRaw(s, ch)

\* One character after another
PutAll(s, chars) ==
  LET after[i \in 0 .. Len(chars)] == IF i = 0 THEN s ELSE PutChar(after[i - 1], chars[i])
  IN  after[Len(chars)]

-----------------------------------------------------------------------------
(* The calls.                                                               *)

Chars == Glyphs \cup Controls \cup {"m"}
EscapeChars == {"nul", "esc", "[", ";", "m"} \cup Numbers

\* What is left of con c: its screen is in its buffer, and the hardware cursor
\* goes with it when it is the one to change.
Becomes(c, s) ==
  /\ con' = [con EXCEPT ![c] = s.con]
  /\ content' = [content EXCEPT ![s.con.buffer] = s.screen]
  /\ shown' = [shown EXCEPT ![c] = s.screen]
  /\ cursor' = IF s.con.change_cur THEN Offset(s.con.x, s.con.y) ELSE cursor
  /\ UNCHANGED <<syscon, free>>

Screen(c) == [con |-> con[c], screen |-> content[con[c].buffer]]

\* console_putchar, and console_write and console_puts one character at a time.
Putchar(c, ch) ==
  /\ ch \in IF con[c].escape.on THEN EscapeChars ELSE Chars
  /\ ch \in Numbers => con[c].escape.type = "["
  /\ Becomes(c, PutChar(Screen(c), ch))

\* console_putchar_raw, console_write_raw and console_puts_raw.
PutcharRaw(c, ch) == Becomes(c, PutRaw(Screen(c), ch))

\* console_gotoxy, of places that are words: none is less than 0.
Gotoxy(c, x, y) ==
  Becomes(c, [Screen(c) EXCEPT !.con.x = IF x >= Width THEN Width - 1 ELSE x,
                               !.con.y = IF y >= Height THEN Height - 1 ELSE y])

\* console_clear
ClearScreen(c) ==
  Becomes(c, [con |-> [con[c] EXCEPT !.x = 0, !.y = 0], screen |-> Clear(con[c].color)])

\* Mutant: the screen that was shown is not kept.
SwitchForgets(c, b) ==
  /\ con' = [con EXCEPT ![syscon].buffer = b, ![syscon].change_cur = FALSE,
                        ![c].buffer = Video, ![c].change_cur = TRUE]
  /\ content' = [content EXCEPT ![Video] = content[con[c].buffer]]
  /\ free' = (free \ {b}) \cup {con[c].buffer}
  /\ cursor' = Offset(con[c].x, con[c].y) /\ syscon' = c
  /\ UNCHANGED shown

\* console_switch to c: the screen shown goes to the buffer b, that of c to
\* video memory, and the buffer of c is freed.
Exchange(c, b) ==
  /\ con' = [con EXCEPT ![syscon].buffer = b, ![syscon].change_cur = FALSE,
                        ![c].buffer = Video, ![c].change_cur = TRUE]
  /\ content' = [content EXCEPT ![b] = content[Video], ![Video] = content[con[c].buffer]]
  /\ free' = (free \ {b}) \cup {con[c].buffer}
  /\ cursor' = Offset(con[c].x, con[c].y) /\ syscon' = c
  /\ UNCHANGED shown

\* Without a page nothing changes; switching to the console shown is done.
ConsoleSwitch(c) == c # syscon /\ \E b \in free : Exchange(c, b)

ConsoleNext ==
  /\ calls < MaxCalls /\ calls' = calls + 1
  /\ \E c \in Consoles :
       \/ \E ch \in Chars \cup EscapeChars : Putchar(c, ch)
       \/ \E ch \in Glyphs \cup {"nul"} : PutcharRaw(c, ch)
       \/ \E p \in Places : Gotoxy(c, p[1], p[2])
       \/ ClearScreen(c) \/ ConsoleSwitch(c)

ConsoleSpec == ConsoleInit /\ [][ConsoleNext]_consoleVars

-----------------------------------------------------------------------------
\* Whatever is written to consoles and however they are switched, each shows
\* what was printed to it and nothing else, its cursor is on the screen and the
\* numbers of its escape sequence are in their array; video memory and the
\* hardware cursor are those of the console shown and every page has one owner.
ConsolesKept ==
  /\ \A c \in Consoles :
       /\ content[con[c].buffer] = shown[c]
       /\ <<con[c].x, con[c].y>> \in Cells
       /\ Len(con[c].escape.params) <= MaxEscape
       /\ con[c].buffer = Video <=> c = syscon
       /\ con[c].buffer \notin free
       /\ \A d \in Consoles : con[c].buffer = con[d].buffer => c = d
  /\ Cardinality(free) = Cardinality(Buffers) + 1 - Cardinality(Consoles)
  /\ cursor = Offset(con[syscon].x, con[syscon].y)
=============================================================================
