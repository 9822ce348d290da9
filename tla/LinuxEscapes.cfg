SPECIFICATION KernelSpec
CONSTANTS
  Tasks = {t1, t2}
  Idle = idle
  Ints = {14, 60, 160}
  TlsSetters = {t1}
  UserIsrs = {t2}
  IdleThread = idle
  Servers = {s1, s2, s3}
  Names = {fs, auth}
  NULL = NULL
  Consoles = {0, 1}
  Width = 2
  Height = 2
  Buffers = {p1, p2}
  MaxEscape = 2
  Glyphs = {"a"}
  Places <- MCPlaces
  Texts <- MCTexts
  Numbers = {"n31"}
  MaxCalls = 5
  Programs = {l1, l2}
  Cuts = {3}
  Breaks = {5, 6}
  Bases = {0, 1}
  LinuxCalls = 2
PROPERTY EscapesUncut
CHECK_DEADLOCK FALSE
