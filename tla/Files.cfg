SPECIFICATION MCSpec
CONSTANTS
  Owners = {c1, c2}
  NULL = NULL
  Fs = fs
  Junk = Junk
  Built = {4, 11}
  MaxOpen = 2
  Offsets <- MCOffsets
  Requests <- MCRequests
  MaxOpens = 2
  MayFail = TRUE
SYMMETRY Symmetric
INVARIANTS  AnswersMatch
CHECK_DEADLOCK FALSE
