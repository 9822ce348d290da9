SPECIFICATION Spec
CONSTANTS
  TreeKeys = {1, 2, 3, 4, 5, 6, 7, 8}
  SearchKeys = {2, 5}
  Data = {1}
  None = 0
  RootBits = 1
  Bits = 1
  KeyLen = 4
  PageKeys = {0, 2, 6, 8}
  Values = {1, 2}
  Tags = {x}
  ListElems = {a, b, c}
  Indices = {1, 2}
  Classes = {body}
  Dupable = {body}
  Tasks = {t1, t2}
  RefLists = {l1, l2}
  MaxObjs = 2
  MaxRefs = 3
  MaxElems = 3
INVARIANTS RedBlack WalkIsMap LinksAreOrder CountsExact
PROPERTIES ImplementsOrderedMap FailureUndone
SYMMETRY Symmetry
VIEW View
CHECK_DEADLOCK FALSE
