SPECIFICATION Spec
CONSTANTS
  w1 = w1
  w2 = w2
  Thread = {w1, w2}
  Key = {0, 1}
  Value = {v1, v2}
  Size = 1
  Node = {a1, a2, a3}
  Calls <- OneAddsOneRemoves
  Builds = {FALSE}
  Null = Null
SYMMETRY Symmetric
CHECK_DEADLOCK FALSE
INVARIANTS
  AddedIsFound
