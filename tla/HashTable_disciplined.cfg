SPECIFICATION TakeTurns
CONSTANTS
  w1 = w1
  w2 = w2
  Thread = {w1, w2}
  Key = {0, 1, 2, 4}
  Value = {v1, v2}
  Size = 2
  Node = {a1, a2, a3}
  Calls <- Everybody
  Builds = {FALSE, TRUE}
  Null = Null
SYMMETRY Symmetric
INVARIANTS
  TypeOK
  NoFault
  SizesMatch
  KeysUnique
PROPERTIES
  Atomic
