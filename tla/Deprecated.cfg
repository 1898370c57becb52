CONSTANTS
  m1 = m1
  m2 = m2
  w1 = w1
  w2 = w2
  x = x
  g = g
  Messages = {m1, m2}
  Wires = {w1, w2}
  Tags = {x, g}
  GroupTags = {g}
  None = None
  MaxFields = 3
  MaxItems = 1
SPECIFICATION Spec
INVARIANT TypeOK
INVARIANT FindsFirst
INVARIANT WireOwned
PROPERTY RemovesMapped
