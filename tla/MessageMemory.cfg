CONSTANTS
  h1 = h1
  h2 = h2
  h3 = h3
  x = x
  g = g
  Handles = {h1, h2, h3}
  Tags = {x, g}
  GroupTags = {g}
  None = None
  Heap = Heap
  MaxWires = 4
  LastCreate = 2
  MaxFields = 2
SYMMETRY HandleSymmetry
SPECIFICATION Spec
INVARIANT TypeOK
INVARIANT ArenaOwned
INVARIANT OwnerUsable
PROPERTY MessageFinds
