CONSTANTS
  f = f
  Common = Common
  Funcs = {f, Common}
  Offsets = {7000, 20000, 90000, 120000}
  Numbers = {40000, 200000}
  Remarks = {50000}
  Empty = Empty
  None = None
  Largest = 100000
  MaxLines = 3
SPECIFICATION Spec
INVARIANT ConstantsRight
PROPERTY GeneratorEnds
