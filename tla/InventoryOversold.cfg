CONSTANTS
  Calls = {c1, c2}
  Items = {i1}
  Keys = {k1}
  NoKey = NoKey
  None = None
  Quantities = {1}
  InitialQuantity = 1
SPECIFICATION Spec
INVARIANT NeverOversold
CHECK_DEADLOCK FALSE
