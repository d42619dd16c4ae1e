CONSTANTS
  Calls = {c1, c2, c3, c4}
  Items = {i1, i2}
  Keys = {k1}
  NoKey = NoKey
  None = None
  Quantities = {1}
  InitialQuantity = 2
SYMMETRY Symmetry
SPECIFICATION Spec
INVARIANTS
  RowsConsistent
  BooksAgree
PROPERTY ImplementsLedger
CHECK_DEADLOCK FALSE
