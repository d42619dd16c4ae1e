CONSTANTS
  Workflows = {w1, w2}
  Orders = {o1}
  i1 = i1
  i2 = i2
  Items <- MCItems
  Lines <- MCLines
  ClientUpdates = {u1}
  Keys = {k1}
  NoKey = NoKey
  None = None
  InitialQuantity = 1
  MinQuantity = 1
SYMMETRY Symmetry
SPECIFICATION Spec
INVARIANTS
  AnswersTellHoldings
  
  NoSilentShortage
CHECK_DEADLOCK FALSE
