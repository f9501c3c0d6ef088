CONSTANTS
  k1 = k1  k2 = k2  v1 = v1  v2 = v2  h1 = h1  h2 = h2
  Keys <- MC_Keys
  Vals <- MC_Vals
  NullKey = NullKey
  NullVal = NullVal
  Helpers <- MC_OneHelper
  Amount = 3
  MaxSlabs = 2
  MaxOps = 3
  MaxIters = 1
SPECIFICATION Spec
INVARIANTS IteratorInBounds
