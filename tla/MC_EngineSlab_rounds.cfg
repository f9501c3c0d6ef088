CONSTANTS
  t1 = t1  t2 = t2  c1 = c1  c2 = c2
  k1 = k1  k2 = k2  v1 = v1  v2 = v2  h1 = h1  h2 = h2
  Threads <- MC_Threads
  Cells <- MC_TwoCells
  Vals = {0, 1}
  InitVal = 0
  NoTxn = NoTxn
  NULL_EPOCH = 0
  INIT_EPOCH = 3
  MaxEpoch = 3
  MaxRounds = 2
  MaxOps = 1
  Liveness = "Nonblocking"
  Keys <- MC_Keys
  SlabVals <- MC_SlabVals
  NullKey = NullKey
  NullVal = NullVal
  Helpers <- MC_OneHelper
  Amount = 3
  MaxSlabs = 2
  SlabMaxOps = 5
  MaxIters = 2

SYMMETRY MC_Symmetry
SPECIFICATION EngineSlabSpec
INVARIANTS NoOrphanDescriptor LiveWritesInstalled SlabTypeOK SlabsAfterLastEmpty EveryStableEntryVisited
