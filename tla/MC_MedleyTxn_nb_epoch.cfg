CONSTANTS
  t1 = t1  t2 = t2  c1 = c1  c2 = c2
  Threads <- MC_Threads
  Cells <- MC_TwoCells
  Vals = {0, 1}
  InitVal = 0
  NoTxn = NoTxn
  NULL_EPOCH = 0
  INIT_EPOCH = 3
  MaxEpoch = 4
  MaxRounds = 1
  MaxOps = 1
  Liveness = "Nonblocking"
SYMMETRY MC_Symmetry
SPECIFICATION Spec
PROPERTIES EpochDrainSafe Refinement
