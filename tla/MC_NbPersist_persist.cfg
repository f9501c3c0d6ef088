CONSTANTS
  t1 = t1  t2 = t2  k1 = k1  k2 = k2
  s1 = s1  s2 = s2  s3 = s3  s4 = s4  s5 = s5
  Threads <- MC_Threads
  Keys <- MC_Keys
  Access <- MC_Mixed
  Slots <- MC_Slots4
  NoSlot = NoSlot
  DescLine = DescLine
  None = None
  MaxTxns = 2
  Budget <- MC_Budget21
  InitEpoch = 3
  MaxEpoch = 5
  EvictDescs = FALSE
SPECIFICATION Spec
SYMMETRY MC_SlotSymmetry
INVARIANTS TypeOK ConsistentCut
