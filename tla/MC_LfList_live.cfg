CONSTANTS
  t1 = t1  t2 = t2  v1 = v1  v2 = v2
  Threads <- MC_Threads
  Keys = {1, 2}
  Vals <- MC_OneVal
  None = None
  NoOp = NoOp
  MaxOps = 2
  MaxNodes = 2
  MaxSpurious = 1

SPECIFICATION FairSpec
INVARIANTS ListSorted RetiredUnlinked
PROPERTIES AllCallsReturn Linearizable
