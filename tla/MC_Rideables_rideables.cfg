CONSTANTS
  t1 = t1  t2 = t2  v1 = v1  v2 = v2
  Threads <- MC_Threads
  Keys = {1, 2}
  Vals <- MC_OneVal
  None = None
  NoOp = NoOp
  MaxOps = 2
  MaxNodes = 2
  MaxLevel = 2
  SkipOps = {"put", "remove"}
  NoTxn = NoTxn
  BoostVals <- MC_BoostVals
  InitMap <- MC_InitMap
  Txns <- MC_Txns
  MaxRetries = 1

SPECIFICATION FairSpec
INVARIANTS LevelsSorted SkipRetiredUnlinked TypeOK UnlockedKeysCommitted
PROPERTIES SkipCallsReturn Serializable
