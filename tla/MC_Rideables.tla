----------------------------- MODULE MC_Rideables -----------------------------
(***************************************************************************)
(* The benchmark driver (src/main.cpp) registers the rideables and a run  *)
(* builds one of them: this module composes two of the maps it offers,   *)
(* Fraser's skip list (FraserSkipList) and the boosted hash table         *)
(* (TxnBoosting), with the rideable chosen in the initial state.  The     *)
(* state space is the union of the two, so one run checks the properties *)
(* of both.  Each instance keeps its own variables.  (The lock-free hash  *)
(* table, LfList, has a liveness run of its own: its graph and the skip   *)
(* list's together are too large for one run.)                            *)
(***************************************************************************)
EXTENDS Naturals, TLC

CONSTANTS
  t1, t2, v1, v2,
  Threads, Keys, Vals, None, NoOp,
  MaxOps, MaxNodes, MaxLevel, SkipOps,
  NoTxn, BoostVals, InitMap, Txns, MaxRetries

VARIABLES
  rideable,
  sl_nxt, sl_nkey, sl_nlev, sl_val, sl_ready, sl_nalloc, sl_pc, sl_op, sl_l,
  sl_nops, sl_retired, sl_res, sl_linned, sl_cand,
  bo_map, bo_lockx, bo_rd, bo_pc, bo_txn, bo_opi, bo_tries, bo_undos,
  bo_unlocks, bo_res, bo_cmap, bo_lastres

sl_vars == <<sl_nxt, sl_nkey, sl_nlev, sl_val, sl_ready, sl_nalloc, sl_pc, sl_op,
             sl_l, sl_nops, sl_retired, sl_res, sl_linned, sl_cand>>
bo_vars == <<bo_map, bo_lockx, bo_rd, bo_pc, bo_txn, bo_opi, bo_tries, bo_undos,
             bo_unlocks, bo_res, bo_cmap, bo_lastres>>
vars == <<rideable, sl_vars, bo_vars>>

S == INSTANCE FraserSkipList WITH
       Ops <- SkipOps,
       nxt <- sl_nxt, nkey <- sl_nkey, nlev <- sl_nlev, val <- sl_val, ready <- sl_ready,
       nalloc <- sl_nalloc, pc <- sl_pc, op <- sl_op, l <- sl_l, nops <- sl_nops,
       retired <- sl_retired, res <- sl_res, linned <- sl_linned, cand <- sl_cand

B == INSTANCE TxnBoosting WITH
       Vals <- BoostVals,
       map <- bo_map, lockx <- bo_lockx, rd <- bo_rd, pc <- bo_pc, txn <- bo_txn,
       opi <- bo_opi, tries <- bo_tries, undos <- bo_undos, unlocks <- bo_unlocks,
       res <- bo_res, cmap <- bo_cmap, lastres <- bo_lastres

\* The rideable options of main.cpp that have a module here.
Rideables == {"FraserSkipList", "TxnBoostingLfHashTable"}

MC_Threads == {t1, t2}
MC_OneVal == {v1}
MC_BoostVals == {v1, v2}
Op(kind, key, val) == [kind |-> kind, key |-> key, val |-> val]
\* The boosted table, prefilled with key 1: t1 runs put 1 then get 2 (the
\* failing get aborts with put's undo), then remove 1 then insert 2; t2
\* runs get 1 then replace 1 (its own shared hold makes the try_lock fail,
\* as in TxnVerify's txn_write_a), then put 2 then replace 1.  A replace
\* ends each body, so nothing after it can fail and the body commits.
MC_InitMap == (1 :> v1) @@ (2 :> None)
MC_Txns ==
  (t1 :> << << Op("put", 1, v2), Op("get", 2, v1) >>,
            << Op("remove", 1, v1), Op("insert", 2, v2) >> >>) @@
  (t2 :> << << Op("get", 1, v1), Op("replace", 1, v2) >>,
            << Op("put", 2, v1), Op("replace", 1, v2) >> >>)

Init ==
  /\ rideable \in Rideables
  /\ S!Init /\ B!Init

SlStep(t) == rideable = "FraserSkipList" /\ S!ThreadNext(t) /\ UNCHANGED <<rideable, bo_vars>>
BoStep == rideable = "TxnBoostingLfHashTable" /\ B!Next /\ UNCHANGED <<rideable, sl_vars>>

Next ==
  \/ \E t \in Threads : SlStep(t)
  \/ BoStep
  \/ rideable = "FraserSkipList" /\ S!Done /\ UNCHANGED <<rideable, bo_vars>>

\* The skip list's threads keep running (FraserSkipList.FairSpec); the boosted table's transactions may abort
\* each other forever, so it gets no fairness.
FairSpec ==
  /\ Init /\ [][Next]_vars
  /\ \A t \in Threads : WF_vars(SlStep(t))

-----------------------------------------------------------------------------
(* The properties of the two instances; see each module.                  *)

\* FraserSkipList: keys increase strictly along every level.
LevelsSorted == S!LevelsSorted
\* FraserSkipList: the READY_FOR_FREE handoff retires a node once, and
\* only once no level reaches it.
SkipRetiredUnlinked == S!RetiredUnlinked
\* FraserSkipList: every put, insert and remove returns.
SkipCallsReturn == S!AllCallsReturn
\* TxnBoostingLfHashTable: the type invariant.
TypeOK == B!TypeOK
\* TxnBoostingLfHashTable: a key no transaction holds has its committed value.
UnlockedKeysCommitted == B!UnlockedKeysCommitted
\* TxnBoostingLfHashTable: committed transactions are serializable.
Serializable == B!Serializable
====
