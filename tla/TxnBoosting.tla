----------------------------- MODULE TxnBoosting -----------------------------
(***************************************************************************)
(* Transactional boosting of the lock-free hash table                     *)
(* (rideables/TxnBoostingLfHashTable.hpp) on the blocking EpochSys.        *)
(*                                                                         *)
(* Inside a transaction every operation first takes a semantic lock on    *)
(* its key from LockBucket (a std::shared_mutex per key): get takes it    *)
(* shared with try_lock_shared, put, insert, remove and replace take it   *)
(* exclusive with try_lock.  A failed try_lock calls EpochSys::tx_abort,  *)
(* which runs the undo log last-first with is_during_abort set (the undo  *)
(* operations take no lock and log no undo), then the unlock log, and     *)
(* throws.  tx_end runs the unlock log.  Both logs are emptied only by    *)
(* prologue() in the next tx_begin.                                        *)
(*                                                                         *)
(* The list under a key is abstracted to its value: every list operation  *)
(* is linearizable (LfList checks the same Harris-Michael list), and      *)
(* while a thread holds a key's lock no other transaction touches the key,*)
(* so taking the lock and doing the list operation is one step.  For the *)
(* same reason the undo log and the unlock log of tx_abort, and the       *)
(* unlock log of tx_end, run in one step.                                  *)
(***************************************************************************)
EXTENDS Naturals, Sequences, SequencesExt, FiniteSets

CONSTANTS
  Threads,     \* worker threads
  Keys,        \* keys of the map
  Vals,        \* values a put, insert or replace writes
  None,        \* the empty optional<V>
  NoTxn,       \* no exclusive holder
  InitMap,     \* the prefilled map
  Txns,        \* Txns[t]: the transaction bodies thread t runs, in order
  MaxRetries   \* bound: times the test's loop retries an aborted body

Ops == [kind : {"get", "put", "insert", "remove", "replace"}, key : Keys, val : Vals]
Entries == [kind : {"put", "remove"}, key : Keys, val : Vals \cup {None}]
Bodies == UNION {Range(Txns[t]) : t \in Threads}

ASSUME InitMap \in [Keys -> Vals \cup {None}] /\ MaxRetries \in Nat
ASSUME \A t \in Threads : \A i \in DOMAIN Txns[t] : Range(Txns[t][i]) \subseteq Ops

VARIABLES
  map,      \* map[k]: the value in the list for key k, or None
  lockx,    \* lockx[k]: the thread holding k's shared_mutex exclusively
  rd,       \* rd[k][t]: the shared holds of k's shared_mutex by t
  pc,       \* "idle" between transactions, "body" inside one, "aborting"
            \* from a failed try_lock to its tx_abort
  txn,      \* txn[t]: index in Txns[t] of the body being run
  opi,      \* opi[t]: index of the next operation of the body
  tries,    \* tries[t]: aborts of the current body so far
  undos,    \* undos[t]: EpochSys::undos[tid], as put/remove entries
  unlocks,  \* unlocks[t]: EpochSys::unlocks[tid], as [mode, key] entries
  res,      \* res[t]: the results the body's operations returned
  cmap,     \* history: the value of each key as last committed
  lastres   \* history: t's last committed body and its results

lock_vars == <<lockx, rd>>
thread_vars == <<pc, txn, opi, tries, undos, unlocks, res>>
vars == <<map, lock_vars, thread_vars, cmap, lastres>>

Body(t) == Txns[t][txn[t]]
Cur(t) == Body(t)[opi[t]]

Init ==
  /\ map = InitMap
  /\ lockx = [k \in Keys |-> NoTxn] /\ rd = [k \in Keys |-> [t \in Threads |-> 0]]
  /\ pc = [t \in Threads |-> "idle"] /\ txn = [t \in Threads |-> 1]
  /\ opi = [t \in Threads |-> 1] /\ tries = [t \in Threads |-> 0]
  /\ undos = [t \in Threads |-> <<>>] /\ unlocks = [t \in Threads |-> <<>>]
  /\ res = [t \in Threads |-> <<>>]
  /\ cmap = InitMap
  /\ lastres = [t \in Threads |-> [body |-> <<>>, res |-> <<>>]]

-----------------------------------------------------------------------------
(* LockBucket.                                                             *)

\* try_lock_shared: std::shared_mutex grants a shared hold unless the
\* mutex is held exclusively (also when the caller holds it: glibc's
\* tryrdlock then fails with EDEADLK).  Faulty variant: the writer is not
\* looked at.
try_lock_shared_ignores_writer(k) == TRUE
try_lock_shared(k) == lockx[k] = NoTxn

\* try_lock: an exclusive hold needs the mutex free of every holder, the
\* caller included (trywrlock on a mutex the caller holds fails).
try_lock(k) == lockx[k] = NoTxn /\ \A u \in Threads : rd[k][u] = 0

\* The lock is taken and its unlock added to the unlock log.
Acquire(t, mode, k) ==
  /\ IF mode = "shared"
     THEN rd' = [rd EXCEPT ![k][t] = @ + 1] /\ UNCHANGED lockx
     ELSE lockx' = [lockx EXCEPT ![k] = t] /\ UNCHANGED rd
  /\ unlocks' = [unlocks EXCEPT ![t] = Append(@, [mode |-> mode, key |-> k])]

\* Running the unlock log: unlock() and unlock_shared() of every entry.
Holds(t, mode, k) == {i \in DOMAIN unlocks[t] : unlocks[t][i] = [mode |-> mode, key |-> k]}
RunUnlocks(t) ==
  /\ lockx' = [k \in Keys |-> IF Holds(t, "exclusive", k) # {} THEN NoTxn ELSE lockx[k]]
  /\ rd' = [k \in Keys |-> [rd[k] EXCEPT ![t] = @ - Cardinality(Holds(t, "shared", k))]]

-----------------------------------------------------------------------------
(* Transactions (EpochSys, blocking).                                      *)

\* prologue(), called by tx_begin: clears cleanups, undos, unlocks, allocs.
\* Faulty variant: the unlock log of the last transaction is kept.
prologue_keeps_unlocks(t) == undos' = [undos EXCEPT ![t] = <<>>] /\ UNCHANGED unlocks
prologue(t) ==
  /\ undos' = [undos EXCEPT ![t] = <<>>]
  /\ unlocks' = [unlocks EXCEPT ![t] = <<>>]

tx_begin(t) ==
  /\ pc[t] = "idle" /\ txn[t] <= Len(Txns[t])
  /\ prologue(t)
  /\ pc' = [pc EXCEPT ![t] = "body"]
  /\ opi' = [opi EXCEPT ![t] = 1]
  /\ res' = [res EXCEPT ![t] = <<>>]
  /\ UNCHANGED <<map, lock_vars, txn, tries, cmap, lastres>>

\* An operation returns r after leaving m in the list and logging undo u.
Return(t, r, m, u) ==
  /\ map' = m
  /\ undos' = [undos EXCEPT ![t] = @ \o u]
  /\ res' = [res EXCEPT ![t] = Append(@, r)]
  /\ opi' = [opi EXCEPT ![t] = @ + 1]
  /\ UNCHANGED <<pc, txn, tries, cmap, lastres>>

InBody(t, kind) == pc[t] = "body" /\ opi[t] <= Len(Body(t)) /\ Cur(t).kind = kind

-----------------------------------------------------------------------------
(* TxnBoostingLfHashTable: each operation once its try_lock succeeded.     *)

get(t) ==
  LET k == Cur(t).key
  IN /\ InBody(t, "get") /\ try_lock_shared(k)
     /\ Acquire(t, "shared", k)
     /\ Return(t, map[k], map, <<>>)

\* put's undo: put(key, old) when it replaced a node, remove(key) when it
\* linked a new one.  Faulty variant: only the replacing branch logs one.
PutUndo_exists_only(k, old) ==
  IF old = None THEN <<>> ELSE <<[kind |-> "put", key |-> k, val |-> old]>>
PutUndo(k, old) ==
  IF old = None THEN <<[kind |-> "remove", key |-> k, val |-> None]>>
  ELSE <<[kind |-> "put", key |-> k, val |-> old]>>

put(t) ==
  LET o == Cur(t)  old == map[o.key]
  IN /\ InBody(t, "put") /\ try_lock(o.key)
     /\ Acquire(t, "exclusive", o.key)
     /\ Return(t, old, [map EXCEPT ![o.key] = o.val], PutUndo(o.key, old))

\* insert links a node only if the key is absent; its undo is remove(key).
insert(t) ==
  LET o == Cur(t)  absent == map[o.key] = None
  IN /\ InBody(t, "insert") /\ try_lock(o.key)
     /\ Acquire(t, "exclusive", o.key)
     /\ IF absent
        THEN Return(t, TRUE, [map EXCEPT ![o.key] = o.val],
                    <<[kind |-> "remove", key |-> o.key, val |-> None]>>)
        ELSE Return(t, FALSE, map, <<>>)

\* remove marks a present node; its undo is put(key, old).
remove(t) ==
  LET k == Cur(t).key  old == map[k]
  IN /\ InBody(t, "remove") /\ try_lock(k)
     /\ Acquire(t, "exclusive", k)
     /\ IF old = None
        THEN Return(t, None, map, <<>>)
        ELSE Return(t, old, [map EXCEPT ![k] = None],
                    <<[kind |-> "put", key |-> k, val |-> old]>>)

\* replace swaps a present node for a new one and logs no undo.
replace(t) ==
  LET o == Cur(t)  old == map[o.key]
  IN /\ InBody(t, "replace") /\ try_lock(o.key)
     /\ Acquire(t, "exclusive", o.key)
     /\ Return(t, old, IF old = None THEN map ELSE [map EXCEPT ![o.key] = o.val], <<>>)

-----------------------------------------------------------------------------
(* The end of a transaction.                                               *)

\* An undo entry run during abort: put(key, v) or remove(key), unlocked.
UndoStep(u, m) == [m EXCEPT ![u.key] = IF u.kind = "put" THEN u.val ELSE None]

\* The test's loop (TxnVerify) runs an aborted body again while it has
\* attempts left, then gives it up.
NextAttempt(t) ==
  IF tries[t] < MaxRetries
  THEN tries' = [tries EXCEPT ![t] = @ + 1] /\ UNCHANGED txn
  ELSE tries' = [tries EXCEPT ![t] = 0] /\ txn' = [txn EXCEPT ![t] = @ + 1]

\* The operation's try_lock (try_lock_shared for get) fails.  The thread
\* has yet to call tx_abort, and other threads may step in between.
lock_fail(t) ==
  LET k == Cur(t).key
  IN /\ pc[t] = "body" /\ opi[t] <= Len(Body(t))
     /\ IF Cur(t).kind = "get" THEN ~try_lock_shared(k) ELSE ~try_lock(k)
     /\ pc' = [pc EXCEPT ![t] = "aborting"]
     /\ UNCHANGED <<map, lock_vars, txn, opi, tries, undos, unlocks, res, cmap, lastres>>

\* tx_abort: the undo log runs last-first, then the unlock log (the
\* read-only branch, with no undo, runs the unlock log alone), and the
\* exception reaches the test's loop.
tx_abort(t) ==
  /\ pc[t] = "aborting"
  /\ map' = FoldRight(UndoStep, undos[t], map)
  /\ RunUnlocks(t)
  /\ pc' = [pc EXCEPT ![t] = "idle"]
  /\ NextAttempt(t)
  /\ UNCHANGED <<opi, undos, unlocks, res, cmap, lastres>>

\* commit_epilogue: the unlock log runs, and inside_txn is reset.
commit_epilogue(t) ==
  /\ RunUnlocks(t)
  /\ pc' = [pc EXCEPT ![t] = "idle"]

\* tx_end: the body has returned; both branches (no undo: owner_validate_reads
\* of an empty read set; else register, set_ready, commit) commit and end
\* in commit_epilogue.
WrittenKeys(t) == {k \in Keys : Holds(t, "exclusive", k) # {}}
tx_end(t) ==
  /\ pc[t] = "body" /\ opi[t] > Len(Body(t))
  /\ commit_epilogue(t)
  /\ cmap' = [k \in Keys |-> IF k \in WrittenKeys(t) THEN map[k] ELSE cmap[k]]
  /\ lastres' = [lastres EXCEPT ![t] = [body |-> Body(t), res |-> res[t]]]
  /\ txn' = [txn EXCEPT ![t] = @ + 1]
  /\ tries' = [tries EXCEPT ![t] = 0]
  /\ UNCHANGED <<map, opi, undos, unlocks, res>>

\* Every thread has run all its bodies.
Done ==
  /\ \A t \in Threads : pc[t] = "idle" /\ txn[t] > Len(Txns[t])
  /\ UNCHANGED vars

Next ==
  \/ \E t \in Threads :
       \/ tx_begin(t) \/ get(t) \/ put(t) \/ insert(t) \/ remove(t) \/ replace(t)
       \/ lock_fail(t) \/ tx_abort(t) \/ tx_end(t)
  \/ Done

Spec == Init /\ [][Next]_vars

-----------------------------------------------------------------------------
(* Properties.                                                             *)

TypeOK ==
  /\ map \in [Keys -> Vals \cup {None}] /\ cmap \in [Keys -> Vals \cup {None}]
  /\ lockx \in [Keys -> Threads \cup {NoTxn}] /\ rd \in [Keys -> [Threads -> Nat]]
  /\ pc \in [Threads -> {"idle", "body", "aborting"}]
  /\ \A t \in Threads : /\ Range(undos[t]) \subseteq Entries
                        /\ Range(unlocks[t]) \subseteq [mode : {"shared", "exclusive"}, key : Keys]

\* A key no transaction holds exclusively has its last committed value:
\* an aborted transaction's undo log (put's put or remove, insert's remove,
\* remove's put), run by tx_abort before the unlock log, takes back every
\* write the body made before the try_lock that failed.
UnlockedKeysCommitted ==
  \A k \in Keys : lockx[k] = NoTxn => map[k] = cmap[k]

\* The semantic locks make the table's transactions serializable: at each
\* tx_end the committed map changes as if the body ran alone on it, and
\* the body's operations returned what they would return then.
Abs == INSTANCE TxnMap WITH amap <- cmap, ares <- lastres
Serializable == Abs!Spec
====
