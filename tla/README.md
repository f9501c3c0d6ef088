# TLA+ models of Medley's transactional core

This directory holds the TLA+ models of Medley (`src/persist`): its
nonblocking transactions over annotated words, the descriptor engine that
installs, helps, commits and uninstalls descriptors, and the two epoch systems
(`EpochSys`, blocking, and `nbEpochSys`, nonblocking) that decide which epoch a
transaction's writes persist in.

## The system and how its parts interact

* **Annotated word** (`lin_var`, `atomic_lin_var`, `EpochSys.hpp` and
  `api/Recoverable.hpp`). A word is a pair `(val, cnt)`. `cnt % 4 = 1` means
  `val` points to a transaction descriptor; otherwise `val` is a plain value.
  A plain CAS adds 4 to `cnt`. Installing a descriptor adds 1, and
  uninstalling it leaves `old_cnt + 4`.
* **Descriptor** (`sc_desc_t`). Each thread owns one descriptor and reuses it
  for every transaction. Its `tid_sn` packs a sequence number and a status:
  in preparation, in progress, committed or aborted. It also holds an epoch
  field, a read set and a write set.
* **Descriptor engine** (`EpochSys.cpp` 11-168). This is the owner's
  validation, commit and uninstall. It also includes `helper_try_complete`,
  which any thread runs when it meets another thread's descriptor in a word.
* **Epoch coordinator**. `tx_begin`, `tx_end` (with the `set_unready` retry
  when the epoch moved), `tx_abort`, and `begin_op`/`end_op`/`abort_op` around
  the single-word `CAS_verify`. It also has the global epoch, `check_epoch`,
  `set_epoch`, and the two `on_epoch_end` variants:
  * `EpochSys` waits until no thread is active in the ending epoch;
  * `nbEpochSys` calls `try_abort` on every descriptor of that epoch.
* **Epoch advancer**. A dedicated thread repeatedly runs `set_epoch(c+1)`
  and then `on_epoch_end(c+1)`. Its source, `EpochAdvancers.hpp`, is not in
  the repository, so its loop is modelled from `spec.md` section 4.3.
* **Persistence and recovery** (`nbEpochSys`, `EpochSys.cpp` 1237-1716 and
  1730-1960). A payload block (`PBlk`) carries an epoch, a type (INIT,
  ALLOC, DELETE), an id and the `(tid, sn)` of the transaction that tagged
  it. A transaction allocates payloads and retires old ones as it runs. At
  `tx_end` it tags them with its epoch: `register_alloc_pblk` for new
  payloads, and `prepare_retire_pblk` for old ones, which creates an
  *anti-node* (a DELETE copy with the old id). It puts them in its
  to-be-persisted bucket of that epoch. `local_persist` writes back the
  bucket of the thread's previous epoch. The advancer's `on_epoch_end(c)`
  aborts each lagging transaction of `c-1` and writes back its bucket of
  `c-1`. After a crash, `recover` takes `epoch_cap = max_epoch - 2`. It keeps
  an ALLOC payload if three things hold: its epoch is at most the cap, its
  transaction committed in the persisted descriptor, and no counted
  anti-node deletes its id.
* **Transactional boosting** (`rideables/TxnBoostingLfHashTable.hpp`, one of
  the comparison systems). This is a transient hash table whose transactions
  run on the blocking `EpochSys`. It does not use descriptors. Each operation
  in a transaction takes a semantic lock on its key: `get` takes a
  `std::shared_mutex` shared, and the others take it exclusive. The lock is
  a `try_lock`, and a failure calls `tx_abort`. The operation logs an undo
  closure (`addToUndos`) and an unlock closure (`addToUnlocks`). `tx_abort`
  runs the undos last-first, with `is_during_abort` set so that they take no
  lock, and then runs the unlocks. `tx_end` runs the unlocks.
* **Fraser's skip list** (`rideables/FraserSkipList.hpp`). This is a
  lock-free skip list whose `next` words carry a mark bit and whose values
  sit in boxes that a CAS replaces. `get` uses a weak search, which reads
  one pointer at a time and follows marked nodes. `put`, `insert` and
  `remove` use a strong search, which unlinks marked nodes level by level.
  `remove` CASes the value box to null and then marks every level of the
  node (`mark_deleted`). The thread whose unlink fails at the top level and
  the thread that finishes the delete hand the node over through
  `READY_FOR_FREE` (`check_for_full_delete`), so it is retired once.
* **The driver** (`main.cpp`). A run registers every rideable and builds the
  one named on the command line.

## Modules

| module | what it is |
|---|---|
| `Descriptor` | Pure operators for the encodings. Covers `is_desc`, the status predicates and `match`, and the `(expected, desired)` pair of every status CAS (`abort`, `commit`, `set_ready`, `set_unready`). Also covers `increment_sn_reset_status`, the value an uninstall writes, and the read-set and write-set operations (`add_to_write_set`, `add_to_read_set`, `addToReadSet`, ...). |
| `MedleyTxn` | The state machine of threads, nested helpers and the advancer. Each action is one access to a shared word, plus the thread-local work up to the next shared access. |
| `AtomicTxn` | The abstract specification: what the engine promises its callers. |
| `MC_MedleyTxn` | Model values and symmetry for TLC. |
| `SlabHashTable` | `LockfreeSlabHashTable` (`LockfreeSlabHashTable.hpp`): the chain of slabs with their `in_use_amount` watermarks, the owner's `put`, `remove` and `reset`, and a helper's iterator. |
| `AtomicMap` | The abstract specification of a Medley map: every `get`, `put`, `insert`, `remove` and `replace` takes effect atomically between its call and its return. |
| `LfList` | One bucket of `MedleyLfHashTable` (`MedleyLfHashTable.hpp`) used outside transactions: a Harris-Michael list with marked `next` words, `findNode` with its helping unlink, and `put`, `insert`, `remove`, `replace` and `get`. |
| `NbPersist` | `nbEpochSys` persistence and `recover`, under `txMontageLfHashTable` transactions that put or remove one key. A crash can happen in any state. |
| `TxnBoosting` | `TxnBoostingLfHashTable` inside transactions on the blocking `EpochSys`. Covers the `LockBucket` locks, the five operations with their undos, `tx_begin` (`prologue`), `tx_abort`, and `tx_end` with `commit_epilogue`. |
| `TxnMap` | The abstract specification of a transactional map: a committed body takes effect at one step, with the results it would have alone. |
| `FraserSkipList` | `FraserSkipList` (`FraserSkipList.hpp`): the levels of `next` words with marks, the value boxes, the weak search, the strong search with its unlinks, `mark_deleted`, `do_full_delete`, the `READY_FOR_FREE` handoff, and `get`, `put`, `insert` and `remove` (`do_update`). It refines `AtomicMap`. |
| `MC_Rideables` | The driver's choice of rideable: the skip list and the boosted table as a disjoint union, chosen in the initial state. |
| `MC_EngineSlab` | `MC_MedleyTxn` together with the slab table (`SlabHashTable`), in one state space. |
| `MC_SlabHashTable`, `MC_LfList`, `MC_NbPersist`, `MC_FraserSkipList` | Model values, symmetry and workloads for TLC. |

**State.** `MedleyTxn`'s variables are the code's fields:

* `cell` holds the words;
* `tid_sn`, `epoch`, `read_set` and `write_set` make up the descriptor;
* `global_epoch` is the global epoch;
* `epochs` is `epochs[tid]`, the tracker registration;
* `inside_txn` and `rolling` are the flags.

Program counters hold the control state:

* `pc` and `ol` are the owner's program counter and locals;
* `hpc` and `hl` are those of a nested `helper_try_complete`, which returns
  to `hl.ret`;
* `apc` and `al` are the advancer's.

Two history variables serve the properties and the refinement:

* `readyValid` records whether the reads still held when `set_ready`
  succeeded;
* `drained[u]` is the last epoch that `on_epoch_end` persisted for `u`.

**Actions.** Every action is named after the code it models, and
`PROJECT.json` "map" gives the lines for each. Some notes:

* The read-only path of `tx_end` is one step. Its validation changes no
  shared state.
* `set_ready` and `set_unready` each load and CAS `tid_sn`. The model merges
  the two accesses, since they give the same outcome.
* `nbtc_CAS` stands for both `pub_point` and `lin_point`, which the data
  structures pass together.
* `Liveness` selects between `EpochSys` and `nbEpochSys`, as
  `Recoverable.cpp` does.

**NbPersist.** `cache[b]` is a block's header as the program sees it.
`vers[b]` is the set of headers NVM may hold for it:

* a flush (`clwb` and `sfence` of a bucket) sets it to `{cache[b]}`;
* any other write adds the new value, because the cache may write a dirty
  line back at any time.

Descriptors are handled the same way (`dcache`, `dvers`). If `EvictDescs`
is FALSE, a descriptor line reaches NVM only when its bucket is flushed.
`gvers` holds the values of the epoch container.

A crash is not an action. Each property quantifies over `Crashes`, every
NVM image the current state can leave: one header per block, one
descriptor per thread, and one epoch. It runs `Recovered` on each of them.
So "a crash here" is checked in every reachable state.

The variables that model the code:

* `word[k]` is the key's node word (`pay`, `own`, `new`): the payload
  reachable from the key, the descriptor installed on it, and the payload
  it would install;
* `palloc`, `rpay` and `ranti` are `pending_allocs` and `pending_retires`;
* `tbp` is `to_be_persisted`;
* `epochs` and `last` are `epochs[tid]` and `last_epochs[tid]`.

`tx_end` is split at its shared accesses:

* `tx_end_epoch`: the epoch load, `local_persist`, `set_up_epoch` and the
  descriptor registration;
* `tx_end_register`: the retires and allocations;
* `set_ready`, `check_epoch` (which includes the `set_unready` retry),
  `commit`, and the two epilogues.

`hist`, `clog` and `resp` record every transaction's key, kind, outcome,
epoch, commit order and responses, for the properties. The persist tracker
(Mindicator) is not in the repository. The model's advancer visits every
thread, which is what `next_thread_to_persist` gives when no thread has
persisted ahead.

**TxnBoosting.** The variables are the following:

* `map` holds the list's value per key;
* `lockx` and `rd` hold the exclusive holder and the shared holds of each
  key's `shared_mutex`;
* `undos` and `unlocks` are `EpochSys::undos[tid]` and `unlocks[tid]`;
* `txn`, `opi` and `tries` follow the test's loop over its bodies.

Each operation that gets its lock is one step, made of its `try_lock` and its
list operation. A failed `try_lock` is a step of its own (`lock_fail`, `pc`
becomes "aborting") before `tx_abort`, because other threads may run before
the failing thread calls `tx_abort`. Two threads can therefore both fail
before either releases its keys.
This is sound for two reasons: the list is linearizable (`LfList` checks the
same algorithm), and no other transaction can touch a key while its lock is
held. For the same reason, `tx_abort` runs its undo log and its unlock log in
one step. `tx_end` covers both of its branches: the one with no undo and the
one that registers in the epoch. For boosting, both commit, because nothing
installs a descriptor that a helper could abort. They end in
`commit_epilogue`'s unlocks.

`cmap` and `lastres` are history variables. At `tx_end` the keys the body
holds exclusively take their current values in `cmap`, and the body and its
results go to `lastres`.

**FraserSkipList.** Node 0 is the head, nodes `1..MaxNodes` are allocated
by `put` and `insert`, and node `MaxNodes+1` is the tail. The variables:

* `nxt[n][i]` is the `next` word of level `i`: a pointer and a mark;
* `nkey`, `nlev` and `val` are a node's key, height and value box (a box
  is a record, so a CAS on it compares the box, not the value);
* `ready[n]` is `READY_FOR_FREE`, and `retired` counts each node's retires;
* `pc`, `op` and `l` are a thread's program counter, call and locals.

Each step is one shared access. The weak search (`ws`) reads one pointer.
The strong search is `ss_lvl`, `ss_scan` (one read) and `ss_swing` (the
unlink CAS of a level). `mark_deleted` marks one level per step.
`do_update` is split at its CASes: `u_check` (the found node's box),
`u_vcas` (the box CAS), `u_link` (level 0), `u_level` and `u_plumb` (the
upper levels, with the re-search when a predecessor moved), and `u_final`
(the `READY_FOR_FREE` check after linking). `remove` is `r_found`, `r_cas`
and `r_unlink`. The refinement map takes the logical map from the boxes of
the nodes linked at level 0, with the same `cand`/`linned` history as
`LfList`.

## Refinement

`MedleyTxn` instantiates `AtomicTxn` with this mapping:

* the logical value of a word is the descriptor's `new_val` if its owner
  committed, and `old_val` otherwise;
* a word holding a descriptor is locked by its owner;
* the phase is "ready" from a successful `set_ready` until the outcome,
  "closed" afterwards, and "open" otherwise.

`Refinement == Abs!ASpec` is checked as a property. It says two things:

* a commit applies every write at one step, and only while the transaction
  holds every word it writes;
* reads are checked at `set_ready`.

`TxnBoosting` instantiates `TxnMap` with `amap <- cmap` and
`ares <- lastres`. `Serializable == Abs!Spec` is checked as a property. At
each `tx_end`, it requires the committed map to change as if the body ran
alone on it, and the body's recorded results to be that run's results. An
abort must leave both unchanged.

## Runs

| run | bounds | checks | result |
|---|---|---|---|
| atomic | 2 threads, 2 words, values {0,1}, 1 operation per thread, 2 nbtc calls, epochs 3 only | TypeOK, LiveWritesInstalled, Refinement | pass, about 980k states |
| rounds | `MC_EngineSlab`: 2 operations per thread, 1 nbtc call; with the slab table in the same state space (`amount` 3, 2 slabs, 5 owner operations, 1 helper, 2 iterations) | NoOrphanDescriptor, LiveWritesInstalled, SlabTypeOK, SlabsAfterLastEmpty, EveryStableEntryVisited | pass, about 3.0M states |
| nb_epoch | nbEpochSys, epochs 3..4, 1 nbtc call | EpochDrainSafe, Refinement | pass, about 740k states |
| b_live | EpochSys (blocking), epochs 3..4, 1 nbtc call, fairness, no symmetry | EpochsEventuallyDrain, EpochDrainSafe, Refinement | pass, about 320k states |
| store_retry | epochs 3 only | AddToWriteSetAsserts | violation (finding) |
| full_slab | `amount` 3, 2 slabs, 3 owner operations | IteratorInBounds | violation (finding) |
| live | 2 threads, keys {1,2}, 1 value, 2 calls per thread, 2 nodes, 1 spurious CAS failure, fairness, no symmetry | ListSorted, RetiredUnlinked, AllCallsReturn, Linearizable | pass, about 550k states |
| persist | NbPersist: t1 updates k1 and then k2, t2 updates k2, 4 blocks, epochs 3..5 | TypeOK, ConsistentCut | pass, about 1.4M states |
| desc_evict | t1 runs 2 transactions on k1 and t2 one on k2, with descriptor lines written back by the cache too | NoPhantom | violation (finding) |
| anti_erase | shared key, t1 runs 2 transactions, 5 blocks | ConsistentCut | violation (finding) |
| rideables | `MC_Rideables`: either the skip list (2 threads, keys {1,2}, 1 value, 2 calls per thread of `put` or `remove`, 2 nodes, 2 levels, fairness) or the boosted table (2 threads, keys 1 (prefilled) and 2, 2 bodies of 2 operations per thread, 1 retry) | LevelsSorted, SkipRetiredUnlinked, SkipCallsReturn, TypeOK, UnlockedKeysCommitted, Serializable | pass, about 375k states |
| skip_get | `MC_FraserSkipList`: all four operations, 2 threads, keys {1,2}, 1 value, 2 calls per thread, 2 nodes, 2 levels | Linearizable | violation (finding) |

What the properties say:

* **LiveWritesInstalled**: while a transaction is in preparation or in
  progress, every word in its write set holds its descriptor over the
  entry's counter. `add_to_write_set` and `add_to_read_set` rely on this
  when they assert `aborted()`. It must survive helpers of an older sn of the
  same descriptor.
* **NoOrphanDescriptor**: a descriptor in a word is always one that its
  owner's current write set names, over the right counter. This includes the
  descriptor after reinit, and after failed installs that remove the entry.
* **EpochDrainSafe**: no commit CAS happens after `on_epoch_end` has
  persisted the transaction's epoch for its thread. Otherwise the commit
  would be missing from the persisted epoch.
* **EpochsEventuallyDrain**: the blocking advancer's spin on `no_active`
  always ends.
* **SlabsAfterLastEmpty**: outside the middle of `reset`, every slab before
  `last` is full and every slab after it is empty. `allocate` relies on it
  when it moves to `last` and when `reset` stops at the first empty slab.
* **EveryStableEntryVisited**: a helper's iteration that ends within one
  transaction instance (no `reset` in between) yields every entry that was
  live when it began and is still live. The iterator snapshots the watermark
  per slab, so this races the owner's `allocate` and `allocate_finalize`.
* **Linearizable**: `LfList` implements `AtomicMap` under a mapping whose
  map is the key/value of the unmarked reachable nodes and whose `seen` is
  a history of what each pending call's key held. The mapping makes a mark
  CAS the linearization point of `remove`, the link CAS that of `insert` and
  `put` of a new key, the value CAS that of `replace`/`put` of a present
  key, and a read answers from a value its key held during the call.
* **ListSorted**: keys strictly increase along the list from the head,
  through marked nodes too, under helping unlinks and spurious CAS failures.
* **RetiredUnlinked**: a node is retired at most once and only after no
  word reachable from the head points to it (`findNode`'s unlink and
  `remove`'s cleanup race to unlink the same node).
* **AllCallsReturn**: under weak fairness of each thread, every call
  returns. The list is lock-free, and with a bounded number of calls and
  spurious failures no thread can be starved for ever.

* **LevelsSorted**: along every level of the skip list, keys strictly
  increase from the head, through marked nodes too. `u_level` links an upper
  level after other threads may have inserted or unlinked around the
  predecessor it found, which is why it re-checks and re-searches.
* **SkipRetiredUnlinked**: a skip-list node is retired at most once, and
  only when no level reachable from the head points to it. The node's
  top-level unlink, `do_full_delete` and `u_final`'s check race for the
  `READY_FOR_FREE` handoff.
* **SkipCallsReturn**: under weak fairness of each skip-list thread, every
  `put` and `remove` returns, including the re-searches of `u_plumb`.

* **UnlockedKeysCommitted**: a key that no transaction holds exclusively
  has the value of the last commit that wrote it. After `tx_abort`, the undo
  log (put's `put` or `remove`, insert's `remove`, remove's `put`) has taken
  back every write the body made before the `try_lock` that failed.
* **Serializable**: the refinement above. It fails if a `get` could read a
  key that another transaction holds exclusively, or if a commit could
  publish a write that did not happen alone.

* **NoPhantom**: after a crash in any state, every value recovery returns
  was written by a transaction that committed. ConsistentCut implies it.
  NoPhantom is the smaller statement, so the `desc_evict` run checks it. It covers `tx_end`'s abort
  paths, the `(tid, sn)` tags and recovery's descriptor check, whatever
  lines the cache wrote back.
* **ConsistentCut**: buffered durable linearizability. After a crash in any
  state, recovery returns the map produced by some prefix of the committed
  transactions. The prefix must meet three conditions:
  * it holds every transaction committed in an epoch up to the cap;
  * it is closed under real-time order;
  * it is closed under commit order on each key.

  This races every write-back against `on_epoch_end`, the `set_unready`
  retry and commits in a flushed epoch.

The slab bounds: `amount` 3 makes a slab fill and the chain grow to a
second slab within 5 operations; 2 iterations let one iteration start before
a `reset` and one after. The code's own instances have `amount` 102 and 127,
which changes no control path. The list bounds: keys 1 and 2 give a node
before and after the other; 2 nodes let a remove and a re-insert of the
same key coexist with an unlinked but unretired node; one spurious failure
is enough to exercise every retry branch. One value suffices for
Linearizable: a wrong answer shows as present against absent, and its
mutant (mark the successor instead of the target) is caught at this bound.

The skip-list bounds: 2 levels let a node be unlinked at level 0 while
still linked at level 1, which is what the `get` finding needs; 2 nodes let
a removed node and a new node of the same key coexist. `rideables` runs
`put` and `remove` only. `insert` is `do_update` with a different return
value, so it adds no control path that `put` does not take, and with it the
run takes about five minutes. `skip_get` runs all four operations.

`MC_Rideables` checks the skip list and the boosted table in one run: the
initial state chooses the rideable, as `main.cpp` does from its arguments,
and each branch steps only its own variables. `MC_EngineSlab` does the same
for the engine and the slab table. The lock-free hash table keeps its own
run: together with the skip list the state graph takes longer than five
minutes.

`live` uses weak fairness per thread: each thread is an OS thread that keeps
running, and no step of the list waits for another thread.

Why the bounds are enough:

* Two threads are enough for a helper to meet a descriptor, help it, and
  race its owner.
* Two words are enough for a write set of two entries and for a read of one
  word with a write of another.
* With two operations per thread, a descriptor is reused while a helper of
  its old sn is still running.
* Epochs 3..4 give one epoch end, which races every step of a commit.

The NbPersist bounds:

* The cap is `max_epoch - 2`. Epochs 3..5 are the fewest that let
  recovery keep anything, and recovery can then cap at 3 or 4.
* Retired payloads are never reclaimed in the model, so blocks run out.
  In `persist`, `Access[t][n]` names the key of each transaction, so that
  three transactions fit in 4 blocks.
* t1's second transaction runs on t2's key. So helpers and the advancer
  abort transactions, and a transaction follows an abort of the same thread.
  That second case is where the abort's unflushed epoch resets matter.

The boost workload (in `MC_Rideables`) calls all five operations, and put,
insert and remove on both branches:

* t1 runs `put k1; get k2`, then `remove k1; insert k2`;
* t2 runs `get k1; replace k1`, then `put k2; replace k1`.

A `get` that fails while t2 holds k2 aborts t1 with put's undo. t2's first
body takes k1 twice, so it aborts on every attempt (see Observations).
Every body ends with its only `replace` or has none, so nothing can abort a
body after its replace. The code's tests run bodies of up to 10 random
operations on a million keys. Two threads and two keys are enough for every
pair of lock modes to conflict. One retry shows a body rerun after an undo.

Symmetry over blocks is sound: no definition names a block.

Symmetry over threads and words is sound: no definition singles out a model
value. `b_live` drops symmetry because it checks liveness.

In `MC_Rideables` only the skip-list threads get weak fairness: they are OS
threads and the list is lock-free. The boosted transactions get none,
because they can abort each other for ever (see Observations).

**Fairness.** `FairSpec` gives weak fairness to each thread (its own steps
and its nested helper) and to the advancer. The workers are OS threads that
keep running, and the advancer is a dedicated thread. No strong fairness is
assumed.

## Findings

1. **store_retry.** When `nbtc_store`'s install CAS fails, the loop retries
   but keeps the write-set entry of the failed attempt. The retry's
   `add_to_write_set` then sees a mismatch and reaches `assert(aborted())` on
   a live transaction (EpochSys.hpp:343). Release builds abort the
   transaction instead, so the retry can never succeed. `nbtc_CAS` removes
   the entry in the same situation. The repository's data structures do not
   call `nbtc_store`.
2. **full_slab.** When a slab is exactly full (`amount` entries), the
   iterator's `assert(curr_idx < amount-1)` (LockfreeSlabHashTable.hpp:172)
   fails after the last entry, and with assertions off `operator++` follows
   a null `next` (lines 199-200). A transaction with `amount` or more reads
   or writes, whose sets are iterated by a helper or by validation, reaches
   it.

3. **desc_evict.** `tx_begin` bumps the persistent descriptor's sn
   (`reinit`, EpochSys.cpp:431) with a plain store. The cache may write that
   line back before `local_persist` writes back the epoch resets that the
   previous aborted transaction left in `TBP[last_epoch]`. The comment at
   EpochSys.cpp:1361-1369 rejects exactly this order ("If T1 doesn't write
   back TBP[c-1] before updating its descriptor, the recovery ... may think
   those payloads are valid"). TLC finds it in 14 steps: recovery after
   epoch 5 returns the aborted transaction's value.
4. **anti_erase.** `recover` erases the id of every premature anti-node
   from `deleted_ids` (EpochSys.cpp:1830). Two anti-nodes can carry the
   same id:
   * `put` retires the old payload right after its linearizing CAS, inside
     the transaction (txMontageLfHashTable.hpp:267);
   * a helper aborts that transaction;
   * a second transaction retires the same payload and commits.

   If the aborted anti-node still has its epoch in NVM, the erase cancels
   the committed deletion. Recovery then returns both the old and the new
   payload of the key. No cache eviction is needed.
5. **skip_get.** `FraserSkipList::get` runs the weak search, which follows
   the `next` words of marked nodes (FraserSkipList.hpp:190-214). A strong
   search unlinks a removed node at level 0 while it is still linked at
   level 1, so its level-0 word is frozen. A later `put` of the same key
   links a new node at level 0 after the predecessor. A `get` that walks
   level 1 reaches the removed node and follows its frozen level-0 word
   past the new node. TLC's 36-state trace has t2's `put(2)` return and
   then t2's own `get(2)` return empty, which no atomic map allows.

**Observations with no run of their own.**

* `TxnBoostingLfHashTable::replace` (lines 358-409) locks its key but logs
  no undo. So if a later operation of the same body fails its `try_lock`,
  `tx_abort` leaves the replaced value in the table. No transaction
  committed that value, yet later transactions read it. With t2's second
  body changed to `replace k1; put k2` (and t1's first to
  `get k2; put k1`), TLC finds `UnlockedKeysCommitted` violated in a
  12-state trace. `rideables` keeps replace last in every body.
* A body that takes the same key twice never commits. For example, `get k`
  followed by `replace k` leaves a shared hold, and `try_lock` on the same
  `std::shared_mutex` then fails for its own holder. This is
  TxnVerify's `txn_write_a` (TxnVerify.hpp:258-280). With this table it
  aborts on every attempt, and after 1000 attempts it reaches `assert(0)`.
  In `rideables`, t2's first body is given up after its retry.
* Two bodies that take the same two keys exclusively in opposite orders
  abort each other: t1's `remove k1; insert k2` and t2's `put k2; replace
  k1` each fail their second `try_lock`. `tx_abort` frees both keys, and
  TxnVerify retries at once with no backoff, so the same interleaving can
  repeat on every attempt. In `rideables` both bodies reach this mutual abort and
  are given up after their retry. Nothing in the code makes progress
  certain, so no liveness property is claimed for boosting.
* In `TxnBoostingFraserSkipList`, only `get` and `remove` take a semantic
  lock. `put` and `insert` (`do_update`) take none, and `replace` only
  returns an empty result. So a put from one transaction can overwrite a key
  that another holds, and the holder's abort then overwrites the committed
  put. The wrapper is therefore not modelled; the skip list under it is
  (`FraserSkipList`).
* `FraserSkipList::replace` asserts `"replace not implemented!"` with a
  string literal, which is never false, so it returns an empty result and
  changes nothing. The model leaves it out.
* `tx_end` (EpochSys.cpp:1601) and
  `owner_try_complete` (EpochSys.cpp:77) check the epoch and then commit in a
  separate CAS. So the commit CAS can happen after the global epoch advanced,
  whereas `spec.md` section 8 says the epochs are equal. `MedleyTxn` states
  this as `CommitInCurrentEpoch`, and TLC violates it under the `nb_epoch`
  bounds. No run lists it: the gap is harmless (below), and the twelve runs
  are spent on questions about real faults. `EpochDrainSafe`, checked in `nb_epoch` and `b_live`, shows that
  this is harmless for persistence.

## Not modelled (yet)

* **The data structures inside transactions.** `LfList` models
  `MedleyLfHashTable` outside a transaction, where `nbtc_load` and
  `nbtc_CAS` are a load and a single-word CAS; `MedleyTxn`'s `Refinement`
  shows the engine gives exactly that. Inside a transaction, deferred
  cleanups and `txn_tretire` are not modelled. The txMontage structures
  other than the hash table (`txMontageFraserSkipList`) are not modelled.
  In `FraserSkipList`, the retire of replaced value boxes is not modelled
  (it is the tracker's, and no property reads the boxes after they are
  replaced).
* **Plain stores and loads.** `store`, `store_verify`, `load_verify` and the
  TSX path of `CAS_verify`; the repository's structures barely use them.
* **Bookkeeping.** The reclamation tracker, `to_be_freed` and `local_free`
  (retired payloads are never reused in NbPersist), and pending reads.
  Undos and unlocks are modelled only in `TxnBoosting`, the only user of
  them in the repository.
* **Recovery details.** More than one recovery thread (the barriers only
  merge sets), UPDATE blocks, `EpochSys::recover` of the blocking system,
  the data structures' own `recover`, and the program after recovery.
  `reset()` sets the epoch back to `INIT_EPOCH`, while recovered payloads
  keep larger epochs. A later retire of one of them would throw
  `OldSeeNewException`. This is listed as a hazard with no property.
* **Comparison systems and tests.** OneFile, POneFile, TDSL and LFTT are
  separate published designs, each a whole STM or transactional structure,
  and are not modelled. `TxnBoostingFraserSkipList` is left out for the
  reason given in the Observations. Of the tests, only the retry loop of
  TxnVerify is in `TxnBoosting`, and of the driver only its choice of
  rideable (`MC_Rideables`). TPC-C and the timing loops are not modelled.
* **Why the project stops here.** The twelve runs check twelve different
  questions, and every merge that was tried goes past five minutes of TLC
  (for example `nb_epoch` without symmetry, `atomic` with four epochs, or
  `atomic` and `rounds` together). Each remaining part would need a run of
  its own, and all twelve are used. The boosting skip list and TxnVerify's routines on the boosting
  table would each be a violation run. With TxnVerify's routines, every
  write routine takes its key twice, so only read-only bodies would ever
  commit. The Medley skip list and queue would need new modules with passing
  runs.
