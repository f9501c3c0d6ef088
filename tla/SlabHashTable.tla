---------------------------- MODULE SlabHashTable ----------------------------
(***************************************************************************)
(* LockfreeSlabHashTable (src/utils/LockfreeSlabHashTable.hpp): the read  *)
(* and write sets of a Medley descriptor.  One owner thread puts, removes *)
(* and resets; helper threads only iterate (begin, ++, *, deleted).       *)
(*                                                                         *)
(* Nodes live in a chain of slabs of Amount nodes each.  A slab's         *)
(* in_use_amount is a watermark: the owner builds a node at the           *)
(* watermark (allocate) and raises it after linking (allocate_finalize).  *)
(* A removed or replaced node stays in its slab with the mark bit set in  *)
(* its next pointer.  The hash buckets are read and written only by the   *)
(* owner, so the bucket lists are abstracted to `where`: the slot of the  *)
(* unmarked node findNode returns for a key.                              *)
(*                                                                         *)
(* Every step is one shared access (or one owner step whose other writes  *)
(* touch only owner-private memory) and the local work after it.          *)
(***************************************************************************)
EXTENDS Integers, Sequences, FiniteSets

CONSTANTS
  Keys,      \* the keys put in the table
  Vals,      \* the values stored with them
  NullKey,   \* the key of a default-constructed Node
  NullVal,   \* the value of a default-constructed Node
  Helpers,   \* threads that iterate the table
  Amount,    \* the template parameter `amount`: nodes per slab
  MaxSlabs,  \* bound: slabs the allocator creates
  MaxOps,    \* bound: put/remove/reset calls of the owner
  MaxIters   \* bound: iterations each helper starts

ASSUME Amount >= 2 /\ MaxSlabs >= 1

VARIABLES
  inUse,     \* inUse[s]: slab s's in_use_amount; Len(inUse) slabs exist
  slab,      \* slab[s][i]: node i of slab s, [key, val, mark]
  last,      \* SlabAllocator::last (owner only)
  where,     \* where[k]: slot of the bucket node with key k, or NoSlot
  opc,       \* the owner's program counter
  ol,        \* the owner's locals: [key, val, tmp, c]
  ops,       \* owner calls made
  hpc,       \* hpc[h]: the helper's program counter
  it,        \* it[h]: the ItemIterator [slab, idx, snap]
  yielded,   \* yielded[h]: entries the current iteration returned
  iters,     \* iterations started per helper
  gen,       \* history: number of resets started
  startLive, \* history: the live entries when the iteration began
  igen       \* history: gen when the iteration began

vars == <<inUse, slab, last, where, opc, ol, ops, hpc, it, yielded, iters,
          gen, startLive, igen>>
helper_vars == <<hpc, it, yielded, iters, startLive, igen>>

Idx == 0 .. Amount - 1
Node == [key : Keys \cup {NullKey}, val : Vals \cup {NullVal}, mark : BOOLEAN]
\* Node(): key(), next() (a null, unmarked pointer), val()
DefaultNode == [key |-> NullKey, val |-> NullVal, mark |-> FALSE]
NewSlab == [i \in Idx |-> DefaultNode]
NoSlot == <<0, 0>>
Slots == (1 .. MaxSlabs) \X Idx

\* The slabs an iterator reaches: it follows next only out of a full slab.
Reached == { s \in DOMAIN inUse : \A r \in 1 .. s - 1 : inUse[r] = Amount }

\* The nodes a helper can see: in a reached slab, below the watermark and
\* unmarked, as (slot, key, val) entries.
Live == UNION { { <<s, i, slab[s][i].key, slab[s][i].val>> :
                    i \in { i \in Idx : i < inUse[s] /\ ~slab[s][i].mark } } :
                s \in Reached }

\* findNode: the owner's bucket list holds exactly one unmarked node per key.
findNode(k) == where[k]

\* Mutant: allocate tests `in_use > amount`.
SlabFull_past_end(s) == inUse[s] > Amount

\* allocate: the last slab is already full.
SlabFull(s) == inUse[s] = Amount

MarkNode(sl) == [slab EXCEPT ![sl[1]][sl[2]].mark = TRUE]

-----------------------------------------------------------------------------
Init ==
  /\ inUse = <<0>>
  /\ slab = <<NewSlab>>
  /\ last = 1
  /\ where = [k \in Keys |-> NoSlot]
  /\ opc = "idle"
  /\ ol = [key |-> NullKey, val |-> NullVal, tmp |-> NoSlot, c |-> 0]
  /\ ops = 0
  /\ hpc = [h \in Helpers |-> "idle"]
  /\ it = [h \in Helpers |-> [slab |-> 0, idx |-> 0, snap |-> 0]]
  /\ yielded = [h \in Helpers |-> {}]
  /\ iters = [h \in Helpers |-> 0]
  /\ gen = 0
  /\ startLive = [h \in Helpers |-> {}]
  /\ igen = [h \in Helpers |-> 0]

\* put, first part: SlabAllocator::allocate.  When the last slab is full it
\* moves to the next slab, creating one if there is none; then it builds
\* the node at the watermark, unlinked and invisible to helpers.
put_alloc(k, v) ==
  /\ opc = "idle" /\ ops < MaxOps
  /\ ~SlabFull(last) \/ last < Len(inUse) \/ Len(inUse) < MaxSlabs
  /\ LET full == SlabFull(last)
         nl   == IF full THEN last + 1 ELSE last
         new  == full /\ last = Len(inUse)
         sl   == IF new THEN Append(slab, NewSlab) ELSE slab
     IN /\ last' = nl
        /\ inUse' = IF new THEN Append(inUse, 0) ELSE inUse
        /\ slab' = [sl EXCEPT ![nl][inUse'[nl]] = [key |-> k, val |-> v, mark |-> FALSE]]
        /\ ol' = [ol EXCEPT !.key = k, !.val = v, !.tmp = <<nl, inUse'[nl]>>]
  /\ opc' = "put_link"
  /\ UNCHANGED <<where, ops, gen, helper_vars>>

\* put, second part: findNode; if the key exists, mark the old node (the
\* one store helpers can see) and link the new node in its place,
\* otherwise link the new node into the bucket.
put_link ==
  /\ opc = "put_link"
  /\ LET cur == findNode(ol.key)
     IN slab' = IF cur # NoSlot THEN MarkNode(cur) ELSE slab
  /\ where' = [where EXCEPT ![ol.key] = ol.tmp]
  /\ opc' = "put_finalize"
  /\ UNCHANGED <<inUse, last, ol, ops, gen, helper_vars>>

\* put, last part: allocate_finalize raises the watermark of the last slab.
put_finalize ==
  /\ opc = "put_finalize"
  /\ inUse' = [inUse EXCEPT ![last] = @ + 1]
  /\ opc' = "idle" /\ ops' = ops + 1
  /\ UNCHANGED <<slab, last, where, ol, gen, helper_vars>>

\* remove: findNode; mark the node and unlink it.
remove(k) ==
  /\ opc = "idle" /\ ops < MaxOps
  /\ findNode(k) # NoSlot
  /\ slab' = MarkNode(findNode(k))
  /\ where' = [where EXCEPT ![k] = NoSlot]
  /\ ops' = ops + 1
  /\ UNCHANGED <<inUse, last, opc, ol, gen, helper_vars>>

\* reset: return if empty(); null every bucket, then SlabAllocator::reset
\* sets last to the first slab and walks the chain (reset_slab).
reset ==
  /\ opc = "idle" /\ ops < MaxOps
  /\ inUse[1] # 0
  /\ where' = [k \in Keys |-> NoSlot]
  /\ last' = 1
  /\ ol' = [ol EXCEPT !.c = 1]
  /\ opc' = "reset_slab"
  /\ gen' = gen + 1
  /\ UNCHANGED <<inUse, slab, ops, helper_vars>>

\* Mutant: the loop stops after the first slab.
reset_slab_first_only ==
  /\ opc = "reset_slab"
  /\ inUse' = [inUse EXCEPT ![ol.c] = 0]
  /\ opc' = "idle" /\ ops' = ops + 1
  /\ UNCHANGED <<slab, last, where, ol, gen, helper_vars>>

\* One turn of SlabAllocator::reset's loop: load the slab's watermark, reset
\* it to 0, and stop unless the slab was full and has a next slab.
reset_slab ==
  /\ opc = "reset_slab"
  /\ LET c == ol.c
     IN /\ inUse' = [inUse EXCEPT ![c] = 0]
        /\ IF inUse[c] < Amount \/ c = Len(inUse)
             THEN opc' = "idle" /\ ops' = ops + 1 /\ ol' = ol
             ELSE opc' = "reset_slab" /\ ops' = ops /\ ol' = [ol EXCEPT !.c = c + 1]
  /\ UNCHANGED <<slab, last, where, gen, helper_vars>>

-----------------------------------------------------------------------------
(* Helpers: begin() snapshots the first slab's in_use_amount; each         *)
(* dereference reads one node (deleted() reads its mark, operator* its     *)
(* key and value); advance() moves to the next slab when the snapshot was *)
(* a full slab and the index passed its end.                              *)

\* Mutant: advance() leaves a full slab one node early.
CrossesSlab_early(idx, snap) == snap = Amount /\ idx = Amount - 1

\* advance() leaves the slab when the snapshot was full and idx reached amount.
CrossesSlab(idx, snap) == snap = Amount /\ idx = Amount

it_begin(h) ==
  /\ hpc[h] = "idle" /\ iters[h] < MaxIters
  /\ it' = [it EXCEPT ![h] = [slab |-> 1, idx |-> 0, snap |-> inUse[1]]]
  /\ yielded' = [yielded EXCEPT ![h] = {}]
  /\ startLive' = [startLive EXCEPT ![h] = Live]
  /\ igen' = [igen EXCEPT ![h] = gen]
  /\ iters' = [iters EXCEPT ![h] = @ + 1]
  /\ hpc' = [hpc EXCEPT ![h] = "iter"]
  /\ UNCHANGED <<inUse, slab, last, where, opc, ol, ops, gen>>

\* Not reached_end(): read the node (skipped if deleted()), then advance().
it_deref(h) ==
  LET s == it[h].slab  i == it[h].idx  n == slab[s][i]
  IN /\ hpc[h] = "iter" /\ i # it[h].snap
     /\ yielded' = [yielded EXCEPT ![h] = IF n.mark THEN @ ELSE @ \cup {<<s, i, n.key, n.val>>}]
     /\ it' = [it EXCEPT ![h].idx = i + 1]
     /\ hpc' = [hpc EXCEPT ![h] = IF CrossesSlab(i + 1, it[h].snap) THEN "next_slab" ELSE "iter"]
     /\ UNCHANGED <<inUse, slab, last, where, opc, ol, ops, iters, gen, startLive, igen>>

\* advance() past a full slab: load curr_slab->next, then its in_use_amount.
\* A null next is dereferenced (the helper crashes).
it_next_slab(h) ==
  LET s == it[h].slab
  IN /\ hpc[h] = "next_slab"
     /\ IF s < Len(inUse)
          THEN /\ it' = [it EXCEPT ![h] = [slab |-> s + 1, idx |-> 0, snap |-> inUse[s + 1]]]
               /\ hpc' = [hpc EXCEPT ![h] = "iter"]
          ELSE /\ it' = it
               /\ hpc' = [hpc EXCEPT ![h] = "crashed"]
     /\ UNCHANGED <<inUse, slab, last, where, opc, ol, ops, yielded, iters, gen, startLive, igen>>

\* reached_end(): the iteration is over.
it_end(h) ==
  /\ hpc[h] = "iter" /\ it[h].idx = it[h].snap
  /\ hpc' = [hpc EXCEPT ![h] = "idle"]
  /\ UNCHANGED <<inUse, slab, last, where, opc, ol, ops, it, yielded, iters, gen, startLive, igen>>

\* Every bounded activity has ended (a crashed helper stays crashed).
Done ==
  /\ opc = "idle" /\ \A h \in Helpers : hpc[h] \in {"idle", "crashed"}
  /\ UNCHANGED vars

Next ==
  \/ \E k \in Keys : \/ \E v \in Vals : put_alloc(k, v)
                     \/ remove(k)
  \/ put_link \/ put_finalize \/ reset \/ reset_slab
  \/ \E h \in Helpers : it_begin(h) \/ it_deref(h) \/ it_next_slab(h) \/ it_end(h)
  \/ Done

Spec == Init /\ [][Next]_vars

-----------------------------------------------------------------------------
TypeOK ==
  /\ Len(inUse) \in 1 .. MaxSlabs /\ Len(slab) = Len(inUse)
  /\ \A s \in DOMAIN inUse : inUse[s] \in 0 .. Amount /\ slab[s] \in [Idx -> Node]
  /\ last \in DOMAIN inUse
  /\ where \in [Keys -> Slots \cup {NoSlot}]
  /\ opc \in {"idle", "put_link", "put_finalize", "reset_slab"}
  /\ hpc \in [Helpers -> {"idle", "iter", "next_slab", "crashed"}]
  /\ \A h \in Helpers : \A e \in yielded[h] \cup startLive[h] :
       <<e[1], e[2]>> \in Slots /\ e[3] \in Keys \cup {NullKey} /\ e[4] \in Vals \cup {NullVal}

\* The allocator's shape outside reset: the slabs before `last` are full and
\* the ones after it are empty.  allocate relies on it when it moves to an
\* existing next slab (assert new_last->in_use_amount == 0, line 78), and
\* SlabAllocator::reset relies on it when it stops at the first slab that
\* is not full.
SlabsAfterLastEmpty ==
  opc # "reset_slab" =>
    \A s \in DOMAIN inUse : /\ s < last => inUse[s] = Amount
                            /\ s > last => inUse[s] = 0

\* A helper's iteration that ends returns every node that was live (below
\* the watermark and unmarked) from its begin() to its end: the watermark
\* snapshot and the slab chaining of ItemIterator lose no stable entry.
EveryStableEntryVisited ==
  \A h \in Helpers :
    hpc[h] = "iter" /\ it[h].idx = it[h].snap /\ igen[h] = gen
      => startLive[h] \cap Live \subseteq yielded[h]

\* The iterator's own assertions hold on every node it dereferences
\* (curr_idx < amount-1, lines 172 and 180) and advance() never loads
\* through a null next slab (line 199).
IteratorInBounds ==
  \A h \in Helpers :
    /\ hpc[h] = "iter" /\ it[h].idx # it[h].snap => it[h].idx < Amount - 1
    /\ hpc[h] # "crashed"
====
