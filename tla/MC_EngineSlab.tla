---------------------------- MODULE MC_EngineSlab ----------------------------
(***************************************************************************)
(* The descriptor engine (MedleyTxn) and the slab-backed hash table its   *)
(* descriptors keep their read and write sets in (SlabHashTable), checked *)
(* in one run: the part is chosen in the initial state, so the state      *)
(* space is the union of the engine's and the table's.  The engine keeps  *)
(* the abstract read and write sets of MedleyTxn; the table is checked on *)
(* its own workload of an owner and an iterating helper.                  *)
(***************************************************************************)
EXTENDS MC_MedleyTxn

CONSTANTS
  k1, k2, v1, v2, h1, h2,
  Keys, SlabVals, NullKey, NullVal, Helpers, Amount, MaxSlabs, SlabMaxOps, MaxIters

VARIABLES
  part,
  s_inUse, s_slab, s_last, s_where, s_opc, s_ol, s_ops, s_hpc, s_it, s_yielded,
  s_iters, s_gen, s_startLive, s_igen

s_vars == <<s_inUse, s_slab, s_last, s_where, s_opc, s_ol, s_ops, s_hpc, s_it,
            s_yielded, s_iters, s_gen, s_startLive, s_igen>>

H == INSTANCE SlabHashTable WITH
       Vals <- SlabVals, MaxOps <- SlabMaxOps,
       inUse <- s_inUse, slab <- s_slab, last <- s_last, where <- s_where,
       opc <- s_opc, ol <- s_ol, ops <- s_ops, hpc <- s_hpc, it <- s_it,
       yielded <- s_yielded, iters <- s_iters, gen <- s_gen,
       startLive <- s_startLive, igen <- s_igen

MC_Keys == {k1, k2}
MC_SlabVals == {v1, v2}
MC_OneHelper == {h1}

EngineSlabInit == part \in {"engine", "slab"} /\ Init /\ H!Init

EngineSlabNext ==
  \/ part = "engine" /\ Next /\ UNCHANGED <<part, s_vars>>
  \/ part = "slab" /\ H!Next /\ UNCHANGED <<part, vars>>

EngineSlabSpec == EngineSlabInit /\ [][EngineSlabNext]_<<part, vars, s_vars>>

\* SlabHashTable: the type invariant of the table.
SlabTypeOK == H!TypeOK
\* SlabHashTable: outside reset, the slabs before SlabAllocator::last are
\* full and the ones after it are empty.
SlabsAfterLastEmpty == H!SlabsAfterLastEmpty
\* SlabHashTable: an ItemIterator that ends returns every entry that was
\* live from its begin() to its end.
EveryStableEntryVisited == H!EveryStableEntryVisited
====
