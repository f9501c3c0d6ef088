----------------------------- MODULE Descriptor -----------------------------
(***************************************************************************)
(* The word-level encodings of Medley's MCAS: the annotated word lin_var   *)
(* (src/persist/EpochSys.hpp) and the status word tid_sn of the           *)
(* transaction descriptor sc_desc_t, with the read-set and write-set      *)
(* operations of sc_desc_t.  Everything here is a pure operator; the      *)
(* state machine that uses them is MedleyTxn.                             *)
(*                                                                         *)
(* tid_sn packs tid | sn | status.  A descriptor belongs to one thread, so *)
(* the model keeps tid_sn per thread as the number sn * 4 + status, and    *)
(* the bit operations of the code become arithmetic on that number:       *)
(*   status 0 = in preparation, 1 = in progress, 2 = committed,            *)
(*   3 = aborted.                                                          *)
(* A lin_var is a record [val, cnt]; while cnt % 4 = 1 the word holds a    *)
(* descriptor and val is the owning thread (the descriptor pointer).       *)
(***************************************************************************)
EXTENDS Integers, TLC
LOCAL INSTANCE Functions

\* lin_var::is_desc: the low two bits of the counter are 01.
is_desc(r) == r.cnt % 4 = 1

\* The status predicates on a tid_sn snapshot.
in_prep(d)     == d % 4 = 0
in_progress(d) == d % 4 = 1
committed(d)   == d % 4 = 2
aborted(d)     == d % 4 = 3

\* Faulty variant: the mask keeps only the tid bits, which every snapshot
\* of one descriptor shares.
match_tid_only(a, b) == TRUE

\* match: the two snapshots name the same transaction instance (same sn).
match(a, b) == a \div 4 = b \div 4

\* The (expected, desired) pair of each compare-and-swap on tid_sn.
\* abort(_d): expected = _d & ~2, so it succeeds from in-prep or
\* in-progress only if the status bit 0 of _d is still current.
\* Faulty variant: expected = _d | 1, so only an in-progress _d is aborted.
abort_expected_progress_only(d) == (d \div 4) * 4 + 1
abort_expected(d)  == (d \div 4) * 4 + ((d % 4) % 2)
abort_desired(d)   == (d \div 4) * 4 + 3
\* commit(_d): from in-progress to committed.
commit_expected(d) == (d \div 4) * 4 + 1
commit_desired(d)  == (d \div 4) * 4 + 2
\* set_ready: from in-prep to in-progress of the current sn.
ready_expected(d)  == (d \div 4) * 4
ready_desired(d)   == (d \div 4) * 4 + 1
\* set_unready: from in-progress of sn to in-prep of sn + 1 (adds 3).
unready_expected(d) == (d \div 4) * 4 + 1
\* Faulty variant: back to in-prep without a new sn (expected & ~3).
unready_desired_same_sn(d) == (d \div 4) * 4
unready_desired(d)  == (d \div 4) * 4 + 4
\* increment_sn_reset_status: (tid_sn + 4) & ~3.
increment_sn_reset_status(d) == ((d + 4) \div 4) * 4

\* The lin_var an uninstall CAS writes over (desc, old_cnt + 1) for the
\* write-set entry e: the new value if the descriptor committed, else the
\* old one, with the counter at old_cnt + 4.  Two faulty variants: the
\* counter one past the descriptor's (tag 10), and the new value written
\* whatever the outcome.
uninstalled_cnt_plus2(e, ok) ==
  [val |-> IF ok THEN e.new_val ELSE e.old_val, cnt |-> e.old_cnt + 2]
uninstalled_new_val(e, ok) == [val |-> e.new_val, cnt |-> e.old_cnt + 4]
uninstalled(e, ok) ==
  [val |-> IF ok THEN e.new_val ELSE e.old_val, cnt |-> e.old_cnt + 4]

\* A compare-and-swap on a word w: the value it leaves.
CASResult(w, expected, desired) == IF w = expected THEN desired ELSE w

\* Putting an entry into a slab hash table (read set or write set).
Put(f, k, v) == (k :> v) @@ f

\* sc_desc_t::add_to_write_set: the result is [ok, ws].  An existing entry
\* keeps its old_cnt and old_val and must agree with the caller's view; a
\* new entry must agree with the read set's entry for the same word.
add_to_write_set(ws, rs, a, old_cnt, old_val, new_val) ==
  IF a \in DOMAIN ws
  THEN IF ws[a].new_val # old_val \/ ws[a].old_cnt # old_cnt
       THEN [ok |-> FALSE, ws |-> ws]
       ELSE [ok |-> TRUE,
             ws |-> Put(ws, a, [ws[a] EXCEPT !.new_val = new_val])]
  ELSE IF a \in DOMAIN rs /\ (rs[a].val # old_val \/ rs[a].cnt # old_cnt)
       THEN [ok |-> FALSE, ws |-> ws]
       ELSE [ok |-> TRUE,
             ws |-> Put(ws, a, [old_cnt |-> old_cnt, old_val |-> old_val,
                                new_val |-> new_val])]

\* sc_desc_t::add_to_write_set_no_revalidation (own descriptor seen by
\* nbtc_store): only the new value changes.
add_to_write_set_no_revalidation(ws, a, new_val) ==
  Put(ws, a, [ws[a] EXCEPT !.new_val = new_val])

\* sc_desc_t::remove_from_write_set.
remove_from_write_set(ws, a) == Restrict(ws, DOMAIN ws \ {a})

\* sc_desc_t::add_to_read_set: the result is [ok, rs].  A word already in
\* the write set is a speculative read and must show the write set's
\* view; a word already in the read set must show the same lin_var.
add_to_read_set(ws, rs, a, var) ==
  IF a \in DOMAIN ws
  THEN [ok |-> var.cnt = ws[a].old_cnt /\ var.val = ws[a].new_val, rs |-> rs]
  ELSE IF a \in DOMAIN rs
       THEN [ok |-> rs[a] = var, rs |-> rs]
       ELSE [ok |-> TRUE, rs |-> Put(rs, a, var)]

\* EpochSys::addToReadSet: a value equal to the write set's new value
\* returns at once; otherwise the pending read goes to add_to_read_set.
addToReadSet(ws, rs, a, var) ==
  IF a \in DOMAIN ws /\ ws[a].new_val = var.val
  THEN [ok |-> TRUE, rs |-> rs]
  ELSE add_to_read_set(ws, rs, a, var)
=============================================================================
