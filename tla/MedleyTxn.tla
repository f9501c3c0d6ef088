------------------------------ MODULE MedleyTxn ------------------------------
(***************************************************************************)
(* Medley's nonblocking transactions (src/persist/EpochSys.{hpp,cpp},      *)
(* src/persist/api/Recoverable.hpp): annotated words (atomic_lin_var), the *)
(* per-thread descriptor sc_desc_t, the owner's transaction (tx_begin,     *)
(* nbtc_load, nbtc_CAS, tx_end, tx_abort), the single-word operations     *)
(* CAS_verify and CAS, the helpers that complete a descriptor they meet   *)
(* (helper_try_complete, helper_uninstall_desc), and the epoch advancer   *)
(* that ends epochs (on_epoch_end) in either epoch system: EpochSys       *)
(* (Liveness = Blocking) or nbEpochSys (Liveness = Nonblocking).          *)
(*                                                                         *)
(* Every step is one atomic access of a shared word (a cell, a tid_sn,    *)
(* the epoch field of a descriptor or the global epoch) together with the *)
(* thread-local work that follows it before the next shared access.       *)
(* A thread that meets another thread's descriptor runs helper_try_complete*)
(* as a nested routine: hpc is its program counter and hl its locals.     *)
(***************************************************************************)
EXTENDS Integers, FiniteSets, TLC, Descriptor

CONSTANTS
  Threads,      \* worker threads, each owning one descriptor
  Cells,        \* the atomic_lin_var words
  Vals,         \* the values a word can hold
  InitVal,      \* the value every word starts with
  NoTxn,        \* "no owner" in the refinement mapping
  NULL_EPOCH,   \* the epoch of a thread outside an operation
  INIT_EPOCH,   \* the first global epoch
  MaxEpoch,     \* bound: the advancer stops at this epoch
  MaxRounds,    \* bound: top-level operations a thread starts
  MaxOps,       \* bound: nbtc calls in one transaction body
  Liveness      \* "Blocking" (EpochSys) or "Nonblocking" (nbEpochSys)

ASSUME InitVal \in Vals /\ INIT_EPOCH > NULL_EPOCH + 1 /\ MaxEpoch >= INIT_EPOCH
ASSUME Liveness \in {"Blocking", "Nonblocking"}

VARIABLES
  cell,          \* cell[c]: the lin_var [val, cnt] in the word
  tid_sn,        \* tid_sn[t]: sn * 4 + status of t's descriptor
  epoch,         \* epoch[t]: the epoch field of t's descriptor
  read_set,      \* read_set[t]: word -> lin_var read
  write_set,     \* write_set[t]: word -> [old_cnt, old_val, new_val]
  global_epoch,  \* EpochSys::global_epoch
  epochs,        \* epochs[t]: the thread's active epoch (its tracker entry)
  inside_txn,    \* flags[t].inside_txn
  rolling,       \* flags[t].start_rolling_CAS
  pc,            \* the owner's program counter
  ol,            \* the owner's locals
  rounds,        \* operations started by each thread
  hpc,           \* the program counter of a nested helper_try_complete
  hl,            \* the helper's locals
  apc,           \* the epoch advancer's program counter
  al,            \* the advancer's locals: [todo, u, d]
  readyValid,    \* history: the abstract validation held at set_ready
  drained        \* history: the last epoch on_epoch_end persisted per thread

owner_vars == <<pc, ol, rounds, inside_txn, rolling, epochs>>
desc_vars  == <<tid_sn, epoch, read_set, write_set>>
vars == <<cell, desc_vars, global_epoch, owner_vars, hpc, hl, apc, al,
          readyValid, drained>>

LinVars   == [val : Vals \cup Threads, cnt : Nat]
NoLocals  == [c |-> NoTxn, exp |-> InitVal, des |-> InitVal, lin |-> FALSE,
              r |-> [val |-> InitVal, cnt |-> 0], d |-> 0, todo |-> {},
              ok |-> FALSE, nops |-> 0]
NoEntry   == [old_cnt |-> 0, old_val |-> InitVal, new_val |-> InitVal]
NoHelp    == [o |-> NoTxn, c |-> NoTxn, w |-> NoTxn,
              var |-> [val |-> InitVal, cnt |-> 0], d |-> 0, todo |-> {},
              ok |-> FALSE, ent |-> NoEntry, ret |-> "idle"]

-----------------------------------------------------------------------------
(* The refinement mapping to AtomicTxn.                                    *)

\* The logical value of a word: a word holding a descriptor shows the new
\* value of a committed transaction and the old value otherwise.
LVal(c) ==
  IF is_desc(cell[c]) /\ c \in DOMAIN write_set[cell[c].val]
  THEN LET o == cell[c].val IN
       IF committed(tid_sn[o]) THEN write_set[o][c].new_val
                               ELSE write_set[o][c].old_val
  ELSE IF is_desc(cell[c]) THEN InitVal ELSE cell[c].val
Holder(c) == IF is_desc(cell[c]) THEN cell[c].val ELSE NoTxn

\* The abstract Ready guard, evaluated when set_ready succeeds.
ReadsHold(t) ==
  \A c \in DOMAIN read_set[t] :
    Holder(c) \in {NoTxn, t} /\ LVal(c) = read_set[t][c].val

Phase(t) ==
  CASE in_prep(tid_sn[t])     -> "open"
    [] in_progress(tid_sn[t]) -> IF readyValid[t] THEN "ready" ELSE "open"
    [] OTHER                  -> "closed"

Abs == INSTANCE AtomicTxn WITH
  mem      <- [c \in Cells |-> LVal(c)],
  lockedBy <- [c \in Cells |-> Holder(c)],
  phase    <- [t \in Threads |-> Phase(t)],
  rset     <- [t \in Threads |-> [c \in DOMAIN read_set[t] |-> read_set[t][c].val]],
  wset     <- [t \in Threads |-> [c \in DOMAIN write_set[t] |-> write_set[t][c].new_val]]

-----------------------------------------------------------------------------
Init ==
  /\ cell = [c \in Cells |-> [val |-> InitVal, cnt |-> 0]]
  /\ tid_sn = [t \in Threads |-> 0]
  /\ epoch = [t \in Threads |-> NULL_EPOCH]
  /\ read_set = [t \in Threads |-> <<>>]
  /\ write_set = [t \in Threads |-> <<>>]
  /\ global_epoch = INIT_EPOCH
  /\ epochs = [t \in Threads |-> NULL_EPOCH]
  /\ inside_txn = [t \in Threads |-> FALSE]
  /\ rolling = [t \in Threads |-> FALSE]
  /\ pc = [t \in Threads |-> "idle"]
  /\ ol = [t \in Threads |-> NoLocals]
  /\ rounds = [t \in Threads |-> 0]
  /\ hpc = [t \in Threads |-> "none"]
  /\ hl = [t \in Threads |-> NoHelp]
  /\ apc = "end"
  /\ al = [todo |-> {}, u |-> NoTxn, d |-> 0]
  /\ readyValid = [t \in Threads |-> FALSE]
  /\ drained = [t \in Threads |-> NULL_EPOCH]

\* The owner may run only while it is not inside a nested helper.
Owner(t, p) == pc[t] = p /\ hpc[t] = "none"
Goto(t, p) == pc' = [pc EXCEPT ![t] = p]

\* Returning to p: in a transaction body only the count of calls is kept,
\* and an idle thread keeps nothing; a retry loop keeps its locals.
Resume(t, p) ==
  /\ Goto(t, p)
  /\ ol' = [ol EXCEPT ![t] = CASE p = "body" -> [NoLocals EXCEPT !.nops = ol[t].nops]
                               [] p = "idle" -> NoLocals
                               [] OTHER      -> ol[t]]

\* Calling helper_try_complete(obj = c, obj_var = r); the caller resumes
\* at ret when it returns.
CallHelper(t, c, r, ret) ==
  /\ hpc' = [hpc EXCEPT ![t] = "load_d"]
  /\ hl' = [hl EXCEPT ![t] = [NoHelp EXCEPT !.o = r.val, !.c = c, !.var = r,
                                           !.ret = ret]]

\* Faulty variant: the uninstall loop iterates an empty set of words.
StartUninstall_empty(t, d) ==
  /\ Goto(t, "uninstall")
  /\ ol' = [ol EXCEPT ![t].ok = committed(d), ![t].todo = {}]

\* Entering owner_uninstall_desc: the status is terminal here and only the
\* owner changes it again, so the snapshot new_d is taken with this step.
StartUninstall(t, d) ==
  /\ Goto(t, "uninstall")
  /\ ol' = [ol EXCEPT ![t].ok = committed(d), ![t].todo = DOMAIN write_set[t]]
-----------------------------------------------------------------------------
(* The owner's transaction.                                                *)

\* EpochSys::tx_begin, with sc_desc_t::reinit: a fresh sn in preparation
\* and empty read and write sets.
tx_begin(t) ==
  /\ Owner(t, "idle") /\ rounds[t] < MaxRounds
  /\ inside_txn' = [inside_txn EXCEPT ![t] = TRUE]
  /\ rolling' = [rolling EXCEPT ![t] = FALSE]
  /\ tid_sn' = [tid_sn EXCEPT ![t] = increment_sn_reset_status(@)]
  /\ read_set' = [read_set EXCEPT ![t] = <<>>]
  /\ write_set' = [write_set EXCEPT ![t] = <<>>]
  /\ rounds' = [rounds EXCEPT ![t] = @ + 1]
  /\ ol' = [ol EXCEPT ![t] = NoLocals]
  /\ readyValid' = [readyValid EXCEPT ![t] = FALSE]
  /\ Goto(t, "body")
  /\ UNCHANGED <<cell, epoch, global_epoch, epochs, hpc, hl, apc, al, drained>>

\* tx_op_separator: a data-structure operation inside the transaction
\* starts; rolling-CAS mode is switched off.
tx_op_separator(t) ==
  /\ Owner(t, "body") /\ ol[t].nops < MaxOps
  /\ rolling' = [rolling EXCEPT ![t] = FALSE]
  /\ ol' = [ol EXCEPT ![t].nops = @ + 1]
  /\ UNCHANGED <<cell, desc_vars, global_epoch, pc, rounds, inside_txn, epochs,
                 hpc, hl, apc, al, readyValid, drained>>

\* nbtc_load inside a transaction, followed by addToReadSet of the value.
\* Its own descriptor gives the speculative new value; another thread's
\* descriptor is helped and the load is retried.
nbtc_load(t, c) ==
  /\ Owner(t, "body") /\ ol[t].nops < MaxOps
  /\ LET r == cell[c]
         res == addToReadSet(write_set[t], read_set[t], c, r) IN
     \/ /\ is_desc(r) /\ r.val = t
        /\ rolling' = [rolling EXCEPT ![t] = TRUE]
        /\ ol' = [ol EXCEPT ![t].nops = @ + 1]
        /\ UNCHANGED <<read_set, pc, hpc, hl>>
     \/ /\ is_desc(r) /\ r.val # t
        /\ CallHelper(t, c, r, "body")
        /\ UNCHANGED <<rolling, ol, read_set, pc>>
     \/ /\ ~is_desc(r)
        /\ read_set' = [read_set EXCEPT ![t] = res.rs]
        /\ ol' = [ol EXCEPT ![t].nops = @ + 1]
        /\ Goto(t, IF res.ok THEN "body" ELSE "tx_abort")
        /\ UNCHANGED <<rolling, hpc, hl>>
  /\ UNCHANGED <<cell, tid_sn, epoch, write_set, global_epoch, epochs,
                 inside_txn, rounds, apc, al, readyValid, drained>>

\* nbtc_CAS inside a transaction, up to its install CAS.  lin stands for
\* both pub_point and lin_point (the data structures pass them together).
\* The word is loaded once; a foreign descriptor is helped and the call
\* returns 0, a mismatching value returns 0, its own descriptor updates the
\* write set, and otherwise the call either installs (rolling-CAS mode) or
\* falls back to a plain CAS.
nbtc_CAS(t, c, exp, des, lin) ==
  /\ Owner(t, "body") /\ ol[t].nops < MaxOps
  /\ LET r == cell[c]
         roll == rolling[t] \/ lin
         own == add_to_write_set(write_set[t], read_set[t], c, r.cnt - 1, exp, des)
         counted == [ol EXCEPT ![t].nops = @ + 1] IN
     \/ /\ is_desc(r) /\ r.val # t
        /\ CallHelper(t, c, r, "body")
        /\ rolling' = [rolling EXCEPT ![t] = roll]
        /\ ol' = counted
        /\ UNCHANGED <<write_set, pc>>
     \/ /\ is_desc(r) /\ r.val = t /\ exp = write_set[t][c].new_val
        /\ write_set' = [write_set EXCEPT ![t] = own.ws]
        /\ rolling' = [rolling EXCEPT ![t] = ~(own.ok /\ lin)]
        /\ ol' = counted
        /\ Goto(t, IF own.ok THEN "body" ELSE "tx_abort")
        /\ UNCHANGED <<hpc, hl>>
     \/ /\ ~is_desc(r) /\ r.val # exp
        /\ rolling' = [rolling EXCEPT ![t] = roll]
        /\ ol' = counted
        /\ UNCHANGED <<write_set, pc, hpc, hl>>
     \/ /\ ~is_desc(r) /\ r.val = exp
        /\ rolling' = [rolling EXCEPT ![t] = roll]
        /\ ol' = [counted EXCEPT ![t].c = c, ![t].exp = exp, ![t].des = des,
                                  ![t].lin = lin, ![t].r = r]
        /\ Goto(t, IF roll THEN "cas_install" ELSE "cas_load")
        /\ UNCHANGED <<write_set, hpc, hl>>
  /\ UNCHANGED <<cell, tid_sn, epoch, read_set, global_epoch, epochs,
                 inside_txn, rounds, apc, al, readyValid, drained>>

\* nbtc_CAS in rolling-CAS mode: add_to_write_set, then the install CAS of
\* the descriptor (cnt x00 -> x01); a failed install removes the entry.
cas_install(t) ==
  /\ Owner(t, "cas_install")
  /\ LET c == ol[t].c
         r == ol[t].r
         res == add_to_write_set(write_set[t], read_set[t], c, r.cnt,
                                 ol[t].exp, ol[t].des) IN
     \/ /\ ~res.ok
        /\ Goto(t, "tx_abort")
        /\ UNCHANGED <<cell, write_set, rolling, ol>>
     \/ /\ res.ok /\ cell[c] = r
        /\ cell' = [cell EXCEPT ![c] = [val |-> t, cnt |-> r.cnt + 1]]
        /\ write_set' = [write_set EXCEPT ![t] = res.ws]
        /\ rolling' = [rolling EXCEPT ![t] = ~ol[t].lin]
        /\ Resume(t, "body")
     \/ /\ res.ok /\ cell[c] # r
        /\ write_set' = [write_set EXCEPT ![t] = remove_from_write_set(res.ws, c)]
        /\ Resume(t, "body")
        /\ UNCHANGED <<cell, rolling>>
  /\ UNCHANGED <<tid_sn, epoch, read_set, global_epoch, epochs, inside_txn,
                 rounds, hpc, hl, apc, al, readyValid, drained>>

\* One turn of nbtc_store's loop on word c: its own descriptor takes the
\* new value in the write set (add_to_write_set_no_revalidation) and
\* returns; another descriptor is helped and the loop retried; a plain
\* word goes on to add_to_write_set and the install CAS.
StoreLoad(t, c, des, locals) ==
  LET r == cell[c] IN
  \/ /\ is_desc(r) /\ r.val = t
     /\ rolling' = [rolling EXCEPT ![t] = TRUE]
     /\ write_set' = [write_set EXCEPT ![t] = add_to_write_set_no_revalidation(@, c, des)]
     /\ Goto(t, "body")
     /\ ol' = [ol EXCEPT ![t] = [NoLocals EXCEPT !.nops = locals.nops]]
     /\ UNCHANGED <<hpc, hl>>
  \/ /\ is_desc(r) /\ r.val # t
     /\ CallHelper(t, c, r, "store_load")
     /\ ol' = [ol EXCEPT ![t] = locals]
     /\ UNCHANGED <<rolling, write_set, pc>>
  \/ /\ ~is_desc(r)
     /\ ol' = [ol EXCEPT ![t] = [locals EXCEPT !.r = r]]
     /\ Goto(t, "store_install")
     /\ UNCHANGED <<rolling, write_set, hpc, hl>>

\* nbtc_store inside a transaction.
nbtc_store(t, c, des) ==
  /\ Owner(t, "body") /\ ol[t].nops < MaxOps
  /\ StoreLoad(t, c, des, [ol[t] EXCEPT !.nops = @ + 1, !.c = c, !.des = des])
  /\ UNCHANGED <<cell, tid_sn, epoch, read_set, global_epoch, epochs,
                 inside_txn, rounds, apc, al, readyValid, drained>>

store_load(t) ==
  /\ Owner(t, "store_load")
  /\ StoreLoad(t, ol[t].c, ol[t].des, ol[t])
  /\ UNCHANGED <<cell, tid_sn, epoch, read_set, global_epoch, epochs,
                 inside_txn, rounds, apc, al, readyValid, drained>>

\* add_to_write_set(r.cnt, r.val, desired), tx_abort if it fails, and the
\* install CAS; a failed install keeps the entry and retries the loop.
store_install(t) ==
  /\ Owner(t, "store_install")
  /\ LET c == ol[t].c
         r == ol[t].r
         res == add_to_write_set(write_set[t], read_set[t], c, r.cnt, r.val, ol[t].des) IN
     \/ /\ ~res.ok
        /\ Goto(t, "tx_abort")
        /\ UNCHANGED <<cell, write_set, ol>>
     \/ /\ res.ok /\ cell[c] = r
        /\ cell' = [cell EXCEPT ![c] = [val |-> t, cnt |-> r.cnt + 1]]
        /\ write_set' = [write_set EXCEPT ![t] = res.ws]
        /\ Resume(t, "body")
     \/ /\ res.ok /\ cell[c] # r
        /\ write_set' = [write_set EXCEPT ![t] = res.ws]
        /\ Goto(t, "store_load")
        /\ UNCHANGED <<cell, ol>>
  /\ UNCHANGED <<tid_sn, epoch, read_set, global_epoch, epochs, inside_txn,
                 rolling, rounds, hpc, hl, apc, al, readyValid, drained>>

\* atomic_lin_var::CAS, called outside a transaction or by nbtc_CAS when not
\* in rolling-CAS mode: load the word, help a descriptor (and fail), or
\* compare-and-swap (expected, cnt) to (desired, cnt + 4).
CAS_begin(t, c, exp, des) ==
  /\ Owner(t, "idle") /\ rounds[t] < MaxRounds
  /\ rounds' = [rounds EXCEPT ![t] = @ + 1]
  /\ ol' = [ol EXCEPT ![t] = [NoLocals EXCEPT !.c = c, !.exp = exp, !.des = des]]
  /\ Goto(t, "cas_load")
  /\ UNCHANGED <<cell, desc_vars, global_epoch, inside_txn, rolling, epochs,
                 hpc, hl, apc, al, readyValid, drained>>

CasReturn(t) == IF inside_txn[t] THEN "body" ELSE "idle"

CAS_load(t) ==
  /\ Owner(t, "cas_load")
  /\ LET r == cell[ol[t].c] IN
     \/ /\ is_desc(r)
        /\ CallHelper(t, ol[t].c, r, CasReturn(t))
        /\ UNCHANGED <<pc, ol>>
     \/ /\ ~is_desc(r)
        /\ ol' = [ol EXCEPT ![t].r = r]
        /\ Goto(t, "cas_cas")
        /\ UNCHANGED <<hpc, hl>>
  /\ UNCHANGED <<cell, desc_vars, global_epoch, rounds, inside_txn, rolling,
                 epochs, apc, al, readyValid, drained>>

CAS_cas(t) ==
  /\ Owner(t, "cas_cas")
  /\ LET c == ol[t].c
         r == ol[t].r IN
     cell' = [cell EXCEPT ![c] = CASResult(@, [val |-> ol[t].exp, cnt |-> r.cnt],
                                              [val |-> ol[t].des, cnt |-> r.cnt + 4])]
  /\ Resume(t, CasReturn(t))
  /\ UNCHANGED <<desc_vars, global_epoch, rounds, inside_txn, rolling,
                 epochs, hpc, hl, apc, al, readyValid, drained>>

-----------------------------------------------------------------------------
(* tx_end and tx_abort (nbEpochSys::tx_end and EpochSys::tx_end have the   *)
(* same steps; the blocking one registers its epoch with the tracker,      *)
(* which the model keeps as epochs).                                       *)

\* A transaction with an empty write set takes the read-only path: it
\* runs owner_validate_reads and ends, committed or aborted, without
\* touching its descriptor or an epoch, so the validation's outcome
\* changes no shared state and the path is one step.  Otherwise the
\* commit phase starts at the retry label.
tx_end(t) ==
  /\ Owner(t, "body")
  /\ IF DOMAIN write_set[t] = {}
     THEN /\ inside_txn' = [inside_txn EXCEPT ![t] = FALSE]
          /\ Resume(t, "idle")
     ELSE /\ Goto(t, "end_epoch")
          /\ UNCHANGED <<ol, inside_txn>>
  /\ UNCHANGED <<cell, desc_vars, global_epoch, rounds, rolling,
                 epochs, hpc, hl, apc, al, readyValid, drained>>

\* The retry label of tx_end: take the global epoch (registering with the
\* tracker in EpochSys; consistent_register_active retries until the
\* registered epoch is still the global one, so the two are one step).
end_epoch(t) ==
  /\ Owner(t, "end_epoch")
  /\ epochs' = [epochs EXCEPT ![t] = global_epoch]
  /\ Goto(t, "set_up_epoch")
  /\ UNCHANGED <<cell, desc_vars, global_epoch, ol, rounds, inside_txn, rolling,
                 hpc, hl, apc, al, readyValid, drained>>

\* sc_desc_t::set_up_epoch: the descriptor's epoch field, read by helpers
\* and by try_abort, is written after the epoch is taken.
set_up_epoch(t) ==
  /\ Owner(t, "set_up_epoch")
  /\ epoch' = [epoch EXCEPT ![t] = epochs[t]]
  /\ Goto(t, IF inside_txn[t] THEN "set_ready" ELSE "cv_load")
  /\ UNCHANGED <<cell, tid_sn, read_set, write_set, global_epoch, ol, rounds,
                 inside_txn, rolling, epochs, hpc, hl, apc, al, readyValid, drained>>

\* set_ready: in-prep -> in-progress; if it fails the transaction was
\* aborted by a helper or the advancer and abort_epilogue runs.
set_ready(t) ==
  /\ Owner(t, "set_ready")
  /\ \/ /\ in_prep(tid_sn[t])
        /\ tid_sn' = [tid_sn EXCEPT ![t] = ready_desired(@)]
        /\ readyValid' = [readyValid EXCEPT ![t] = ReadsHold(t)]
        /\ Goto(t, "load_d")
        /\ UNCHANGED ol
     \/ /\ ~in_prep(tid_sn[t])
        /\ StartUninstall(t, tid_sn[t])
        /\ UNCHANGED <<tid_sn, readyValid>>
  /\ UNCHANGED <<cell, epoch, read_set, write_set, global_epoch, rounds,
                 inside_txn, rolling, epochs, hpc, hl, apc, al, drained>>

\* The snapshot _d = tid_sn.load() that the commit phase works on.
load_d(t) ==
  /\ Owner(t, "load_d")
  /\ ol' = [ol EXCEPT ![t].d = tid_sn[t], ![t].todo = DOMAIN read_set[t]]
  /\ Goto(t, "validate")
  /\ UNCHANGED <<cell, desc_vars, global_epoch, rounds, inside_txn, rolling,
                 epochs, hpc, hl, apc, al, readyValid, drained>>

\* The check owner_validate_reads makes of one read-set entry: a word also
\* in the write set is trusted, any other must still hold the lin_var read.
\* Faulty variant: the check is skipped.
ReadValid_skipped(t, c) == TRUE
ReadValid(t, c) == c \in DOMAIN write_set[t] \/ cell[c] = read_set[t][c]

\* owner_validate_reads, one entry per step: an entry also in the write
\* set is trusted; a changed word aborts _d.  After a full pass the epoch
\* is checked only if _d was still in progress.
validate(t) ==
  /\ Owner(t, "validate")
  /\ \/ /\ ol[t].todo = {} /\ in_progress(ol[t].d)
        /\ Goto(t, "check_epoch")
        /\ UNCHANGED <<tid_sn, ol>>
     \/ /\ ol[t].todo = {} /\ ~in_progress(ol[t].d)
        /\ StartUninstall(t, tid_sn[t])
        /\ UNCHANGED tid_sn
     \/ \E c \in ol[t].todo :
          \/ /\ ReadValid(t, c)
             /\ ol' = [ol EXCEPT ![t].todo = @ \ {c}]
             /\ UNCHANGED <<tid_sn, pc>>
          \/ /\ ~ReadValid(t, c)
             /\ tid_sn' = [tid_sn EXCEPT ![t] = CASResult(@, abort_expected(ol[t].d),
                                                           abort_desired(ol[t].d))]
             /\ StartUninstall(t, tid_sn'[t])
  /\ UNCHANGED <<cell, epoch, read_set, write_set, global_epoch, rounds,
                 inside_txn, rolling, epochs, hpc, hl, apc, al, readyValid, drained>>

\* check_epoch: the thread's epoch is still the global one.
check_epoch(t) ==
  /\ Owner(t, "check_epoch")
  /\ Goto(t, IF global_epoch = epochs[t] THEN "commit" ELSE "set_unready")
  /\ UNCHANGED <<cell, desc_vars, global_epoch, ol, rounds, inside_txn,
                 rolling, epochs, hpc, hl, apc, al, readyValid, drained>>

\* commit(_d), then commit_epilogue or abort_epilogue on the outcome.
commit(t) ==
  /\ Owner(t, "commit")
  /\ tid_sn' = [tid_sn EXCEPT ![t] = CASResult(@, commit_expected(ol[t].d),
                                                commit_desired(ol[t].d))]
  /\ StartUninstall(t, tid_sn'[t])
  /\ UNCHANGED <<cell, epoch, read_set, write_set, global_epoch, rounds,
                 inside_txn, rolling, epochs, hpc, hl, apc, al, readyValid, drained>>

\* set_unready: in-progress of sn -> in-prep of sn + 1, leave the epoch and
\* retry from end_epoch; if it fails a helper has decided the outcome.
set_unready(t) ==
  /\ Owner(t, "set_unready")
  /\ \/ /\ in_progress(tid_sn[t])
        /\ tid_sn' = [tid_sn EXCEPT ![t] = unready_desired(@)]
        /\ epochs' = [epochs EXCEPT ![t] = NULL_EPOCH]
        /\ Goto(t, "end_epoch")
        /\ UNCHANGED ol
     \/ /\ ~in_progress(tid_sn[t])
        /\ StartUninstall(t, tid_sn[t])
        /\ UNCHANGED <<tid_sn, epochs>>
  /\ UNCHANGED <<cell, epoch, read_set, write_set, global_epoch, rounds,
                 inside_txn, rolling, hpc, hl, apc, al, readyValid, drained>>

\* owner_uninstall_desc, one entry per step: (desc, old_cnt + 1) becomes
\* the entry's uninstalled lin_var.
owner_uninstall(t) ==
  /\ Owner(t, "uninstall")
  /\ \E c \in ol[t].todo :
       LET e == write_set[t][c] IN
       /\ cell' = [cell EXCEPT ![c] = CASResult(@, [val |-> t, cnt |-> e.old_cnt + 1],
                                                 uninstalled(e, ol[t].ok))]
       /\ ol' = [ol EXCEPT ![t].todo = @ \ {c}]
  /\ UNCHANGED <<desc_vars, global_epoch, pc, rounds, inside_txn, rolling, epochs,
                 hpc, hl, apc, al, readyValid, drained>>

\* Faulty variant: the epilogue leaves the thread registered in its epoch.
epilogue_keeps_epoch(t) ==
  /\ Owner(t, "uninstall") /\ ol[t].todo = {}
  /\ inside_txn' = [inside_txn EXCEPT ![t] = FALSE]
  /\ Resume(t, "idle")
  /\ UNCHANGED <<cell, desc_vars, global_epoch, rounds, rolling, epochs, hpc, hl,
                 apc, al, readyValid, drained>>

\* The rest of commit_epilogue and abort_epilogue (or end_op and abort_op
\* after CAS_verify): the thread leaves its epoch and its transaction.
epilogue(t) ==
  /\ Owner(t, "uninstall") /\ ol[t].todo = {}
  /\ epochs' = [epochs EXCEPT ![t] = NULL_EPOCH]
  /\ inside_txn' = [inside_txn EXCEPT ![t] = FALSE]
  /\ Resume(t, "idle")
  /\ UNCHANGED <<cell, desc_vars, global_epoch, rounds, rolling, hpc, hl, apc, al,
                 readyValid, drained>>

\* tx_abort, called when addToReadSet or add_to_write_set finds the
\* transaction inconsistent: a transaction with no writes just ends;
\* otherwise abort(_d) and owner_uninstall_desc.
tx_abort(t) ==
  /\ Owner(t, "tx_abort")
  /\ \/ /\ DOMAIN write_set[t] = {}
        /\ inside_txn' = [inside_txn EXCEPT ![t] = FALSE]
        /\ ol' = [ol EXCEPT ![t] = NoLocals]
        /\ Goto(t, "idle")
        /\ UNCHANGED tid_sn
     \/ /\ DOMAIN write_set[t] # {}
        /\ tid_sn' = [tid_sn EXCEPT ![t] = CASResult(@, abort_expected(@),
                                                      abort_desired(@))]
        /\ StartUninstall(t, tid_sn'[t])
        /\ UNCHANGED inside_txn
  /\ UNCHANGED <<cell, epoch, read_set, write_set, global_epoch, rounds,
                 rolling, epochs, hpc, hl, apc, al, readyValid, drained>>

-----------------------------------------------------------------------------
(* CAS_verify outside an operation (nbtc_CAS with lin_point outside a      *)
(* transaction): begin_op, a one-word MCAS with the thread's descriptor,   *)
(* owner_try_complete, and end_op or abort_op.                            *)

\* begin_op: sc_desc_t::reinit and the thread's epoch; the descriptor's
\* epoch field follows in set_up_epoch.
CAS_verify(t, c, exp, des) ==
  /\ Owner(t, "idle") /\ rounds[t] < MaxRounds
  /\ rounds' = [rounds EXCEPT ![t] = @ + 1]
  /\ rolling' = [rolling EXCEPT ![t] = FALSE]
  /\ tid_sn' = [tid_sn EXCEPT ![t] = increment_sn_reset_status(@)]
  /\ read_set' = [read_set EXCEPT ![t] = <<>>]
  /\ write_set' = [write_set EXCEPT ![t] = <<>>]
  /\ epochs' = [epochs EXCEPT ![t] = global_epoch]
  /\ ol' = [ol EXCEPT ![t] = [NoLocals EXCEPT !.c = c, !.exp = exp, !.des = des]]
  /\ readyValid' = [readyValid EXCEPT ![t] = FALSE]
  /\ Goto(t, "set_up_epoch")
  /\ UNCHANGED <<cell, epoch, global_epoch, inside_txn, hpc, hl, apc, al, drained>>

\* The fallback path's load: a descriptor is helped and the call fails, a
\* different value fails, and otherwise the word joins the write set.
cv_load(t) ==
  /\ Owner(t, "cv_load")
  /\ LET c == ol[t].c
         r == cell[c] IN
     \/ /\ is_desc(r)
        /\ CallHelper(t, c, r, "abort_op")
        /\ UNCHANGED <<pc, ol, write_set>>
     \/ /\ ~is_desc(r) /\ r.val # ol[t].exp
        /\ Goto(t, "abort_op")
        /\ UNCHANGED <<ol, write_set, hpc, hl>>
     \/ /\ ~is_desc(r) /\ r.val = ol[t].exp
        /\ write_set' = [write_set EXCEPT ![t] =
                           add_to_write_set(@, read_set[t], c, r.cnt,
                                            ol[t].exp, ol[t].des).ws]
        /\ ol' = [ol EXCEPT ![t].r = r]
        /\ Goto(t, "cv_ready")
        /\ UNCHANGED <<hpc, hl>>
  /\ UNCHANGED <<cell, tid_sn, epoch, read_set, global_epoch, rounds,
                 inside_txn, rolling, epochs, apc, al, readyValid, drained>>

\* set_ready, whose result CAS_verify ignores.
cv_ready(t) ==
  /\ Owner(t, "cv_ready")
  /\ tid_sn' = [tid_sn EXCEPT ![t] = CASResult(@, ready_expected(@), ready_desired(@))]
  /\ readyValid' = [readyValid EXCEPT ![t] = IF in_prep(tid_sn[t]) THEN ReadsHold(t)
                                                                  ELSE @]
  /\ Goto(t, "cv_install")
  /\ UNCHANGED <<cell, epoch, read_set, write_set, global_epoch, ol, rounds,
                 inside_txn, rolling, epochs, hpc, hl, apc, al, drained>>

\* Installing the descriptor (cnt x00 -> x01); a failed install ends the
\* call with abort_op and leaves the descriptor as it is.
cv_install(t) ==
  /\ Owner(t, "cv_install")
  /\ LET c == ol[t].c
         r == ol[t].r IN
     \/ /\ cell[c] = r
        /\ cell' = [cell EXCEPT ![c] = [val |-> t, cnt |-> r.cnt + 1]]
        /\ Goto(t, "cv_load_d")
     \/ /\ cell[c] # r
        /\ Goto(t, "abort_op")
        /\ UNCHANGED cell
  /\ UNCHANGED <<desc_vars, global_epoch, ol, rounds, inside_txn, rolling,
                 epochs, hpc, hl, apc, al, readyValid, drained>>

\* owner_try_complete: _d = tid_sn.load(); an in-progress descriptor is
\* validated (its read set is empty) and its epoch checked.
cv_load_d(t) ==
  /\ Owner(t, "cv_load_d")
  /\ \/ /\ in_progress(tid_sn[t])
        /\ ol' = [ol EXCEPT ![t].d = tid_sn[t]]
        /\ Goto(t, "cv_check")
     \/ /\ ~in_progress(tid_sn[t])
        /\ StartUninstall(t, tid_sn[t])
  /\ UNCHANGED <<cell, desc_vars, global_epoch, rounds, inside_txn, rolling,
                 epochs, hpc, hl, apc, al, readyValid, drained>>

\* check_epoch(epoch): the descriptor's epoch field against the global one.
cv_check(t) ==
  /\ Owner(t, "cv_check")
  /\ ol' = [ol EXCEPT ![t].ok = (epoch[t] = global_epoch)]
  /\ Goto(t, "cv_cas")
  /\ UNCHANGED <<cell, desc_vars, global_epoch, rounds, inside_txn, rolling,
                 epochs, hpc, hl, apc, al, readyValid, drained>>

\* commit(_d) or abort(_d), then owner_uninstall_desc.
cv_cas(t) ==
  /\ Owner(t, "cv_cas")
  /\ LET d == ol[t].d IN
     tid_sn' = [tid_sn EXCEPT ![t] =
                  IF ol[t].ok THEN CASResult(@, commit_expected(d), commit_desired(d))
                              ELSE CASResult(@, abort_expected(d), abort_desired(d))]
  /\ StartUninstall(t, tid_sn'[t])
  /\ UNCHANGED <<cell, epoch, read_set, write_set, global_epoch, rounds,
                 inside_txn, rolling, epochs, hpc, hl, apc, al, readyValid, drained>>

\* abort_op: the thread leaves its epoch.
abort_op(t) ==
  /\ Owner(t, "abort_op")
  /\ epochs' = [epochs EXCEPT ![t] = NULL_EPOCH]
  /\ ol' = [ol EXCEPT ![t] = NoLocals]
  /\ Goto(t, "idle")
  /\ UNCHANGED <<cell, desc_vars, global_epoch, rounds, inside_txn, rolling,
                 hpc, hl, apc, al, readyValid, drained>>

-----------------------------------------------------------------------------
(* sc_desc_t::helper_try_complete(obj, obj_var), run by thread t on the    *)
(* descriptor of thread o = hl[t].o that it found in word hl[t].c.  Each  *)
(* step is one load or CAS of o's tid_sn or of a word.                    *)

Helper(t, p) == hpc[t] = p
HGoto(t, p) == hpc' = [hpc EXCEPT ![t] = p]
HSet(t, f) == hl' = [hl EXCEPT ![t] = f]

\* Returning to the caller, which resumes at hl[t].ret.
HReturn(t) ==
  /\ hpc' = [hpc EXCEPT ![t] = "none"]
  /\ hl' = [hl EXCEPT ![t] = NoHelp]
  /\ Resume(t, hl[t].ret)

HUnchanged == UNCHANGED <<cell, desc_vars, global_epoch, rounds, inside_txn,
                          rolling, epochs, apc, al, readyValid, drained>>

\* _d = tid_sn.load(); then obj.load() != obj_var returns.
h_load_d(t) ==
  /\ Helper(t, "load_d")
  /\ HSet(t, [hl[t] EXCEPT !.d = tid_sn[hl[t].o]])
  /\ HGoto(t, "check_obj")
  /\ HUnchanged /\ UNCHANGED <<pc, ol>>

h_check_obj(t) ==
  /\ Helper(t, "check_obj")
  /\ LET o == hl[t].o
         d == hl[t].d IN
     \/ /\ cell[hl[t].c] # hl[t].var
        /\ HReturn(t)
     \/ /\ cell[hl[t].c] = hl[t].var
        /\ HGoto(t, CASE in_prep(d)     -> "abort_prep"
                      [] in_progress(d) -> "validate"
                      [] OTHER          -> "uninstall_begin")
        /\ HSet(t, [hl[t] EXCEPT !.todo = IF in_progress(d) THEN DOMAIN read_set[o]
                                                            ELSE {}])
        /\ UNCHANGED <<pc, ol>>
  /\ HUnchanged

\* A descriptor still in preparation is aborted, and _d is reloaded.
h_abort_prep(t) ==
  /\ Helper(t, "abort_prep")
  /\ LET o == hl[t].o
         d == hl[t].d IN
     tid_sn' = [tid_sn EXCEPT ![o] = CASResult(@, abort_expected(d), abort_desired(d))]
  /\ HGoto(t, "reload")
  /\ UNCHANGED <<cell, epoch, read_set, write_set, global_epoch, ol, rounds,
                 inside_txn, rolling, epochs, apc, al, readyValid, drained, hl, pc>>

h_reload(t) ==
  /\ Helper(t, "reload")
  /\ LET o == hl[t].o
         new_d == tid_sn[o] IN
     \/ /\ ~match(hl[t].d, new_d)
        /\ HReturn(t)
     \/ /\ match(hl[t].d, new_d)
        /\ HSet(t, [hl[t] EXCEPT !.d = new_d, !.todo = DOMAIN read_set[o]])
        /\ HGoto(t, IF in_progress(new_d) THEN "validate" ELSE "uninstall_begin")
        /\ UNCHANGED <<pc, ol>>
  /\ HUnchanged

\* helper_validate_reads, one entry per step: the word must equal the read
\* entry (words also in the write set included) and o's tid_sn must still
\* match _d.  The owner may have reset its read set meanwhile; the entry
\* read then is stale, which the match check catches.
h_validate(t) ==
  /\ Helper(t, "validate")
  /\ LET o == hl[t].o IN
     \/ /\ hl[t].todo = {}
        /\ HGoto(t, "check_epoch")
        /\ UNCHANGED hl
     \/ \E c \in hl[t].todo :
          /\ HSet(t, [hl[t] EXCEPT !.todo = @ \ {c}, !.w = c])
          /\ IF c \in DOMAIN read_set[o] /\ cell[c] = read_set[o][c]
             THEN HGoto(t, "validate_match")
             ELSE HGoto(t, "decide")
  /\ HUnchanged /\ UNCHANGED <<pc, ol>>

h_validate_match(t) ==
  /\ Helper(t, "validate_match")
  /\ HGoto(t, IF match(hl[t].d, tid_sn[hl[t].o]) THEN "validate" ELSE "decide")
  /\ HUnchanged /\ UNCHANGED <<pc, ol, hl>>

\* esys->check_epoch(epoch): o's epoch field against the global epoch.
h_check_epoch(t) ==
  /\ Helper(t, "check_epoch")
  /\ HSet(t, [hl[t] EXCEPT !.ok = (epoch[hl[t].o] = global_epoch)])
  /\ HGoto(t, "decide")
  /\ HUnchanged /\ UNCHANGED <<pc, ol>>

\* commit(_d) if validation and the epoch check passed, else abort(_d).
\* Validation that stopped early leaves ok FALSE.
h_decide(t) ==
  /\ Helper(t, "decide")
  /\ LET o == hl[t].o
         d == hl[t].d IN
     tid_sn' = [tid_sn EXCEPT ![o] =
                  IF hl[t].ok THEN CASResult(@, commit_expected(d), commit_desired(d))
                              ELSE CASResult(@, abort_expected(d), abort_desired(d))]
  /\ HGoto(t, "uninstall_begin")
  /\ UNCHANGED <<cell, epoch, read_set, write_set, global_epoch, ol, rounds,
                 inside_txn, rolling, epochs, apc, al, readyValid, drained, hl, pc>>

\* helper_uninstall_desc(old_d): the write-set iterator, then new_d; a
\* different sn returns.
h_uninstall_begin(t) ==
  /\ Helper(t, "uninstall_begin")
  /\ LET o == hl[t].o
         new_d == tid_sn[o] IN
     \/ /\ ~match(hl[t].d, new_d)
        /\ HReturn(t)
     \/ /\ match(hl[t].d, new_d)
        /\ HSet(t, [hl[t] EXCEPT !.todo = DOMAIN write_set[o], !.ok = committed(new_d)])
        /\ HGoto(t, "uninstall")
        /\ UNCHANGED <<pc, ol>>
  /\ HUnchanged

\* Per entry: read it, then recheck that o's tid_sn matches (the acquire
\* fence orders the two, so a matching tid_sn means the entry was o's).
\* An aborted owner still in its body may have removed the entry since the
\* iterator began (a failed install in nbtc_CAS); it is then skipped.
h_uninstall(t) ==
  /\ Helper(t, "uninstall")
  /\ LET o == hl[t].o IN
     \/ /\ hl[t].todo = {}
        /\ HReturn(t)
     \/ \E c \in hl[t].todo :
          \/ /\ ~match(hl[t].d, tid_sn[o])
             /\ HReturn(t)
          \/ /\ match(hl[t].d, tid_sn[o]) /\ c \in DOMAIN write_set[o]
             /\ HSet(t, [hl[t] EXCEPT !.todo = @ \ {c}, !.w = c,
                                      !.ent = write_set[o][c]])
             /\ HGoto(t, "uninstall_cas")
             /\ UNCHANGED <<pc, ol>>
          \/ /\ match(hl[t].d, tid_sn[o]) /\ c \notin DOMAIN write_set[o]
             /\ HSet(t, [hl[t] EXCEPT !.todo = @ \ {c}])
             /\ UNCHANGED <<hpc, pc, ol>>
  /\ HUnchanged

\* (desc, old_cnt + 1) -> (new_val if committed else old_val, old_cnt + 4).
h_uninstall_cas(t) ==
  /\ Helper(t, "uninstall_cas")
  /\ LET e == hl[t].ent IN
     cell' = [cell EXCEPT ![hl[t].w] =
                CASResult(@, [val |-> hl[t].o, cnt |-> e.old_cnt + 1],
                          uninstalled(e, hl[t].ok))]
  /\ HGoto(t, "uninstall")
  /\ UNCHANGED <<desc_vars, global_epoch, ol, rounds, inside_txn, rolling,
                 epochs, apc, al, readyValid, drained, hl, pc>>

-----------------------------------------------------------------------------
(* The epoch advancer: set_epoch(c) starts epoch c and on_epoch_end(c)    *)
(* then ends epoch c - 1, before the next set_epoch.                      *)

AUnchanged == UNCHANGED <<cell, read_set, write_set, epoch, owner_vars, hpc, hl,
                          readyValid>>

\* nbEpochSys::on_epoch_end, per thread: sc_desc_t::try_abort(c - 1) loads
\* _d, then aborts it if the descriptor's epoch is c - 1 and it is in
\* preparation or in progress; then persist_epoch_local(c - 1).
try_abort_load(u) ==
  /\ Liveness = "Nonblocking" /\ apc = "end" /\ u \in al.todo
  /\ al' = [al EXCEPT !.u = u, !.d = tid_sn[u]]
  /\ apc' = "try_abort"
  /\ AUnchanged /\ UNCHANGED <<tid_sn, global_epoch, drained>>

\* try_abort's test: the descriptor's epoch is the expected one and _d was
\* in preparation or in progress.  Faulty variant: in preparation only.
doomed_prep_only(u, d, e) == epoch[u] = e /\ in_prep(d)
doomed(u, d, e) == epoch[u] = e /\ (in_progress(d) \/ in_prep(d))

try_abort(u) ==
  /\ apc = "try_abort" /\ al.u = u
  /\ LET d == al.d IN
     tid_sn' = [tid_sn EXCEPT ![u] =
                  IF doomed(u, d, global_epoch - 1)
                  THEN CASResult(@, abort_expected(d), abort_desired(d))
                  ELSE @]
  /\ drained' = [drained EXCEPT ![u] = global_epoch - 1]
  /\ al' = [al EXCEPT !.todo = @ \ {u}, !.u = NoTxn, !.d = 0]
  /\ apc' = "end"
  /\ AUnchanged /\ UNCHANGED global_epoch

\* EpochSys::on_epoch_end: spin until no thread is active in c - 1
\* (trans_tracker->no_active), then persist c - 1 for every thread.
\* trans_tracker->no_active(e).  Faulty variant: the tracker is not asked.
no_active_ignored(e) == TRUE
no_active(e) == \A u \in Threads : epochs[u] # e

no_active_drain ==
  /\ Liveness = "Blocking" /\ apc = "end" /\ al.todo # {}
  /\ no_active(global_epoch - 1)
  /\ drained' = [u \in Threads |-> global_epoch - 1]
  /\ al' = [al EXCEPT !.todo = {}]
  /\ AUnchanged /\ UNCHANGED <<tid_sn, global_epoch, apc>>

\* One turn of the spin loop, while some thread is still active in c - 1.
no_active_spin ==
  /\ Liveness = "Blocking" /\ apc = "end" /\ al.todo # {}
  /\ ~no_active(global_epoch - 1)
  /\ UNCHANGED vars

\* set_epoch(c + 1), once epoch c - 1 has been ended.
set_epoch ==
  /\ apc = "end" /\ al.todo = {} /\ global_epoch < MaxEpoch
  /\ global_epoch' = global_epoch + 1
  /\ al' = [al EXCEPT !.todo = Threads]
  /\ AUnchanged /\ UNCHANGED <<tid_sn, apc, drained>>

-----------------------------------------------------------------------------
\* Every thread has run its operations and the advancer has reached the
\* last epoch: the bounded run is over.
Done ==
  /\ \A t \in Threads : pc[t] = "idle" /\ hpc[t] = "none" /\ rounds[t] = MaxRounds
  /\ apc = "end" /\ al.todo = {} /\ global_epoch = MaxEpoch
  /\ UNCHANGED vars

ThreadStep(t) ==
  \/ tx_begin(t) \/ tx_op_separator(t) \/ cas_install(t)
  \/ \E c \in Cells : nbtc_load(t, c) \/ \E des \in Vals : nbtc_store(t, c, des)
  \/ store_load(t) \/ store_install(t)
  \/ \E c \in Cells, exp \in Vals : \E des \in Vals \ {exp} :
       \/ \E lin \in BOOLEAN : nbtc_CAS(t, c, exp, des, lin)
       \/ CAS_begin(t, c, exp, des) \/ CAS_verify(t, c, exp, des)
  \/ CAS_load(t) \/ CAS_cas(t)
  \/ tx_end(t) \/ end_epoch(t) \/ set_up_epoch(t) \/ set_ready(t)
  \/ load_d(t) \/ validate(t) \/ check_epoch(t) \/ commit(t) \/ set_unready(t)
  \/ owner_uninstall(t) \/ epilogue(t) \/ tx_abort(t)
  \/ cv_load(t) \/ cv_ready(t) \/ cv_install(t) \/ cv_load_d(t) \/ cv_check(t)
  \/ cv_cas(t) \/ abort_op(t)

HelperStep(t) ==
  \/ h_load_d(t) \/ h_check_obj(t) \/ h_abort_prep(t) \/ h_reload(t)
  \/ h_validate(t) \/ h_validate_match(t) \/ h_check_epoch(t) \/ h_decide(t)
  \/ h_uninstall_begin(t) \/ h_uninstall(t) \/ h_uninstall_cas(t)

AdvancerStep ==
  \/ \E u \in Threads : try_abort_load(u) \/ try_abort(u)
  \/ no_active_drain \/ no_active_spin \/ set_epoch

Next ==
  \/ \E t \in Threads : ThreadStep(t) \/ HelperStep(t)
  \/ AdvancerStep
  \/ Done

Spec == Init /\ [][Next]_vars

\* Every worker is an OS thread pinned to its own CPU, and the advancer is
\* a dedicated thread: each keeps taking steps while it has one to take.
FairSpec ==
  /\ Spec
  /\ \A t \in Threads : WF_vars(ThreadStep(t) \/ HelperStep(t))
  /\ WF_vars(AdvancerStep)

-----------------------------------------------------------------------------
(* Properties.                                                             *)

Pcs == {"idle", "body", "cas_install", "cas_load", "cas_cas", "store_load", "store_install",
        "end_epoch", "set_up_epoch", "set_ready", "load_d", "validate",
        "check_epoch", "commit", "set_unready", "uninstall", "tx_abort",
        "cv_load", "cv_ready", "cv_install", "cv_load_d", "cv_check", "cv_cas",
        "abort_op"}
HPcs == {"none", "load_d", "check_obj", "abort_prep", "reload", "validate",
         "validate_match", "check_epoch", "decide", "uninstall_begin",
         "uninstall", "uninstall_cas"}
Entries == [old_cnt : Nat, old_val : Vals, new_val : Vals]

TypeOK ==
  /\ cell \in [Cells -> LinVars] /\ \A c \in Cells : cell[c].cnt % 4 \in {0, 1}
  /\ tid_sn \in [Threads -> Nat] /\ epoch \in [Threads -> Nat]
  /\ \A t \in Threads : /\ DOMAIN read_set[t] \subseteq Cells
                        /\ \A c \in DOMAIN read_set[t] : read_set[t][c] \in LinVars
                        /\ DOMAIN write_set[t] \subseteq Cells
                        /\ \A c \in DOMAIN write_set[t] : write_set[t][c] \in Entries
  /\ global_epoch \in INIT_EPOCH..MaxEpoch
  /\ epochs \in [Threads -> {NULL_EPOCH} \cup (INIT_EPOCH..MaxEpoch)]
  /\ pc \in [Threads -> Pcs] /\ hpc \in [Threads -> HPcs]
  /\ apc \in {"end", "try_abort"}

\* A word holding a descriptor (cnt x01, helper_try_complete and the
\* uninstall loops rely on it) is one its owner's current write set names,
\* installed over exactly the counter that entry recorded: no helper's
\* late uninstall CAS, failed nbtc_CAS install or reinit of the owner ever
\* leaves a word pointing at a descriptor that has moved on.
NoOrphanDescriptor ==
  \A c \in Cells : is_desc(cell[c]) =>
    LET o == cell[c].val IN
    /\ c \in DOMAIN write_set[o]
    /\ write_set[o][c].old_cnt + 1 = cell[c].cnt

\* The converse, which the assertions in add_to_write_set and
\* add_to_read_set (a write-set entry that disagrees with the word means
\* the transaction was aborted) depend on: while a transaction is in
\* preparation or in progress, every word of its write set holds its
\* descriptor over the entry's counter.  Only a helper that has aborted
\* the descriptor uninstalls it, and a helper still running on an older sn
\* of the same descriptor must fail its uninstall CAS.  The exception is
\* the entry a failed nbtc_store install leaves behind (the loop and the
\* tx_abort it leads to; see AddToWriteSetAsserts).
LiveWritesInstalled ==
  \A t \in Threads :
    inside_txn[t] /\ (in_prep(tid_sn[t]) \/ in_progress(tid_sn[t]))
      /\ pc[t] \notin {"store_load", "store_install", "tx_abort"} =>
      \A c \in DOMAIN write_set[t] :
        cell[c] = [val |-> t, cnt |-> write_set[t][c].old_cnt + 1]

\* sc_desc_t::add_to_write_set asserts aborted() when the word already has
\* a write-set entry that disagrees with the caller's view of it.  When
\* nbtc_store's install CAS fails, the loop retries with a fresh load, but
\* the entry of the failed attempt stays in the write set: the assertion
\* must then hold for the transaction still in flight.
AddToWriteSetAsserts ==
  \A t \in Threads :
    pc[t] = "store_install" /\ hpc[t] = "none" /\ ol[t].c \in DOMAIN write_set[t]
      /\ (write_set[t][ol[t].c].new_val # ol[t].r.val
          \/ write_set[t][ol[t].c].old_cnt # ol[t].r.cnt)
      => aborted(tid_sn[t])

\* A commit step of a descriptor, by its owner or by a helper, happens only
\* while the epoch it was prepared in has not been ended for its thread by
\* on_epoch_end (try_abort in nbEpochSys, no_active in EpochSys): otherwise
\* the epoch's payloads were persisted without the transaction's writes.
EpochDrainSafe ==
  [][\A u \in Threads : ~committed(tid_sn[u]) /\ committed(tid_sn'[u])
                          => epoch[u] > drained[u]]_vars

\* The engine implements atomic transactions: the logical value of every
\* word (the descriptor's new value once committed, else the old one)
\* evolves as in AtomicTxn, where a transaction commits all its writes at
\* one step, only while it holds every written word and after its reads
\* were checked at set_ready.
Refinement == Abs!ASpec

\* spec.md section 8: a transaction committed at epoch e commits with its
\* status CAS while the global epoch is e.
CommitInCurrentEpoch ==
  [][\A u \in Threads : ~committed(tid_sn[u]) /\ committed(tid_sn'[u])
                          => global_epoch = epoch[u]]_vars

\* EpochSys::on_epoch_end spins until no thread is active in the epoch it
\* ends: every epoch the advancer starts is eventually drained for every
\* thread, so no worker stays registered in an old epoch (every commit
\* and abort epilogue, the set_unready retry and abort_op unregister).
EpochsEventuallyDrain ==
  \A e \in INIT_EPOCH + 1 .. MaxEpoch :
    global_epoch = e ~> \A u \in Threads : drained[u] >= e - 1

=============================================================================
