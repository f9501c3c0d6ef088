------------------------------ MODULE NbPersist ------------------------------
(***************************************************************************)
(* Buffered persistence and crash recovery of nbEpochSys (EpochSys.cpp),  *)
(* under transactions of txMontageLfHashTable that put or remove one key. *)
(*                                                                         *)
(* A payload block (PBlk) has a header: kind, id, epoch, and the tid and  *)
(* sn of the transaction that tagged it.  The header lives in a cache     *)
(* line; `cache` is what the program sees.  A line reaches NVM when a     *)
(* to-be-persisted bucket is flushed, and also whenever the cache writes  *)
(* it back on its own.  So what a crash leaves of a line is its value at  *)
(* its last flush or any value it held after that: `vers` keeps that set  *)
(* and the crash picks one per line.  Every thread's descriptor is a      *)
(* persistent block too (`dcache`, `dvers`); `gvers` is the epoch         *)
(* container's.                                                           *)
(*                                                                         *)
(* A transaction allocates the new payload and, after its linearizing     *)
(* nbtc_CAS, retires the old one; at tx_end it tags both with its epoch  *)
(* and its (tid, sn), creating the anti-node (DELETE block) of the old    *)
(* payload.  The advancer ends epoch c by aborting the transactions still *)
(* running in c-1 and flushing every thread's bucket of c-1.  Recovery    *)
(* keeps the payloads of epochs at most max_epoch-2 whose transaction     *)
(* committed and whose id no such anti-node deletes.                      *)
(***************************************************************************)
EXTENDS Integers, Sequences, FiniteSets

CONSTANTS
  Threads,
  Keys,
  Access,      \* Access[t][n]: the keys thread t's n-th transaction may update
  Slots,       \* the blocks Ralloc can hand out
  NoSlot,      \* a null block pointer
  DescLine,    \* a thread's descriptor line, as an entry of its bucket
  MaxTxns,     \* bounds the sn
  Budget,      \* Budget[t]: the transactions thread t runs
  InitEpoch,   \* INIT_EPOCH
  MaxEpoch,    \* the advancer stops here
  EvictDescs,  \* whether the cache may write a descriptor line back by itself
  None

ASSUME InitEpoch >= 3 /\ Budget \in [Threads -> 1 .. MaxTxns]

NULL_EPOCH == 0
Epochs == {NULL_EPOCH} \cup (InitEpoch .. MaxEpoch)
TxnIds == Threads \X (1 .. MaxTxns)
Status == {"prep", "prog", "committed", "aborted"}

Header == [kind : {"INIT", "ALLOC", "DELETE"}, id : Nat, epoch : Epochs,
           tid : Threads \cup {None}, sn : 0 .. MaxTxns,
           key : Keys \cup {None}, val : TxnIds \cup {None}]

Desc == [sn : 0 .. MaxTxns, st : Status, ep : Epochs]

\* A block as PBlk() and the Payload constructor leave it.
NewBlock(k, v) == [kind |-> "INIT", id |-> 0, epoch |-> NULL_EPOCH,
                   tid |-> None, sn |-> 0, key |-> k, val |-> v]

VARIABLES
  cache, vers,      \* block headers: as the program sees them; what NVM may hold
  free,             \* blocks Ralloc may allocate
  dcache, dvers,    \* descriptors: [sn, st (status), ep (epoch)]; NVM's choices
  gepoch, gvers,    \* global_epoch, and the epoch container's choices
  tbp,              \* tbp[t][e]: to_be_persisted, thread t's bucket of e
  nextId,           \* uid_generator
  word,             \* word[k]: [pay, own, new], the node word of key k
  pc, epochs, last, palloc, rpay, ranti,   \* per-thread control and locals
  apc, todo, au,    \* the epoch advancer
  hist, clog, resp  \* history: transactions, commit order, responses

vars == <<cache, vers, free, dcache, dvers, gepoch, gvers, tbp, nextId, word,
          pc, epochs, last, palloc, rpay, ranti, apc, todo, au,
          hist, clog, resp>>

NoTxn == [st |-> "none", key |-> None, kind |-> None, ep |-> NULL_EPOCH,
          snap |-> [u \in Threads |-> 0]]

Init ==
  /\ cache = [b \in Slots |-> NewBlock(None, None)]
  /\ vers = [b \in Slots |-> {cache[b]}]
  /\ free = Slots
  /\ dcache = [t \in Threads |-> [sn |-> 0, st |-> "prep", ep |-> NULL_EPOCH]]
  /\ dvers = [t \in Threads |-> {dcache[t]}]
  /\ gepoch = InitEpoch /\ gvers = {InitEpoch}
  /\ tbp = [t \in Threads |-> [e \in Epochs |-> {}]]
  /\ nextId = 1
  /\ word = [k \in Keys |-> [pay |-> NoSlot, own |-> None, new |-> NoSlot]]
  /\ pc = [t \in Threads |-> "idle"]
  /\ epochs = [t \in Threads |-> NULL_EPOCH]
  /\ last = [t \in Threads |-> NULL_EPOCH]
  /\ palloc = [t \in Threads |-> NoSlot]
  /\ rpay = [t \in Threads |-> NoSlot]
  /\ ranti = [t \in Threads |-> NoSlot]
  /\ apc = "set" /\ todo = {} /\ au = None
  /\ hist = [t \in Threads |-> [n \in 1 .. MaxTxns |-> NoTxn]]
  /\ clog = <<>>
  /\ resp = [t \in Threads |-> 0]

(***************************************************************************)
(* Write-back                                                              *)
(***************************************************************************)

\* The lines of the blocks in S are written back (clwb, then sfence).
Flushed(S) == [b \in Slots |-> IF b \in S THEN {cache[b]} ELSE vers[b]]

\* persist_epoch_local(e, u): write back u's bucket of e and empty it.
PersistBucket(u, e) ==
  /\ vers' = Flushed(tbp[u][e])
  /\ dvers' = IF DescLine \in tbp[u][e] THEN [dvers EXCEPT ![u] = {dcache[u]}]
             ELSE dvers

\* Blocks the step writes may reach NVM from now on.
Wrote ==
  vers' = [b \in Slots |-> IF cache'[b] # cache[b] THEN vers[b] \cup {cache'[b]}
                           ELSE vers[b]]

\* So may descriptors, if the cache writes their lines back by itself.
DescWrote(dv) ==
  dvers' = IF EvictDescs
           THEN [t \in Threads |-> IF dcache'[t] # dcache[t]
                                  THEN dv[t] \cup {dcache'[t]} ELSE dv[t]]
           ELSE dv

\* The word after the owner or a helper uninstalls a descriptor that
\* ended with status st.
Uninstalled(w, st) ==
  [pay |-> IF st = "committed" THEN w.new ELSE w.pay, own |-> None,
   new |-> NoSlot]

\* The history records a commit of u's current transaction.
RecordCommit(u) ==
  /\ hist' = [hist EXCEPT ![u][dcache[u].sn].st = "committed",
                          ![u][dcache[u].sn].ep = dcache[u].ep]
  /\ clog' = Append(clog, <<u, dcache[u].sn>>)

Epilogue(st) == IF st = "committed" THEN "commit_epilogue" ELSE "abort_epilogue"

Key(t) == hist[t][dcache[t].sn].key

TxnKeys(t) == Access[t][dcache[t].sn]

(***************************************************************************)
(* Transactions                                                            *)
(***************************************************************************)

\* tx_begin: reinit bumps the descriptor's sn and resets its status.
tx_begin(t) ==
  /\ pc[t] = "idle" /\ dcache[t].sn < Budget[t]
  /\ dcache' = [dcache EXCEPT ![t].sn = @ + 1, ![t].st = "prep"]
  /\ hist' = [hist EXCEPT ![t][dcache[t].sn + 1] =
                [NoTxn EXCEPT !.st = "live", !.snap = resp]]
  /\ DescWrote(dvers)
  /\ pc' = [pc EXCEPT ![t] = "body"]
  /\ UNCHANGED <<cache, vers, free, gepoch, gvers, tbp, nextId, word,
                 epochs, last, palloc, rpay, ranti, apc, todo, au, clog, resp>>

\* put: tnew allocates the node's payload; the nbtc_CAS installs the
\* descriptor in the key's word; after it, the old payload is retired
\* (pretire buffers it in pending_retires, as epochs[tid] is NULL).
put(t, k) ==
  /\ pc[t] = "body" /\ k \in TxnKeys(t) /\ word[k].own = None
  /\ \E p \in free :
       /\ cache' = [cache EXCEPT ![p] = NewBlock(k, <<t, dcache[t].sn>>)]
       /\ free' = free \ {p}
       /\ palloc' = [palloc EXCEPT ![t] = p]
       /\ word' = [word EXCEPT ![k].own = t, ![k].new = p]
  /\ rpay' = [rpay EXCEPT ![t] = word[k].pay]
  /\ hist' = [hist EXCEPT ![t][dcache[t].sn].key = k,
                          ![t][dcache[t].sn].kind = "put"]
  /\ Wrote
  /\ pc' = [pc EXCEPT ![t] = "end_epoch"]
  /\ UNCHANGED <<dcache, dvers, gepoch, gvers, tbp, nextId, epochs, last,
                 ranti, apc, todo, au, clog, resp>>

\* remove of a present key: the nbtc_CAS marks the node; its payload is
\* retired.
remove(t, k) ==
  /\ pc[t] = "body" /\ k \in TxnKeys(t) /\ word[k].own = None
  /\ word[k].pay # NoSlot
  /\ word' = [word EXCEPT ![k].own = t, ![k].new = NoSlot]
  /\ rpay' = [rpay EXCEPT ![t] = word[k].pay]
  /\ hist' = [hist EXCEPT ![t][dcache[t].sn].key = k,
                          ![t][dcache[t].sn].kind = "remove"]
  /\ pc' = [pc EXCEPT ![t] = "end_epoch"]
  /\ UNCHANGED <<cache, vers, free, dcache, dvers, gepoch, gvers, tbp, nextId,
                 epochs, last, palloc, ranti, apc, todo, au, clog, resp>>

\* helper_try_complete on the descriptor t finds in the word: abort it if
\* in preparation, commit or abort it by its epoch if in progress, then
\* uninstall it.
help(t, k) ==
  LET u == word[k].own
      d == dcache[u]
      fin == CASE d.st = "prep" -> "aborted"
               [] d.st = "prog" -> IF gepoch = d.ep THEN "committed"
                                   ELSE "aborted"
               [] OTHER -> d.st
  IN /\ pc[t] = "body" /\ k \in TxnKeys(t) /\ u \notin {None, t}
     /\ dcache' = [dcache EXCEPT ![u].st = fin]
     /\ word' = [word EXCEPT ![k] = Uninstalled(word[k], fin)]
     /\ DescWrote(dvers)
     /\ IF d.st = "prog" /\ fin = "committed" THEN RecordCommit(u)
        ELSE UNCHANGED <<hist, clog>>
     /\ UNCHANGED <<cache, vers, free, gepoch, gvers, tbp, nextId, pc,
                    epochs, last, palloc, rpay, ranti, apc, todo, au, resp>>

\* tx_end up to the commit phase, first part: load the global epoch,
\* local_persist (write back the bucket of the last epoch if the epoch
\* changed), set_up_epoch, and register the descriptor for persistence.
local_persist(t, c) == last[t] # c
tx_end_epoch(t) ==
  LET c == gepoch
      B == IF local_persist(t, c) THEN tbp[t][last[t]] ELSE {}
  IN /\ pc[t] = "end_epoch"
     /\ epochs' = [epochs EXCEPT ![t] = c]
     /\ vers' = Flushed(B)
     /\ dcache' = [dcache EXCEPT ![t].ep = c]
     /\ DescWrote(IF DescLine \in B THEN [dvers EXCEPT ![t] = {dcache[t]}]
                  ELSE dvers)
     /\ tbp' = [tbp EXCEPT ![t] =
                  [e \in Epochs |-> IF e = c THEN tbp[t][c] \cup {DescLine}
                                    ELSE IF B # {} /\ e = last[t] THEN {}
                                    ELSE tbp[t][e]]]
     /\ pc' = [pc EXCEPT ![t] = "end_register"]
     /\ UNCHANGED <<cache, free, gepoch, gvers, nextId, word, last, palloc,
                    rpay, ranti, apc, todo, au, hist, clog, resp>>

\* The anti-node of the retired payload y: a copy of its id, kind DELETE,
\* tagged with epoch c and the transaction.
AntiNode(y, c, t) ==
  [kind |-> "DELETE", id |-> cache[y].id, epoch |-> c, tid |-> t,
   sn |-> dcache[t].sn, key |-> None, val |-> None]

\* Mutant: the payload tagged with the next epoch.
RegisteredNextEpoch(p, c, t) ==
  [cache[p] EXCEPT !.kind = "ALLOC", !.epoch = c + 1, !.tid = t,
                   !.sn = dcache[t].sn, !.id = IF @ = 0 THEN nextId ELSE @]

\* The payload after register_alloc_pblk in epoch c.
Registered(p, c, t) ==
  [cache[p] EXCEPT !.kind = "ALLOC", !.epoch = c, !.tid = t,
                   !.sn = dcache[t].sn, !.id = IF @ = 0 THEN nextId ELSE @]

\* tx_end, second part: prepare_retire_pblk for the pending retire (a new
\* anti-node, or on a retry the one created before) and register_alloc_pblk
\* for the pending allocation, both put in the bucket of the epoch.
tx_end_register(t) ==
  LET c == epochs[t]
      p == palloc[t]
      y == rpay[t]
      Antis == IF y = NoSlot THEN {NoSlot}
               ELSE IF ranti[t] # NoSlot THEN {ranti[t]} ELSE free
  IN /\ pc[t] = "end_register"
     /\ \E a \in Antis :
          /\ cache' = [b \in Slots |->
                         IF b = a THEN AntiNode(y, c, t)
                         ELSE IF b = p THEN Registered(p, c, t)
                         ELSE cache[b]]
          /\ free' = free \ {a}
          /\ ranti' = [ranti EXCEPT ![t] = a]
          /\ tbp' = [tbp EXCEPT ![t][c] = (@ \cup {a, p}) \ {NoSlot}]
     /\ Wrote
     /\ nextId' = IF p # NoSlot /\ cache[p].id = 0 THEN nextId + 1 ELSE nextId
     /\ pc' = [pc EXCEPT ![t] = "set_ready"]
     /\ UNCHANGED <<dcache, dvers, gepoch, gvers, word, epochs, last,
                    palloc, rpay, apc, todo, au, hist, clog, resp>>

\* set_ready: in preparation -> in progress; it fails if already aborted.
set_ready(t) ==
  /\ pc[t] = "set_ready"
  /\ \/ dcache[t].st = "prep"
        /\ dcache' = [dcache EXCEPT ![t].st = "prog"]
        /\ pc' = [pc EXCEPT ![t] = "check_epoch"]
     \/ dcache[t].st # "prep"
        /\ pc' = [pc EXCEPT ![t] = "abort_epilogue"]
        /\ UNCHANGED dcache
  /\ DescWrote(dvers)
  /\ UNCHANGED <<cache, vers, free, gepoch, gvers, tbp, nextId, word,
                 epochs, last, palloc, rpay, ranti, apc, todo, au, hist, clog,
                 resp>>

\* check_epoch; if the epoch moved, set_unready and retry tx_end from the
\* epoch load (the epoch is unregistered and becomes last_epochs).  A
\* failed set_unready leaves the outcome a helper or the advancer chose.
check_epoch(t) ==
  /\ pc[t] = "check_epoch"
  /\ \/ gepoch = epochs[t]
        /\ pc' = [pc EXCEPT ![t] = "commit"]
        /\ UNCHANGED <<dcache, epochs, last>>
     \/ gepoch # epochs[t] /\ dcache[t].st = "prog"
        /\ dcache' = [dcache EXCEPT ![t].st = "prep"]
        /\ last' = [last EXCEPT ![t] = epochs[t]]
        /\ epochs' = [epochs EXCEPT ![t] = NULL_EPOCH]
        /\ pc' = [pc EXCEPT ![t] = "end_epoch"]
     \/ gepoch # epochs[t] /\ dcache[t].st # "prog"
        /\ pc' = [pc EXCEPT ![t] = Epilogue(dcache[t].st)]
        /\ UNCHANGED <<dcache, epochs, last>>
  /\ DescWrote(dvers)
  /\ UNCHANGED <<cache, vers, free, gepoch, gvers, tbp, nextId, word,
                 palloc, rpay, ranti, apc, todo, au, hist, clog, resp>>

\* commit: in progress -> committed; if a helper or the advancer decided
\* first, the epilogue follows their outcome.
commit(t) ==
  /\ pc[t] = "commit"
  /\ \/ dcache[t].st = "prog"
        /\ dcache' = [dcache EXCEPT ![t].st = "committed"]
        /\ RecordCommit(t)
        /\ pc' = [pc EXCEPT ![t] = "commit_epilogue"]
     \/ dcache[t].st # "prog"
        /\ pc' = [pc EXCEPT ![t] = Epilogue(dcache[t].st)]
        /\ UNCHANGED <<dcache, hist, clog>>
  /\ DescWrote(dvers)
  /\ UNCHANGED <<cache, vers, free, gepoch, gvers, tbp, nextId, word,
                 epochs, last, palloc, rpay, ranti, apc, todo, au, resp>>

\* commit_epilogue: uninstall, link the anti-node (a transient field),
\* last_epochs := epochs, clear pending allocations.
commit_epilogue(t) ==
  LET k == Key(t)
  IN /\ pc[t] = "commit_epilogue"
     /\ word' = IF word[k].own = t
                THEN [word EXCEPT ![k] = Uninstalled(word[k], "committed")]
                ELSE word
     /\ last' = [last EXCEPT ![t] = epochs[t]]
     /\ epochs' = [epochs EXCEPT ![t] = NULL_EPOCH]
     /\ palloc' = [palloc EXCEPT ![t] = NoSlot]
     /\ rpay' = [rpay EXCEPT ![t] = NoSlot]
     /\ ranti' = [ranti EXCEPT ![t] = NoSlot]
     /\ resp' = [resp EXCEPT ![t] = @ + 1]
     /\ pc' = [pc EXCEPT ![t] = "idle"]
     /\ UNCHANGED <<cache, vers, free, dcache, dvers, gepoch, gvers, tbp, nextId,
                    apc, todo, au, hist, clog>>

\* abort_epilogue: uninstall; undo the allocation (preclaim -> free_pblk
\* -> delete_pblk) and withdraw the anti-node (delete_pblk): each zeroes
\* the block's epoch, frees it, and registers it in the bucket of the epoch.
abort_epilogue(t) ==
  LET k == Key(t)
      c == epochs[t]
      D == {palloc[t], ranti[t]} \ {NoSlot}
  IN /\ pc[t] = "abort_epilogue"
     /\ word' = IF word[k].own = t
                THEN [word EXCEPT ![k] = Uninstalled(word[k], "aborted")]
                ELSE word
     /\ cache' = [b \in Slots |->
                    IF b \in D THEN [cache[b] EXCEPT !.epoch = NULL_EPOCH]
                    ELSE cache[b]]
     /\ free' = free \cup D
     /\ tbp' = [tbp EXCEPT ![t][c] = @ \cup D]
     /\ hist' = [hist EXCEPT ![t][dcache[t].sn].st = "aborted"]
     /\ last' = [last EXCEPT ![t] = c]
     /\ epochs' = [epochs EXCEPT ![t] = NULL_EPOCH]
     /\ palloc' = [palloc EXCEPT ![t] = NoSlot]
     /\ rpay' = [rpay EXCEPT ![t] = NoSlot]
     /\ ranti' = [ranti EXCEPT ![t] = NoSlot]
     /\ resp' = [resp EXCEPT ![t] = @ + 1]
     /\ pc' = [pc EXCEPT ![t] = "idle"]
     /\ Wrote
     /\ UNCHANGED <<dcache, dvers, gepoch, gvers, nextId, apc, todo, au,
                    clog>>

(***************************************************************************)
(* The epoch advancer: set_epoch(c), then on_epoch_end(c), which visits   *)
(* every thread lagging behind (the persist tracker picks them): try_abort *)
(* its descriptor of epoch c-1, then write back its bucket of c-1.        *)
(***************************************************************************)
set_epoch ==
  /\ apc = "set" /\ gepoch < MaxEpoch
  /\ gepoch' = gepoch + 1
  /\ todo' = Threads
  /\ apc' = "abort"
  /\ gvers' = gvers \cup {gepoch + 1}
  /\ UNCHANGED <<cache, vers, free, dcache, dvers, tbp, nextId, word, pc,
                 epochs, last, palloc, rpay, ranti, au, hist, clog, resp>>

try_abort(u) ==
  /\ apc = "abort" /\ u \in todo
  /\ dcache' = IF dcache[u].ep = gepoch - 1 /\ dcache[u].st \in {"prep", "prog"}
               THEN [dcache EXCEPT ![u].st = "aborted"] ELSE dcache
  /\ au' = u
  /\ apc' = "persist"
  /\ DescWrote(dvers)
  /\ UNCHANGED <<cache, vers, free, gepoch, gvers, tbp, nextId, word, pc,
                 epochs, last, palloc, rpay, ranti, todo, hist, clog, resp>>

persist_epoch_local ==
  /\ apc = "persist"
  /\ PersistBucket(au, gepoch - 1)
  /\ tbp' = [tbp EXCEPT ![au][gepoch - 1] = {}]
  /\ todo' = todo \ {au}
  /\ apc' = IF todo' = {} THEN "set" ELSE "abort"
  /\ UNCHANGED <<cache, free, dcache, gepoch, gvers, nextId, word, pc, epochs,
                 last, palloc, rpay, ranti, au, hist, clog, resp>>

(***************************************************************************)
(* Recovery (nbEpochSys::recover), by one recovery thread, over every     *)
(* block the allocator's recover iterator returns.                        *)
(***************************************************************************)

\* The NVM images a crash can leave: one value per line out of its choices.
RECURSIVE Images(_, _)
Images(f, D) ==
  IF D = {} THEN {[x \in {} |-> None]}
  ELSE LET x == CHOOSE y \in D : TRUE
       IN {[y \in DOMAIN g \cup {x} |-> IF y = x THEN v ELSE g[y]] :
             g \in Images(f, D \ {x}), v \in f[x]}

\* First pass over the image N of the blocks, with G the epoch container:
\* the largest epoch seen.
MaxEpochSeen(N, G) ==
  LET es == {G} \cup {N[b].epoch : b \in Slots}
  IN CHOOSE m \in es : \A x \in es : x <= m

Cap(N, G) == MaxEpochSeen(N, G) - 2

\* The block's transaction is not registered, or registered but not
\* committed, in the persisted descriptor D[tid].
\* Mutant: only the sn comparison, not the committed check.
PrematureTxnSnOnly(n, D) == n.sn > D[n.tid].sn

PrematureTxn(n, D) ==
  \/ n.sn > D[n.tid].sn
  \/ n.sn = D[n.tid].sn /\ D[n.tid].st # "committed"

\* An anti-node's deletion does not count.
PrematureAnti(n, D, cap) == n.epoch > cap \/ PrematureTxn(n, D)

\* deleted_ids: the ids of the anti-nodes that carry an epoch, then every
\* id of a premature anti-node erased.
DeletedIds(N, D, cap) ==
  LET anti == {b \in Slots : N[b].kind = "DELETE"}
  IN {N[a].id : a \in {x \in anti : N[x].epoch # NULL_EPOCH}}
       \ {N[a].id : a \in {x \in anti : PrematureAnti(N[x], D, cap)}}

\* Second pass: the conditions that put a block in not_in_use.
NotInUse(n, D, cap, del) ==
  \/ n.epoch = NULL_EPOCH
  \/ n.epoch > cap
  \/ n.id \in del
  \/ PrematureTxn(n, D)

\* The key/value pairs of the payloads recovery hands to the map.
Recovered(N, D, cap) ==
  LET del == DeletedIds(N, D, cap)
      inuse == {b \in Slots : N[b].kind # "DELETE" /\ ~NotInUse(N[b], D, cap, del)}
  IN [k \in Keys |-> {N[b].val : b \in {x \in inuse : N[x].key = k}}]

\* Every thread ran its transactions and the advancer reached its bound.
Done ==
  /\ \A t \in Threads : pc[t] = "idle" /\ dcache[t].sn = Budget[t]
  /\ apc = "set" /\ gepoch = MaxEpoch
  /\ UNCHANGED vars

Next ==
  \/ \E t \in Threads :
       \/ tx_begin(t) \/ tx_end_epoch(t) \/ tx_end_register(t)
       \/ set_ready(t) \/ check_epoch(t) \/ commit(t)
       \/ commit_epilogue(t) \/ abort_epilogue(t)
       \/ \E k \in Keys : put(t, k) \/ remove(t, k) \/ help(t, k)
       \/ try_abort(t)
  \/ set_epoch \/ persist_epoch_local
  \/ Done

Spec == Init /\ [][Next]_vars

(***************************************************************************)
(* Properties                                                              *)
(***************************************************************************)

TypeOK ==
  /\ cache \in [Slots -> Header] /\ vers \in [Slots -> SUBSET Header]
  /\ dcache \in [Threads -> Desc]
  /\ dvers \in [Threads -> SUBSET Desc]
  /\ gvers \subseteq Epochs
  /\ free \subseteq Slots
  /\ word \in [Keys -> [pay : Slots \cup {NoSlot}, own : Threads \cup {None},
                        new : Slots \cup {NoSlot}]]

\* A crash in this state leaves one of these NVM images (blocks,
\* descriptors, epoch container) and recovery runs on it.
Crashes == {<<N, D, G>> : N \in Images(vers, Slots), D \in Images(dvers, Threads),
                         G \in gvers}

\* What recovery makes of those images: the cap and the recovered map.
Outcomes == {<<Cap(c[1], c[3]), Recovered(c[1], c[2], Cap(c[1], c[3]))>> :
               c \in Crashes}

\* After a crash at any moment, every payload recovery keeps was written by
\* a transaction that committed: tx_end's abort paths, the tagging with
\* (tid, sn) and recovery's sn comparison keep an aborted transaction's
\* payload out, whatever lines the cache wrote back.
NoPhantom ==
  \A o \in Outcomes :
    \A k \in Keys : \A v \in o[2][k] :
      hist[v[1]][v[2]].st = "committed" /\ hist[v[1]][v[2]].key = k

\* S(K): the transactions of t with sn at most K[t].
InCut(K, x) == x[2] <= K[x[1]]

\* A cut is a consistent prefix: it holds every transaction committed in
\* an epoch up to the recovery's cap, everything that responded before a
\* member was invoked, and every earlier commit on the same key.
ConsistentCutVector(K, cap) ==
  /\ \A t \in Threads : \A n \in 1 .. MaxTxns :
       hist[t][n].st = "committed" /\ hist[t][n].ep <= cap => n <= K[t]
  /\ \A t \in Threads : \A n \in 1 .. MaxTxns :
       n <= K[t] /\ hist[t][n].st = "committed" =>
         \A u \in Threads : hist[t][n].snap[u] <= K[u]
  /\ \A i, j \in DOMAIN clog :
       i < j /\ InCut(K, clog[j])
       /\ hist[clog[i][1]][clog[i][2]].key = hist[clog[j][1]][clog[j][2]].key
       => InCut(K, clog[i])

\* The value of key k after the committed transactions of the cut, in
\* commit order.
CutValue(K, k) ==
  LET xs == SelectSeq(clog, LAMBDA x : InCut(K, x) /\ hist[x[1]][x[2]].key = k)
      lst == xs[Len(xs)]
  IN IF xs = <<>> \/ hist[lst[1]][lst[2]].kind = "remove" THEN {} ELSE {lst}

\* Buffered durable linearizability of the persistent map: after a crash
\* at any moment, recovery rebuilds the map after a consistent prefix of
\* the committed transactions that holds every transaction committed in
\* an epoch up to max_epoch-2.
ConsistentCut ==
  \A o \in Outcomes :
    \E K \in [Threads -> 0 .. MaxTxns] :
      /\ ConsistentCutVector(K, o[1])
      /\ \A k \in Keys : o[2][k] = CutValue(K, k)
====
