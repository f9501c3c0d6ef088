------------------------------ MODULE AtomicTxn ------------------------------
(***************************************************************************)
(* What Medley's MCAS descriptor engine promises its callers (spec.md,    *)
(* sections 4.2 and 8, Atomicity and Isolation), with no descriptors,     *)
(* counters, helpers or epochs.                                           *)
(*                                                                         *)
(* mem is the logical value of every word.  A transaction of thread t     *)
(* reads words into rset[t] and names its writes in wset[t]; a word it    *)
(* will write is locked to it (lockedBy) until it unlocks it.  Ready(t)   *)
(* is the moment its reads are checked: they must all still hold and no   *)
(* other transaction may hold one of those words.  Commit(t) then applies *)
(* every write at once, which it may only do while it holds all of them.  *)
(* A transaction that is ready may drop back to open (Unready, the epoch  *)
(* retry of tx_end) or be aborted at any time.  Words nobody holds may be *)
(* overwritten by single operations (Write).                               *)
(***************************************************************************)
EXTENDS TLC
CONSTANTS Threads, Cells, Vals, NoTxn

VARIABLES mem, lockedBy, phase, rset, wset

avars == <<mem, lockedBy, phase, rset, wset>>

Phases == {"open", "ready", "closed"}

AInit ==
  /\ mem \in [Cells -> Vals]
  /\ lockedBy = [c \in Cells |-> NoTxn]
  /\ phase = [t \in Threads |-> "open"]
  /\ rset = [t \in Threads |-> <<>>]
  /\ wset = [t \in Threads |-> <<>>]

\* A transaction starts afresh; it may not hold any word.
Begin(t) ==
  /\ \A c \in Cells : lockedBy[c] # t
  /\ phase' = [phase EXCEPT ![t] = "open"]
  /\ rset' = [rset EXCEPT ![t] = <<>>]
  /\ wset' = [wset EXCEPT ![t] = <<>>]
  /\ UNCHANGED <<mem, lockedBy>>

\* A read of a word nobody holds is remembered with the value read.
Read(t, c) ==
  /\ phase[t] # "ready"
  /\ lockedBy[c] = NoTxn
  /\ c \notin DOMAIN rset[t]
  /\ rset' = [rset EXCEPT ![t] = (c :> mem[c]) @@ rset[t]]
  /\ UNCHANGED <<mem, lockedBy, phase, wset>>

\* The new value of a word the transaction already holds, or will lock.
Intend(t, c, v) ==
  /\ phase[t] # "ready"
  /\ wset' = [wset EXCEPT ![t] = (c :> v) @@ wset[t]]
  /\ UNCHANGED <<mem, lockedBy, phase, rset>>

\* Locking a word nobody holds, naming the value to write to it, and
\* unlocking it once the transaction is closed.
Lock(t, c, v) ==
  /\ lockedBy[c] = NoTxn
  /\ lockedBy' = [lockedBy EXCEPT ![c] = t]
  /\ wset' = [wset EXCEPT ![t] = (c :> v) @@ wset[t]]
  /\ UNCHANGED <<mem, phase, rset>>
Unlock(t, c) ==
  /\ lockedBy[c] = t
  /\ phase[t] = "closed"
  /\ lockedBy' = [lockedBy EXCEPT ![c] = NoTxn]
  /\ UNCHANGED <<mem, phase, rset, wset>>

\* The validation point: every read still holds and is not held by another.
Ready(t) ==
  /\ phase[t] = "open"
  /\ \A c \in DOMAIN rset[t] : lockedBy[c] \in {NoTxn, t} /\ mem[c] = rset[t][c]
  /\ phase' = [phase EXCEPT ![t] = "ready"]
  /\ UNCHANGED <<mem, lockedBy, rset, wset>>
Unready(t) ==
  /\ phase[t] = "ready"
  /\ phase' = [phase EXCEPT ![t] = "open"]
  /\ UNCHANGED <<mem, lockedBy, rset, wset>>

\* All writes of a ready transaction that holds every written word.
Commit(t) ==
  /\ phase[t] = "ready"
  /\ \A c \in DOMAIN wset[t] : lockedBy[c] = t
  /\ mem' = [c \in Cells |-> IF c \in DOMAIN wset[t] THEN wset[t][c] ELSE mem[c]]
  /\ phase' = [phase EXCEPT ![t] = "closed"]
  /\ UNCHANGED <<lockedBy, rset, wset>>
Abort(t) ==
  /\ phase[t] # "closed"
  /\ phase' = [phase EXCEPT ![t] = "closed"]
  /\ UNCHANGED <<mem, lockedBy, rset, wset>>

\* A single (non-transactional) write of a word nobody holds.
Write(c, v) ==
  /\ lockedBy[c] = NoTxn
  /\ mem' = [mem EXCEPT ![c] = v]
  /\ UNCHANGED <<lockedBy, phase, rset, wset>>

ANext ==
  \/ \E t \in Threads :
       \/ Begin(t) \/ Ready(t) \/ Unready(t) \/ Commit(t) \/ Abort(t)
       \/ \E c \in Cells : \/ Read(t, c) \/ Unlock(t, c)
                           \/ \E v \in Vals : Intend(t, c, v) \/ Lock(t, c, v)
  \/ \E c \in Cells, v \in Vals : Write(c, v)

ASpec == AInit /\ [][ANext]_avars
=============================================================================
