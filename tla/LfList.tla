-------------------------------- MODULE LfList --------------------------------
(***************************************************************************)
(* One bucket of MedleyLfHashTable (src/rideables/MedleyLfHashTable.hpp)  *)
(* used outside transactions: a sorted lock-free list of nodes with       *)
(* immutable key and value, and a next word that carries a mark bit.      *)
(* Buckets share nothing, so one bucket holding every key shows all       *)
(* interleavings.  Outside a transaction nbtc_load is load, nbtc_CAS     *)
(* with lin_point is CAS_verify and without it CAS (Recoverable.hpp       *)
(* 650-690).  Those are taken here as atomic word operations on the       *)
(* word's logical value: MedleyTxn checks that a descriptor installed    *)
(* by CAS_verify commits all at once (its Refinement property).  A        *)
(* CAS_verify or a CAS may still fail when it meets another thread's     *)
(* descriptor or when the epoch moves; SpuriousFail allows that, up to a *)
(* bound.                                                                  *)
(*                                                                         *)
(* Words are word[0] (the bucket) and word[n] (node n's next).  A node   *)
(* id is never reused: nodes are freed through tretire and the epoch      *)
(* tracker only after every operation that could still hold them.        *)
(***************************************************************************)
EXTENDS Integers, FiniteSets

CONSTANTS
  Threads,     \* threads calling the map
  Keys,        \* keys, ordered as integers (ckey >= key)
  Vals,        \* values
  None,        \* the empty optional
  NoOp,        \* no operation pending
  MaxOps,      \* bound: operations each thread calls
  MaxNodes,    \* bound: nodes allocated by tnew
  MaxSpurious  \* bound: CAS_verify and CAS failures on a matching word

ASSUME Keys \subseteq Nat \ {0}

Nodes == 1 .. MaxNodes
Null == 0
Word == [ptr : Nodes \cup {Null}, mark : BOOLEAN]
Kinds == {"get", "put", "insert", "remove", "replace"}
Updates == {"put", "insert", "replace"}   \* the operations that tnew a node
AnyVal == CHOOSE v \in Vals : TRUE

VARIABLES
  word,     \* word[w]: [ptr, mark] of the bucket (w = 0) or of node w's next
  nkey,     \* nkey[n]: the key of node n
  nval,     \* nval[n]: the value of node n
  nalloc,   \* nodes allocated so far
  pc,       \* pc[t]: program counter
  op,       \* op[t]: the operation [kind, key, val] t is running
  l,        \* l[t]: locals [prev, curr, next, cmark, ckey, tmp, cleanup]
  nops,     \* operations called per thread
  spurious, \* CAS failures on a matching word so far
  retired,  \* retired[n]: how many times node n was passed to tretire
  res,      \* history: the result of t's operation
  linned,   \* history: t's operation has passed its linearization point
  cand      \* history: values op[t].key has held since t invoked it

vars == <<word, nkey, nval, nalloc, pc, op, l, nops, spurious, retired, res,
          linned, cand>>

Plain(n) == [ptr |-> n, mark |-> FALSE]
Marked(n) == [ptr |-> n, mark |-> TRUE]
NoLocals == [prev |-> 0, curr |-> 0, next |-> 0, cmark |-> FALSE, ckey |-> 0,
             tmp |-> 0, cleanup |-> FALSE]

\* The nodes reachable from the bucket, marked ones included.
Reachable ==
  LET RECURSIVE Walk(_, _)
      Walk(n, acc) == IF n = Null \/ n \in acc THEN acc
                      ELSE Walk(word[n].ptr, acc \cup {n})
  IN Walk(word[0].ptr, {})

\* The map the bucket represents: reachable unmarked nodes.
Present == {n \in Reachable : ~word[n].mark}
ValIn(P, k) == IF \E n \in P : nkey[n] = k
                THEN nval[CHOOSE n \in P : nkey[n] = k] ELSE None
AbsMap == LET P == Present IN [k \in Keys |-> ValIn(P, k)]

\* Mutant: the comparison ignores the mark bit.
Holds_ptr_only(w, exp) == word[w].ptr = exp

\* CAS and CAS_verify compare the whole value, pointer and mark bit, with
\* the expected (unmarked) pointer.
Holds(w, exp) == word[w] = Plain(exp)

\* A CAS_verify or CAS whose expected value matches may still fail.
SpuriousFail == spurious < MaxSpurious

-----------------------------------------------------------------------------
Init ==
  /\ word = [w \in {0} \cup Nodes |-> Plain(Null)]
  /\ nkey = [n \in Nodes |-> 0]
  /\ nval = [n \in Nodes |-> AnyVal]
  /\ nalloc = 0
  /\ pc = [t \in Threads |-> "idle"]
  /\ op = [t \in Threads |-> NoOp]
  /\ l = [t \in Threads |-> NoLocals]
  /\ nops = [t \in Threads |-> 0]
  /\ spurious = 0
  /\ retired = [n \in Nodes |-> 0]
  /\ res = [t \in Threads |-> None]
  /\ linned = [t \in Threads |-> FALSE]
  /\ cand = [t \in Threads |-> {}]

\* The call: TX_OP_SEPARATOR (nothing outside a transaction) and, for put,
\* insert and replace, tmpNode = tnew<Node>(this, key, val, nullptr).
invoke(t, kind, k, v) ==
  /\ pc[t] = "idle" /\ nops[t] < MaxOps
  /\ op' = [op EXCEPT ![t] = [kind |-> kind, key |-> k, val |-> v]]
  /\ IF kind \in Updates
       THEN /\ nalloc < MaxNodes
            /\ nalloc' = nalloc + 1
            /\ nkey' = [nkey EXCEPT ![nalloc + 1] = k]
            /\ nval' = [nval EXCEPT ![nalloc + 1] = v]
            /\ l' = [l EXCEPT ![t] = [NoLocals EXCEPT !.tmp = nalloc + 1]]
       ELSE /\ UNCHANGED <<nalloc, nkey, nval>>
            /\ l' = [l EXCEPT ![t] = NoLocals]
  /\ pc' = [pc EXCEPT ![t] = "f_start"]
  /\ nops' = [nops EXCEPT ![t] = @ + 1]
  /\ UNCHANGED <<word, spurious, retired, res, linned>>

\* The operation's response: the thread is idle again.
Return(t, r) ==
  /\ pc' = [pc EXCEPT ![t] = "idle"]
  /\ res' = [res EXCEPT ![t] = r]
  /\ linned' = [linned EXCEPT ![t] = FALSE]

\* What the operation does with findNode's answer (its locals already
\* hold prev, curr and next): the code after each findNode call.
AfterFind(t, found, loc) ==
  LET o == op[t]  curr == loc.curr
  IN IF loc.cleanup THEN Return(t, res[t]) /\ UNCHANGED word /\ l' = [l EXCEPT ![t] = loc]
     ELSE CASE o.kind = "get" ->
                 /\ Return(t, IF found THEN nval[curr] ELSE None)
                 /\ UNCHANGED word /\ l' = [l EXCEPT ![t] = loc]
            [] o.kind \in {"put", "replace"} /\ found ->
                 /\ word' = [word EXCEPT ![loc.tmp] = Plain(loc.next)]
                 /\ pc' = [pc EXCEPT ![t] = "mark_cas"]
                 /\ l' = [l EXCEPT ![t] = loc] /\ UNCHANGED <<res, linned>>
            [] o.kind \in {"put", "insert"} /\ ~found ->
                 /\ word' = [word EXCEPT ![loc.tmp] = Plain(curr)]
                 /\ pc' = [pc EXCEPT ![t] = "link_cas"]
                 /\ l' = [l EXCEPT ![t] = loc] /\ UNCHANGED <<res, linned>>
            [] o.kind = "insert" /\ found ->
                 /\ Return(t, FALSE)
                 /\ UNCHANGED word /\ l' = [l EXCEPT ![t] = loc]
            [] o.kind = "remove" /\ found ->
                 /\ pc' = [pc EXCEPT ![t] = "mark_cas"]
                 /\ UNCHANGED <<word, res, linned>> /\ l' = [l EXCEPT ![t] = loc]
            [] o.kind \in {"remove", "replace"} /\ ~found ->
                 /\ Return(t, None)
                 /\ UNCHANGED word /\ l' = [l EXCEPT ![t] = loc]

-----------------------------------------------------------------------------
(* findNode, one shared access per step.                                   *)

\* prev = &buckets[idx]; curr = prev->ptr.nbtc_load().
f_start(t) ==
  /\ pc[t] = "f_start"
  /\ l' = [l EXCEPT ![t].prev = 0, ![t].curr = word[0].ptr]
  /\ pc' = [pc EXCEPT ![t] = "f_next"]
  /\ UNCHANGED <<word, nkey, nval, nalloc, op, nops, spurious, retired, res, linned>>

\* A null curr ends the search; otherwise load curr->next and read the key.
f_next(t) ==
  LET c == l[t].curr
  IN /\ pc[t] = "f_next"
     /\ IF c = Null
          THEN AfterFind(t, FALSE, l[t])
          ELSE /\ l' = [l EXCEPT ![t].next = word[c].ptr, ![t].cmark = word[c].mark,
                                 ![t].ckey = nkey[c]]
               /\ pc' = [pc EXCEPT ![t] = "f_check"]
               /\ UNCHANGED <<word, res, linned>>
     /\ UNCHANGED <<nkey, nval, nalloc, op, nops, spurious, retired>>

\* Mutant: findNode stops at the first key above the one sought.
KeyReached_past(ckey, key) == ckey > key

\* findNode stops at the first unmarked node whose key is not below key.
KeyReached(ckey, key) == ckey >= key

\* Mutant: the reloaded prev is compared with curr carrying curr's own mark.
Revalidated_with_cmark(loc) == word[loc.prev] = [ptr |-> loc.curr, mark |-> loc.cmark]

\* if (prev->ptr.nbtc_load(this) != getPtr(curr)) break;
Revalidated(loc) == Holds(loc.prev, loc.curr)

\* Re-load prev: if it no longer points to curr, start over.  An unmarked
\* curr either ends the search or becomes the new prev; a marked curr is
\* unlinked next (f_help).
f_check(t) ==
  LET loc == l[t]  k == op[t].key
  IN /\ pc[t] = "f_check"
     /\ CASE ~Revalidated(loc) ->
               /\ pc' = [pc EXCEPT ![t] = "f_start"]
               /\ UNCHANGED <<word, l, res, linned>>
          [] ~loc.cmark /\ KeyReached(loc.ckey, k) ->
               AfterFind(t, loc.ckey = k, loc)
          [] ~loc.cmark ->
               /\ l' = [l EXCEPT ![t].prev = loc.curr, ![t].curr = loc.next]
               /\ pc' = [pc EXCEPT ![t] = "f_next"]
               /\ UNCHANGED <<word, res, linned>>
          [] loc.cmark ->
               /\ pc' = [pc EXCEPT ![t] = "f_help"]
               /\ UNCHANGED <<word, l, res, linned>>
     /\ UNCHANGED <<nkey, nval, nalloc, op, nops, spurious, retired>>

\* prev->ptr.nbtc_CAS(curr, next, false, false), a plain CAS outside a
\* transaction: on success tretire(curr) and go on from next, otherwise
\* start over.
f_help(t) ==
  LET loc == l[t]
  IN /\ pc[t] = "f_help"
     /\ IF Holds(loc.prev, loc.curr)
          THEN \/ /\ word' = [word EXCEPT ![loc.prev] = Plain(loc.next)]
                  /\ retired' = [retired EXCEPT ![loc.curr] = @ + 1]
                  /\ l' = [l EXCEPT ![t].curr = loc.next]
                  /\ pc' = [pc EXCEPT ![t] = "f_next"]
                  /\ UNCHANGED spurious
               \/ /\ SpuriousFail /\ spurious' = spurious + 1
                  /\ pc' = [pc EXCEPT ![t] = "f_start"]
                  /\ UNCHANGED <<word, retired, l>>
          ELSE /\ pc' = [pc EXCEPT ![t] = "f_start"]
               /\ UNCHANGED <<word, retired, l, spurious>>
     /\ UNCHANGED <<nkey, nval, nalloc, op, nops, res, linned>>

-----------------------------------------------------------------------------
(* The linearizing CAS_verify of put, insert, remove and replace, and the  *)
(* cleanup that unlinks a node they marked.                               *)

\* Mutant: replace marks curr the way remove does.
MarkTarget_next(kind, loc) == loc.next

\* The new value of curr->next: setMark(next) for remove, setMark(tmpNode)
\* for put and replace.
MarkTarget(kind, loc) == IF kind = "remove" THEN loc.next ELSE loc.tmp

\* put/replace of an existing key: curr->next from next to
\* setMark(tmpNode); remove: from next to setMark(next).  On success the
\* cleanup runs in place; on failure the loop calls findNode again.
mark_cas(t) ==
  LET loc == l[t]
      target == MarkTarget(op[t].kind, loc)
  IN /\ pc[t] = "mark_cas"
     /\ IF Holds(loc.curr, loc.next)
          THEN \/ /\ word' = [word EXCEPT ![loc.curr] = Marked(target)]
                  /\ res' = [res EXCEPT ![t] = nval[loc.curr]]
                  /\ linned' = [linned EXCEPT ![t] = TRUE]
                  /\ l' = [l EXCEPT ![t].next = target]
                  /\ pc' = [pc EXCEPT ![t] = "cleanup"]
                  /\ UNCHANGED spurious
               \/ /\ SpuriousFail /\ spurious' = spurious + 1
                  /\ pc' = [pc EXCEPT ![t] = "f_start"]
                  /\ UNCHANGED <<word, res, linned, l>>
          ELSE /\ pc' = [pc EXCEPT ![t] = "f_start"]
               /\ UNCHANGED <<word, res, linned, l, spurious>>
     /\ UNCHANGED <<nkey, nval, nalloc, op, nops, retired>>

\* put/insert of an absent key: prev from curr to tmpNode.  Success returns
\* (put: no old value, insert: true); failure calls findNode again.
link_cas(t) ==
  LET loc == l[t]
  IN /\ pc[t] = "link_cas"
     /\ IF Holds(loc.prev, loc.curr)
          THEN \/ /\ word' = [word EXCEPT ![loc.prev] = Plain(loc.tmp)]
                  /\ Return(t, IF op[t].kind = "insert" THEN TRUE ELSE None)
                  /\ UNCHANGED <<spurious, l>>
               \/ /\ SpuriousFail /\ spurious' = spurious + 1
                  /\ pc' = [pc EXCEPT ![t] = "f_start"]
                  /\ UNCHANGED <<word, res, linned, l>>
          ELSE /\ pc' = [pc EXCEPT ![t] = "f_start"]
               /\ UNCHANGED <<word, res, linned, l, spurious>>
     /\ UNCHANGED <<nkey, nval, nalloc, op, nops, retired>>

\* The cleanup lambda: prev->ptr.CAS(curr, successor); on success
\* tretire(curr) and return, otherwise findNode(key) unlinks it and the
\* operation returns after that.
cleanup(t) ==
  LET loc == l[t]
  IN /\ pc[t] = "cleanup"
     /\ IF Holds(loc.prev, loc.curr)
          THEN \/ /\ word' = [word EXCEPT ![loc.prev] = Plain(loc.next)]
                  /\ retired' = [retired EXCEPT ![loc.curr] = @ + 1]
                  /\ Return(t, res[t])
                  /\ UNCHANGED <<spurious, l>>
               \/ /\ SpuriousFail /\ spurious' = spurious + 1
                  /\ l' = [l EXCEPT ![t].cleanup = TRUE]
                  /\ pc' = [pc EXCEPT ![t] = "f_start"]
                  /\ UNCHANGED <<word, retired, res, linned>>
          ELSE /\ l' = [l EXCEPT ![t].cleanup = TRUE]
               /\ pc' = [pc EXCEPT ![t] = "f_start"]
               /\ UNCHANGED <<word, retired, res, linned, spurious>>
     /\ UNCHANGED <<nkey, nval, nalloc, op, nops>>

-----------------------------------------------------------------------------
\* Every thread has made its calls.
Done ==
  /\ \A t \in Threads : pc[t] = "idle" /\ nops[t] = MaxOps
  /\ UNCHANGED vars

Step(t) ==
  \/ \E kind \in Kinds, k \in Keys :
       \/ kind \in Updates /\ \E v \in Vals : invoke(t, kind, k, v)
       \/ kind \notin Updates /\ invoke(t, kind, k, AnyVal)
  \/ f_start(t) \/ f_next(t) \/ f_check(t) \/ f_help(t)
  \/ mark_cas(t) \/ link_cas(t) \/ cleanup(t)

\* The pending operation of t as AtomicMap sees it.
Pending(t) == IF pc[t] = "idle" \/ linned[t] THEN NoOp ELSE op[t]

\* A step of t; cand follows AtomicMap's `seen` through it.
ThreadNext(t) ==
  /\ Step(t)
  /\ LET m == AbsMap'
     IN cand' = [u \in Threads |->
                  IF Pending(u)' = NoOp THEN {}
                  ELSE IF Pending(u) = NoOp THEN {m[op'[u].key]}
                  ELSE cand[u] \cup {m[op'[u].key]}]

Next == (\E t \in Threads : ThreadNext(t)) \/ Done

Spec == Init /\ [][Next]_vars

\* Threads are OS threads that keep running.
FairSpec == Spec /\ \A t \in Threads : WF_vars(ThreadNext(t))

-----------------------------------------------------------------------------
\* The unmarked reachable nodes are sorted by strictly increasing key:
\* findNode's ckey >= key test and the prev re-check leave at most one
\* live node per key, in order.
ListSorted ==
  LET RECURSIVE Sorted(_, _)
      Sorted(n, lo) == n = Null \/
                       IF word[n].mark THEN Sorted(word[n].ptr, lo)
                       ELSE nkey[n] > lo /\ Sorted(word[n].ptr, nkey[n])
  IN Sorted(word[0].ptr, 0)

\* tretire is called on a node at most once, and only once the node is
\* unreachable: findNode's helping CAS and the remove/put cleanup race to
\* unlink the same marked node, and only the winner retires it.
RetiredUnlinked ==
  \A n \in Nodes : retired[n] <= 1 /\ (retired[n] = 1 => n \notin Reachable)

Abs == INSTANCE AtomicMap WITH amap <- AbsMap, pend <- [t \in Threads |-> Pending(t)],
                               ares <- res, seen <- cand

\* The bucket implements an atomic map: each update takes effect at its
\* linearizing CAS_verify, and every other answer is a value the key held
\* during the call.
AbsVars == <<AbsMap, [t \in Threads |-> Pending(t)], res, cand>>
Linearizable == Abs!Init /\ [][UNCHANGED AbsVars \/ Abs!Next]_AbsVars

\* Every call returns: the list is lock-free, and with a bounded number of
\* calls the retry loops of findNode and of the updates all end.
AllCallsReturn == \A t \in Threads : pc[t] # "idle" ~> pc[t] = "idle"
====
