----------------------------- MODULE FraserSkipList -----------------------------
(***************************************************************************)
(* Fraser's lock-free skip list (src/rideables/FraserSkipList.hpp), the    *)
(* structure under FraserSkipList, txMontageFraserSkipList and           *)
(* TxnBoostingFraserSkipList.  A node has an immutable key and height, a *)
(* value pointer that remove CASes to nullptr (the logical delete), a     *)
(* next word per level whose low bit is the mark, and the READY_FOR_FREE  *)
(* bit of its level word that settles who retires it when an insertion   *)
(* and a removal of the node race.                                         *)
(*                                                                         *)
(* Every step is one access to a shared word; a load followed by a CAS    *)
(* on a word that only the mark can change since (mark_deleted, the      *)
(* new_node->next fix-up) is one step.  A value is a pointer to a V       *)
(* allocated by the call (a box), so the CAS on a node's value compares   *)
(* boxes, not values.  Node ids are never reused: the RCU tracker frees   *)
(* a node only after every operation that could hold it has ended.        *)
(* replace is left out: it returns an empty optional without touching    *)
(* the list.                                                               *)
(***************************************************************************)
EXTENDS Integers, FiniteSets

CONSTANTS
  Threads,   \* threads calling the map
  Keys,      \* keys, ordered as integers
  Vals,      \* values
  None,      \* the empty optional, and nullptr in a value field
  NoOp,      \* no operation pending
  MaxOps,    \* bound: operations each thread calls
  MaxNodes,  \* bound: nodes a put or insert may allocate
  MaxLevel,  \* bound: tallest node (NUM_LEVELS is 20 in the code)
  Ops        \* the operations the threads call, a subset of Kinds

ASSUME Keys \subseteq Nat \ {0} /\ MaxLevel \in Nat \ {0}

Head == 0
Nodes == 1 .. MaxNodes
Tail == MaxNodes + 1
Levels == 0 .. MaxLevel - 1
Top == MaxLevel - 1
TailKey == 1 + CHOOSE k \in Keys : \A j \in Keys : j <= k
Kinds == {"get", "put", "insert", "remove"}
Boxes == [v : Vals, t : Threads, i : 1 .. MaxOps]
AnyVal == CHOOSE v \in Vals : TRUE

VARIABLES
  nxt,      \* nxt[n][i]: [ptr, mark] of node n's next at level i (n = Head too)
  nkey,     \* nkey[n]: the key of node n
  nlev,     \* nlev[n]: the height of node n, 0 while it is not allocated
  val,      \* val[n]: the box node n's value points to, or None
  ready,    \* ready[n]: READY_FOR_FREE is set in node n's level word
  nalloc,   \* nodes handed out so far
  pc,       \* pc[t]: program counter
  op,       \* op[t]: the operation [kind, key, val] t is running
  l,        \* l[t]: locals of the operation and of its searches
  nops,     \* operations called per thread
  retired,  \* retired[n]: how many times node n was passed to tracker.retire
  res,      \* history: the result of t's operation
  linned,   \* history: t's operation has passed its linearization point
  cand      \* history: values op[t].key has held since t invoked it

vars == <<nxt, nkey, nlev, val, ready, nalloc, pc, op, l, nops, retired, res,
          linned, cand>>
shared == <<nxt, nkey, nlev, val, ready, nalloc>>

Plain(n) == [ptr |-> n, mark |-> FALSE]
Key(n) == IF n = Head THEN 0 ELSE IF n = Tail THEN TailKey ELSE nkey[n]
\* tail->next[i] is an unmarked nullptr.
NextOf(n, i) == IF n = Tail THEN Plain(Tail) ELSE nxt[n][i]

NoLocals == [x |-> Head, xn |-> Tail, y |-> Tail, lvl |-> Top, ilvl |-> 0,
             preds |-> [i \in Levels |-> Head], succs |-> [i \in Levels |-> Tail],
             succ |-> Tail, ov |-> None, nn |-> 0, tgt |-> 0, ret |-> "idle"]

\* The nodes reachable at level i from the head, marked ones included.
Reach(i) ==
  LET RECURSIVE Walk(_, _)
      Walk(n, acc) == IF n = Tail \/ n \in acc THEN acc
                      ELSE Walk(nxt[n][i].ptr, acc \cup {n})
  IN Walk(nxt[Head][i].ptr, {})

\* The map the list represents: level-0 nodes whose value is not nullptr.
Present == {n \in Reach(0) : val[n] # None}
ValIn(P, k) == IF \E n \in P : nkey[n] = k
                 THEN val[CHOOSE n \in P : nkey[n] = k].v ELSE None
AbsMap == LET P == Present IN [k \in Keys |-> ValIn(P, k)]

-----------------------------------------------------------------------------
Init ==
  /\ nxt = [n \in {Head} \cup Nodes |-> [i \in Levels |-> Plain(Tail)]]
  /\ nkey = [n \in Nodes |-> 0]
  /\ nlev = [n \in Nodes |-> 0]
  /\ val = [n \in Nodes |-> None]
  /\ ready = [n \in Nodes |-> FALSE]
  /\ nalloc = 0
  /\ pc = [t \in Threads |-> "idle"]
  /\ op = [t \in Threads |-> NoOp]
  /\ l = [t \in Threads |-> NoLocals]
  /\ nops = [t \in Threads |-> 0]
  /\ retired = [n \in Nodes |-> 0]
  /\ res = [t \in Threads |-> None]
  /\ linned = [t \in Threads |-> FALSE]
  /\ cand = [t \in Threads |-> {}]

\* The call.  put and insert allocate their V (new V(val)) here; the node
\* id do_update may need is set aside too, its key written, the rest of
\* the node only if do_update allocates it.
invoke(t, kind, k, v) ==
  /\ pc[t] = "idle" /\ nops[t] < MaxOps
  /\ op' = [op EXCEPT ![t] = [kind |-> kind, key |-> k, val |-> v]]
  /\ IF kind \in {"put", "insert"}
       THEN /\ nalloc < MaxNodes
            /\ nalloc' = nalloc + 1
            /\ nkey' = [nkey EXCEPT ![nalloc + 1] = k]
            /\ l' = [l EXCEPT ![t] = [NoLocals EXCEPT !.nn = nalloc + 1, !.ret = "u_check"]]
       ELSE /\ UNCHANGED <<nalloc, nkey>>
            /\ l' = [l EXCEPT ![t] = [NoLocals EXCEPT !.ret = IF kind = "get" THEN "g_val" ELSE "r_found"]]
  /\ pc' = [pc EXCEPT ![t] = "ws"]
  /\ nops' = [nops EXCEPT ![t] = @ + 1]
  /\ UNCHANGED <<nxt, nlev, val, ready, retired, res, linned>>

Box(t) == [v |-> op[t].val, t |-> t, i |-> nops[t]]

Return(t, r) ==
  /\ pc' = [pc EXCEPT ![t] = "idle"]
  /\ res' = [res EXCEPT ![t] = r]
  /\ linned' = [linned EXCEPT ![t] = FALSE]

\* Start a search: from the head at the top level, back to label ret.
StartStrong(t, ret) ==
  /\ l' = [l EXCEPT ![t].x = Head, ![t].lvl = Top, ![t].ret = ret]
  /\ pc' = [pc EXCEPT ![t] = "ss_lvl"]

-----------------------------------------------------------------------------
(* weak_search_predecessors: follows next pointers, marks ignored.        *)

\* Mutant: the search passes a node whose key equals the one sought.
KeyReached_past(n, k) == Key(n) > k

KeyReached(n, k) == Key(n) >= k

ws(t) ==
  LET loc == l[t]  i == loc.lvl  xn == nxt[loc.x][i].ptr
  IN /\ pc[t] = "ws"
     /\ IF KeyReached(xn, op[t].key)
          THEN LET loc2 == [loc EXCEPT !.preds[i] = loc.x, !.succs[i] = xn]
               IN IF i = 0
                    THEN /\ l' = [l EXCEPT ![t] = [loc2 EXCEPT !.succ = xn]]
                         /\ pc' = [pc EXCEPT ![t] = loc.ret]
                    ELSE /\ l' = [l EXCEPT ![t] = [loc2 EXCEPT !.lvl = i - 1]]
                         /\ UNCHANGED pc
          ELSE /\ l' = [l EXCEPT ![t].x = xn]
               /\ UNCHANGED pc
     /\ UNCHANGED <<shared, op, nops, retired, res, linned>>

-----------------------------------------------------------------------------
(* strong_search_predecessors: skips marked nodes and swings the          *)
(* predecessor over them, restarting when a CAS fails.                     *)

\* x_next = x->next[i]: a marked one sends the search back to the head.
ss_lvl(t) ==
  LET loc == l[t]  w == nxt[loc.x][loc.lvl]
  IN /\ pc[t] = "ss_lvl"
     /\ IF w.mark
          THEN l' = [l EXCEPT ![t].x = Head, ![t].lvl = Top]
          ELSE l' = [l EXCEPT ![t].xn = w.ptr, ![t].y = w.ptr]
     /\ pc' = [pc EXCEPT ![t] = IF w.mark THEN "ss_lvl" ELSE "ss_scan"]
     /\ UNCHANGED <<shared, op, nops, retired, res, linned>>

\* y_next = y->next[i]: shift over a marked y, stop at the first unmarked
\* node whose key is not below key, otherwise y becomes the predecessor.
ss_scan(t) ==
  LET loc == l[t]  yw == NextOf(loc.y, loc.lvl)
  IN /\ pc[t] = "ss_scan"
     /\ CASE yw.mark ->
               l' = [l EXCEPT ![t].y = yw.ptr] /\ UNCHANGED pc
          [] KeyReached(loc.y, op[t].key) ->
               UNCHANGED l /\ pc' = [pc EXCEPT ![t] = "ss_swing"]
          [] OTHER ->
               l' = [l EXCEPT ![t].x = loc.y, ![t].xn = yw.ptr, ![t].y = yw.ptr]
               /\ UNCHANGED pc
     /\ UNCHANGED <<shared, op, nops, retired, res, linned>>

\* Swing x->next[i] from x_next to y when they differ; a failed CAS
\* restarts the search.  Then record pa[i], na[i] and go down a level.
ss_swing(t) ==
  LET loc == l[t]  i == loc.lvl
      loc2 == [loc EXCEPT !.preds[i] = loc.x, !.succs[i] = loc.y]
      Record == IF i = 0
                  THEN /\ l' = [l EXCEPT ![t] = [loc2 EXCEPT !.succ = loc.y]]
                       /\ pc' = [pc EXCEPT ![t] = loc.ret]
                  ELSE /\ l' = [l EXCEPT ![t] = [loc2 EXCEPT !.lvl = i - 1]]
                       /\ pc' = [pc EXCEPT ![t] = "ss_lvl"]
  IN /\ pc[t] = "ss_swing"
     /\ CASE loc.xn = loc.y ->
               Record /\ UNCHANGED nxt
          [] nxt[loc.x][i] = Plain(loc.xn) ->
               Record /\ nxt' = [nxt EXCEPT ![loc.x][i] = Plain(loc.y)]
          [] OTHER ->
               /\ l' = [l EXCEPT ![t].x = Head, ![t].lvl = Top]
               /\ pc' = [pc EXCEPT ![t] = "ss_lvl"] /\ UNCHANGED nxt
     /\ UNCHANGED <<nkey, nlev, val, ready, nalloc, op, nops, retired, res, linned>>

-----------------------------------------------------------------------------
(* mark_deleted and the full delete shared by do_update and remove.       *)

\* Mark x->next[lvl] (load, then CAS until the mark is set), from level
\* height-1 down to 0.  remove goes on to unlink; do_update searches again
\* and retries.
mark_deleted(t) ==
  LET loc == l[t]  x == loc.tgt  i == loc.lvl
  IN /\ pc[t] = "md"
     /\ nxt' = [nxt EXCEPT ![x][i].mark = TRUE]
     /\ CASE i > 0 ->
               l' = [l EXCEPT ![t].lvl = i - 1] /\ UNCHANGED pc
          [] op[t].kind = "remove" ->
               l' = [l EXCEPT ![t].lvl = nlev[x] - 1] /\ pc' = [pc EXCEPT ![t] = "r_unlink"]
          [] OTHER -> StartStrong(t, "u_check")
     /\ UNCHANGED <<nkey, nlev, val, ready, nalloc, op, nops, retired, res, linned>>

\* do_full_delete: after strong_search_predecessors(x->key), tracker.retire(x).
full_delete(t) ==
  /\ pc[t] = "fd"
  /\ retired' = [retired EXCEPT ![l[t].tgt] = @ + 1]
  /\ Return(t, res[t])
  /\ UNCHANGED <<shared, op, l, nops>>

\* check_for_full_delete: TRUE when READY_FOR_FREE was set before; the
\* caller that sets it leaves the retire to the other party.
claim_free(x) == ready[x]

-----------------------------------------------------------------------------
(* get                                                                     *)

\* The node found at level 0 has the key: load its value.
g_val(t) ==
  LET x == l[t].succ
      v == IF x # Tail /\ Key(x) = op[t].key THEN val[x] ELSE None
  IN /\ pc[t] = "g_val"
     /\ Return(t, IF v = None THEN None ELSE v.v)
     /\ UNCHANGED <<shared, op, l, nops, retired>>

-----------------------------------------------------------------------------
(* remove                                                                  *)

\* No node with the key: return; otherwise load its value (nullptr: it is
\* already deleted, return).
r_found(t) ==
  LET x == l[t].succ
  IN /\ pc[t] = "r_found"
     /\ IF x = Tail \/ Key(x) > op[t].key \/ val[x] = None
          THEN Return(t, None) /\ UNCHANGED l
          ELSE /\ l' = [l EXCEPT ![t].ov = val[x], ![t].tgt = x]
               /\ pc' = [pc EXCEPT ![t] = "r_cas"] /\ UNCHANGED <<res, linned>>
     /\ UNCHANGED <<shared, op, nops, retired>>

\* x->val CAS from v to nullptr: the linearization point.  A failed CAS
\* reloads v and stops if it is nullptr.
r_cas(t) ==
  LET loc == l[t]  x == loc.tgt
  IN /\ pc[t] = "r_cas"
     /\ CASE val[x] = loc.ov ->
               /\ val' = [val EXCEPT ![x] = None]
               /\ res' = [res EXCEPT ![t] = loc.ov.v]
               /\ linned' = [linned EXCEPT ![t] = TRUE]
               /\ l' = [l EXCEPT ![t].lvl = nlev[x] - 1]
               /\ pc' = [pc EXCEPT ![t] = "md"]
          [] val[x] = None ->
               Return(t, None) /\ UNCHANGED <<val, l>>
          [] OTHER ->
               /\ l' = [l EXCEPT ![t].ov = val[x]]
               /\ UNCHANGED <<val, pc, res, linned>>
     /\ UNCHANGED <<nxt, nkey, nlev, ready, nalloc, op, nops, retired>>

\* Mutant: a failed unlink always does the full delete, without
\* check_for_full_delete.
UnlinkFailRetires_always(x, i) == TRUE
\* After a failed unlink CAS the remover does the full delete itself below
\* the top level, and at the top level only when check_for_full_delete says
\* the inserter is done.
UnlinkFailRetires(x, i) == i # nlev[x] - 1 \/ claim_free(x)

\* preds[i]->next[i] CAS from x to x's successor, from the top level down.
\* All succeed: tracker.retire(x).  One fails: full delete or hand off.
r_unlink(t) ==
  LET loc == l[t]  x == loc.tgt  i == loc.lvl  p == loc.preds[i]
  IN /\ pc[t] = "r_unlink"
     /\ IF nxt[p][i] = Plain(x)
          THEN /\ nxt' = [nxt EXCEPT ![p][i] = Plain(nxt[x][i].ptr)]
               /\ UNCHANGED ready
               /\ IF i = 0
                    THEN /\ retired' = [retired EXCEPT ![x] = @ + 1]
                         /\ Return(t, res[t]) /\ UNCHANGED l
                    ELSE /\ l' = [l EXCEPT ![t].lvl = i - 1]
                         /\ UNCHANGED <<pc, res, linned, retired>>
          ELSE /\ UNCHANGED <<nxt, retired>>
               \* || short-circuits: the bit is set only at the top level.
               /\ ready' = IF i = nlev[x] - 1 THEN [ready EXCEPT ![x] = TRUE] ELSE ready
               /\ IF UnlinkFailRetires(x, i)
                    THEN StartStrong(t, "fd") /\ UNCHANGED <<res, linned>>
                    ELSE Return(t, res[t]) /\ UNCHANGED l
     /\ UNCHANGED <<nkey, nlev, val, nalloc, op, nops>>

-----------------------------------------------------------------------------
(* do_update: put (overwrite) and insert.                                  *)

\* The retry label.  A node with the key: load its value (nullptr: finish
\* its deletion, search and retry; insert: return false; put: CAS it).
\* None: allocate new_node with a random height once, and point its next
\* words at succs.
u_check(t) ==
  LET loc == l[t]  s == loc.succ  o == op[t]  nn == loc.nn
  IN /\ pc[t] = "u_check"
     /\ IF s # Tail /\ Key(s) = o.key
          THEN /\ CASE val[s] = None ->
                         /\ l' = [l EXCEPT ![t].tgt = s, ![t].lvl = nlev[s] - 1]
                         /\ pc' = [pc EXCEPT ![t] = "md"] /\ UNCHANGED <<res, linned>>
                    [] o.kind = "insert" ->
                         Return(t, FALSE) /\ UNCHANGED l
                    [] OTHER ->
                         /\ l' = [l EXCEPT ![t].ov = val[s]]
                         /\ pc' = [pc EXCEPT ![t] = "u_vcas"] /\ UNCHANGED <<res, linned>>
               /\ UNCHANGED <<nxt, nlev, val>>
          ELSE /\ \E h \in IF nlev[nn] = 0 THEN 1 .. MaxLevel ELSE {nlev[nn]} :
                    /\ nlev' = [nlev EXCEPT ![nn] = h]
                    /\ nxt' = [nxt EXCEPT ![nn] = [i \in Levels |->
                                 IF i < h THEN Plain(loc.succs[i]) ELSE @[i]]]
               /\ val' = [val EXCEPT ![nn] = Box(t)]
               /\ pc' = [pc EXCEPT ![t] = "u_link"]
               /\ UNCHANGED <<l, res, linned>>
     /\ UNCHANGED <<nkey, ready, nalloc, op, nops, retired>>

\* put on a present key: succ->val CAS from ov to the new box, the
\* linearization point; tracker.retire(ov).  A failed CAS reloads ov and
\* goes to the deletion path if it is nullptr.
u_vcas(t) ==
  LET loc == l[t]  s == loc.succ
  IN /\ pc[t] = "u_vcas"
     /\ CASE val[s] = loc.ov ->
               /\ val' = [val EXCEPT ![s] = Box(t)]
               /\ Return(t, loc.ov.v) /\ UNCHANGED l
          [] val[s] = None ->
               /\ l' = [l EXCEPT ![t].tgt = s, ![t].lvl = nlev[s] - 1]
               /\ pc' = [pc EXCEPT ![t] = "md"] /\ UNCHANGED <<val, res, linned>>
          [] OTHER ->
               /\ l' = [l EXCEPT ![t].ov = val[s]]
               /\ UNCHANGED <<val, pc, res, linned>>
     /\ UNCHANGED <<nxt, nkey, nlev, ready, nalloc, op, nops, retired>>

\* preds[0]->next[0] CAS from succ to new_node: the linearization point of
\* an insertion.  Failure searches again and retries.
u_link(t) ==
  LET loc == l[t]  p == loc.preds[0]  nn == loc.nn
  IN /\ pc[t] = "u_link"
     /\ IF nxt[p][0] = Plain(loc.succ)
          THEN /\ nxt' = [nxt EXCEPT ![p][0] = Plain(nn)]
               /\ res' = [res EXCEPT ![t] = IF op[t].kind = "insert" THEN TRUE ELSE None]
               /\ linned' = [linned EXCEPT ![t] = TRUE]
               /\ l' = [l EXCEPT ![t].ilvl = 1]
               /\ pc' = [pc EXCEPT ![t] = IF nlev[nn] = 1 THEN "u_final" ELSE "u_level"]
          ELSE StartStrong(t, "u_check") /\ UNCHANGED <<nxt, res, linned>>
     /\ UNCHANGED <<nkey, nlev, val, ready, nalloc, op, nops, retired>>

\* Mutant: any successor at or after the key counts as a stale node.
StaleAtLevel_ge(s, k) == s # Tail /\ Key(s) >= k
\* succs[i] holds the key being inserted: a node left over at this level.
StaleAtLevel(s, k) == s # Tail /\ Key(s) = k

\* Level i >= 1: stop if new_node->next[i] is marked (someone deletes it
\* under our feet); else bring it up to succs[i].  A succ with our key
\* means a stale node at this level: search again.
u_level(t) ==
  LET loc == l[t]  nn == loc.nn  i == loc.ilvl  s == loc.succs[i]
  IN /\ pc[t] = "u_level"
     /\ IF nxt[nn][i].mark
          THEN pc' = [pc EXCEPT ![t] = "u_final"] /\ UNCHANGED <<nxt, l>>
          ELSE /\ nxt' = [nxt EXCEPT ![nn][i] = Plain(s)]
               /\ IF StaleAtLevel(s, op[t].key)
                    THEN StartStrong(t, "u_level")
                    ELSE pc' = [pc EXCEPT ![t] = "u_plumb"] /\ UNCHANGED l
     /\ UNCHANGED <<nkey, nlev, val, ready, nalloc, op, nops, retired, res, linned>>

\* preds[i]->next[i] CAS from succs[i] to new_node; failure searches again.
u_plumb(t) ==
  LET loc == l[t]  nn == loc.nn  i == loc.ilvl  p == loc.preds[i]
  IN /\ pc[t] = "u_plumb"
     /\ IF nxt[p][i] = Plain(loc.succs[i])
          THEN /\ nxt' = [nxt EXCEPT ![p][i] = Plain(nn)]
               /\ l' = [l EXCEPT ![t].ilvl = i + 1]
               /\ pc' = [pc EXCEPT ![t] = IF i + 1 = nlev[nn] THEN "u_final" ELSE "u_level"]
          ELSE StartStrong(t, "u_level") /\ UNCHANGED nxt
     /\ UNCHANGED <<nkey, nlev, val, ready, nalloc, op, nops, retired, res, linned>>

\* The node is visible at all its levels: check_for_full_delete, and if a
\* remover got there first, do_full_delete.
u_final(t) ==
  LET nn == l[t].nn
  IN /\ pc[t] = "u_final"
     /\ ready' = [ready EXCEPT ![nn] = TRUE]
     /\ IF claim_free(nn)
          THEN /\ l' = [l EXCEPT ![t].tgt = nn, ![t].x = Head, ![t].lvl = Top, ![t].ret = "fd"]
               /\ pc' = [pc EXCEPT ![t] = "ss_lvl"] /\ UNCHANGED <<res, linned>>
          ELSE Return(t, res[t]) /\ UNCHANGED l
     /\ UNCHANGED <<nxt, nkey, nlev, val, nalloc, op, nops, retired>>

-----------------------------------------------------------------------------
\* Every thread has made its calls.
Done ==
  /\ \A t \in Threads : pc[t] = "idle" /\ nops[t] = MaxOps
  /\ UNCHANGED vars

Step(t) ==
  \/ \E kind \in Ops, k \in Keys :
       \/ kind \in {"put", "insert"} /\ \E v \in Vals : invoke(t, kind, k, v)
       \/ kind \in {"get", "remove"} /\ invoke(t, kind, k, AnyVal)
  \/ ws(t) \/ ss_lvl(t) \/ ss_scan(t) \/ ss_swing(t)
  \/ mark_deleted(t) \/ full_delete(t) \/ g_val(t)
  \/ r_found(t) \/ r_cas(t) \/ r_unlink(t)
  \/ u_check(t) \/ u_vcas(t) \/ u_link(t) \/ u_level(t) \/ u_plumb(t) \/ u_final(t)

Pending(t) == IF pc[t] = "idle" \/ linned[t] THEN NoOp ELSE op[t]

ThreadNext(t) ==
  /\ Step(t)
  /\ LET m == AbsMap'
     IN cand' = [u \in Threads |->
                  IF Pending(u)' = NoOp THEN {}
                  ELSE IF Pending(u) = NoOp THEN {m[op'[u].key]}
                  ELSE cand[u] \cup {m[op'[u].key]}]

Next == (\E t \in Threads : ThreadNext(t)) \/ Done

Spec == Init /\ [][Next]_vars

\* Threads are OS threads that keep running.
FairSpec == Spec /\ \A t \in Threads : WF_vars(ThreadNext(t))
-----------------------------------------------------------------------------
\* Every level is ordered: along the next pointers of level i, marked
\* nodes included, keys strictly increase.  Insertion at the upper levels
\* races removal and the searches' swings; a node linked above a stale
\* successor, or twice, would break the order.
LevelsSorted ==
  \A i \in Levels :
    LET RECURSIVE Sorted(_, _)
        Sorted(n, lo) == n = Tail \/ (Key(n) > lo /\ Sorted(nxt[n][i].ptr, Key(n)))
    IN Sorted(nxt[Head][i].ptr, 0)

\* tracker.retire is called on a node at most once, and only once no level
\* reaches it: the remover retires it when it unlinks every level, and when
\* an unlink fails, the READY_FOR_FREE bit picks one of the remover and the
\* still-linking inserter to run do_full_delete.
RetiredUnlinked ==
  \A n \in Nodes : retired[n] <= 1 /\ (retired[n] = 1 => \A i \in Levels : n \notin Reach(i))

Abs == INSTANCE AtomicMap WITH amap <- AbsMap, pend <- [t \in Threads |-> Pending(t)],
                               ares <- res, seen <- cand

\* The skip list implements an atomic map: a put or insert takes effect at
\* its value CAS or its level-0 link, a remove at its value CAS, and every
\* get, failed insert or failed remove answers with a value the key held
\* during the call.
AbsVars == <<AbsMap, [t \in Threads |-> Pending(t)], res, cand>>
Linearizable == Abs!Init /\ [][UNCHANGED AbsVars \/ Abs!Next]_AbsVars

\* Every call returns: the searches restart only when another thread's CAS
\* succeeded, and with a bounded number of calls the retries all end.
AllCallsReturn == \A t \in Threads : pc[t] # "idle" ~> pc[t] = "idle"
====
