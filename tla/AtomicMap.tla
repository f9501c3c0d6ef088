------------------------------ MODULE AtomicMap ------------------------------
(***************************************************************************)
(* What a Medley map (RMap: get, put, insert, remove, replace) promises   *)
(* its callers: every operation takes effect atomically between its       *)
(* invocation and its response.                                            *)
(*                                                                         *)
(* An update that changes the map does so in one step (Apply).  An        *)
(* operation that returns without changing the map (a get, an insert of  *)
(* a present key, a remove or replace of an absent one) answers from a    *)
(* value its key held at some moment since the invocation: `seen` keeps   *)
(* those values, which is the linearizability of a read.                  *)
(***************************************************************************)
CONSTANTS Keys, Vals, Threads, None, NoOp

Kinds == {"get", "put", "insert", "remove", "replace"}
Ops == [kind : Kinds, key : Keys, val : Vals]
Results == Vals \cup {None} \cup BOOLEAN

VARIABLES
  amap,  \* amap[k]: the value of key k, or None
  pend,  \* pend[t]: the operation t has invoked and not yet linearized
  ares,  \* ares[t]: the result of t's last linearized operation
  seen   \* seen[t]: the values pend[t].key has held since the invocation

vars == <<amap, pend, ares, seen>>

\* The values every pending operation has seen, after a step that leaves
\* amap' and pend'.
Observe(m) == [u \in Threads |->
                 IF pend'[u] = NoOp THEN {}
                 ELSE IF pend[u] = NoOp THEN {m[pend'[u].key]}
                 ELSE seen[u] \cup {m[pend'[u].key]}]

Init ==
  /\ amap = [k \in Keys |-> None]
  /\ pend = [t \in Threads |-> NoOp]
  /\ ares = [t \in Threads |-> None]
  /\ seen = [t \in Threads |-> {}]

Invoke(t, o) ==
  /\ pend[t] = NoOp
  /\ pend' = [pend EXCEPT ![t] = o]
  /\ seen' = Observe(amap)
  /\ UNCHANGED <<amap, ares>>

\* The update takes effect: put always, insert only on an absent key,
\* remove and replace only on a present one.  The result is the old value
\* (TRUE for a successful insert).
Apply(t) ==
  LET o == pend[t]  old == amap[o.key]
  IN /\ o # NoOp
     /\ \/ o.kind = "put" /\ ares' = [ares EXCEPT ![t] = old]
        \/ o.kind = "insert" /\ old = None /\ ares' = [ares EXCEPT ![t] = TRUE]
        \/ o.kind = "replace" /\ old # None /\ ares' = [ares EXCEPT ![t] = old]
     /\ amap' = [amap EXCEPT ![o.key] = o.val]
     /\ pend' = [pend EXCEPT ![t] = NoOp]
     /\ seen' = Observe(amap')

Delete(t) ==
  LET o == pend[t]  old == amap[o.key]
  IN /\ o # NoOp /\ o.kind = "remove" /\ old # None
     /\ amap' = [amap EXCEPT ![o.key] = None]
     /\ ares' = [ares EXCEPT ![t] = old]
     /\ pend' = [pend EXCEPT ![t] = NoOp]
     /\ seen' = Observe(amap')

\* An operation that leaves the map as it is answers from `seen`.
Answer(t, r) ==
  LET o == pend[t]
  IN /\ o # NoOp
     /\ \/ o.kind = "get" /\ r \in seen[t]
        \/ o.kind = "insert" /\ r = FALSE /\ \E x \in seen[t] : x # None
        \/ o.kind \in {"remove", "replace"} /\ r = None /\ None \in seen[t]
     /\ ares' = [ares EXCEPT ![t] = r]
     /\ pend' = [pend EXCEPT ![t] = NoOp]
     /\ seen' = Observe(amap)
     /\ UNCHANGED amap

Next ==
  \E t \in Threads :
    \/ \E o \in Ops : Invoke(t, o)
    \/ Apply(t) \/ Delete(t)
    \/ \E r \in Results : Answer(t, r)

Spec == Init /\ [][Next]_vars
====
