------------------------------- MODULE TxnMap -------------------------------
(***************************************************************************)
(* What a transactional map promises: the operations of a committed       *)
(* transaction (tx_begin ... tx_end) take effect together at one step, in *)
(* the order the body calls them, and each returns what it would return  *)
(* if the transaction ran alone on the committed map.  An aborted         *)
(* transaction takes no step at all.  The single operations mean what    *)
(* they mean in AtomicMap: put always writes, insert only an absent key,  *)
(* remove and replace only a present one; the result is the old value    *)
(* (TRUE or FALSE for insert).                                             *)
(***************************************************************************)
EXTENDS Sequences, SequencesExt

CONSTANTS Keys, Vals, Threads, None,
          Bodies,   \* the transaction bodies the threads run
          InitMap   \* the map before the first transaction

Kinds == {"get", "put", "insert", "remove", "replace"}
Ops == [kind : Kinds, key : Keys, val : Vals]

\* One operation on map m: the map after it and its result.
Step(o, m) ==
  LET old == m[o.key]
      write(v) == [m EXCEPT ![o.key] = v]
  IN CASE o.kind = "get"     -> [map |-> m, res |-> old]
       [] o.kind = "put"     -> [map |-> write(o.val), res |-> old]
       [] o.kind = "insert"  -> IF old = None THEN [map |-> write(o.val), res |-> TRUE]
                                ELSE [map |-> m, res |-> FALSE]
       [] o.kind = "remove"  -> [map |-> IF old = None THEN m ELSE write(None), res |-> old]
       [] o.kind = "replace" -> [map |-> IF old = None THEN m ELSE write(o.val), res |-> old]

\* A body run alone from map m: the final map and the sequence of results.
Run(body, m) ==
  FoldLeft(LAMBDA acc, o : LET s == Step(o, acc.map)
                           IN [map |-> s.map, res |-> Append(acc.res, s.res)],
           [map |-> m, res |-> <<>>], body)

VARIABLES
  amap,  \* amap[k]: the committed value of key k, or None
  ares   \* ares[t]: t's last committed body and the results it returned

Commit(t, b) ==
  LET r == Run(b, amap)
  IN /\ amap' = r.map
     /\ ares' = [ares EXCEPT ![t] = [body |-> b, res |-> r.res]]

Init ==
  /\ amap = InitMap /\ ares = [t \in Threads |-> [body |-> <<>>, res |-> <<>>]]

Spec == Init /\ [][\E t \in Threads, b \in Bodies : Commit(t, b)]_<<amap, ares>>
====
