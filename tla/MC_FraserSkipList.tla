--------------------------- MODULE MC_FraserSkipList ---------------------------
(* An instance of FraserSkipList for TLC: two threads, two integer keys   *)
(* (the list compares them), one value (each call's V is a distinct box). *)
EXTENDS FraserSkipList, TLC

CONSTANTS t1, t2, v1

MC_Threads == {t1, t2}
MC_OneVal == {v1}
====
