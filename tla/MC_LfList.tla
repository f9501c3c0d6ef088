------------------------------ MODULE MC_LfList ------------------------------
(* Instances of LfList for TLC.  Threads and values are model values; keys *)
(* are integers because findNode compares them.                           *)
EXTENDS LfList, TLC

CONSTANTS t1, t2, v1, v2

MC_Threads == {t1, t2}
MC_Vals == {v1, v2}
MC_OneVal == {v1}
MC_Symmetry == Permutations(MC_Threads)
====
