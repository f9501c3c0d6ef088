---------------------------- MODULE MC_MedleyTxn ----------------------------
(* Instances of MedleyTxn for TLC.  Threads and words are model values;    *)
(* nothing in MedleyTxn tells two threads or two words apart, so both     *)
(* sets are symmetric.                                                     *)
EXTENDS MedleyTxn

CONSTANTS t1, t2, c1, c2

MC_Threads == {t1, t2}
MC_TwoCells == {c1, c2}
MC_OneCell == {c1}
MC_Symmetry == Permutations(MC_Threads) \cup Permutations(MC_TwoCells)
====
