---------------------------- MODULE MC_NbPersist ----------------------------
(* Model values and constant definitions for checking NbPersist with TLC. *)
EXTENDS NbPersist, TLC

CONSTANTS t1, t2, k1, k2, s1, s2, s3, s4, s5

MC_Threads == {t1, t2}
MC_Keys == {k1, k2}
MC_Slots4 == {s1, s2, s3, s4}
MC_Slots5 == {s1, s2, s3, s4, s5}

\* Each thread updates a key of its own.
MC_Disjoint == [t \in MC_Threads |-> [n \in 1 .. 2 |-> IF t = t1 THEN {k1} ELSE {k2}]]

\* Both threads update the same key.
MC_Shared == [t \in MC_Threads |-> [n \in 1 .. 2 |-> {k1}]]

\* t1 updates k1 and then k2; t2 updates k2.
MC_Mixed == [t \in MC_Threads |-> [n \in 1 .. 2 |-> IF t = t1 /\ n = 1 THEN {k1} ELSE {k2}]]

\* t1 runs two transactions, t2 one.
MC_Budget21 == [t \in MC_Threads |-> IF t = t1 THEN 2 ELSE 1]

\* One transaction each.
MC_Budget11 == [t \in MC_Threads |-> 1]

MC_SlotSymmetry == Permutations(MC_Slots4)
MC_Slot5Symmetry == Permutations(MC_Slots5)
====
