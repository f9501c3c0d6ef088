-------------------------- MODULE MC_SlabHashTable --------------------------
(* Instances of SlabHashTable for TLC.  Keys, values and helpers are model *)
(* values; no definition tells two helpers apart.                         *)
EXTENDS SlabHashTable, TLC

CONSTANTS k1, k2, v1, v2, h1, h2

MC_Keys == {k1, k2}
MC_Vals == {v1, v2}
MC_OneHelper == {h1}
MC_Symmetry == Permutations({h1, h2})
====
