------------------------------ MODULE MCHashTable ------------------------------
EXTENDS HashTable, TLC

MCNumHash == [k \in Num |-> IF k = 9 THEN 4 ELSE k]
Symmetry == Permutations(Str)
===============================================================================
