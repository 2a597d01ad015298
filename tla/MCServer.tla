------------------------------ MODULE MCServer ------------------------------
\* Model-checking instances of Server.
EXTENDS Server, TLC
CONSTANTS i1, i2, i3, u1, u2, q1, region, key, t1, t2
\* Instances and saves are alike.
Symmetry == {p @@ s : p \in Permutations(Instances), s \in Permutations(Saves)}
=============================================================================
