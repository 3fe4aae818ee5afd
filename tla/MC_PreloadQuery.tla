--------------------------- MODULE MC_PreloadQuery ---------------------------
(* A query finds nobody, one user, two, or one twice because of a join.     *)
EXTENDS PreloadQuery, TLC
MCReads == {<<>>} \cup {<<u>> : u \in Users} \cup {<<u, u>> : u \in Users}
             \cup {s \in Users \X Users : s[1] # s[2]}
MCSymmetry == Permutations(Users) \cup Permutations(Rows)
=============================================================================
