-------------------------- MODULE MCSearchBudget --------------------------
EXTENDS SearchBudget, TLC

CONSTANTS t1, t2, t3, r1, r2, s1, s2

TwoAndOne == t1 :> r1 @@ t2 :> r1 @@ t3 :> r2
OwnScopes == r1 :> s1 @@ r2 :> s2
ThreadSymmetry == Permutations({t1, t2})
=============================================================================
