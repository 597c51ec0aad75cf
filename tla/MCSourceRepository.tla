------------------------ MODULE MCSourceRepository ------------------------
EXTENDS SourceRepository, TLC

UserSymmetry == Permutations(Users)
RefSymmetry  == Permutations(Refs)
Symmetric    == UserSymmetry \cup RefSymmetry
=============================================================================
