------------------------- MODULE MCVerificationRun -------------------------
EXTENDS VerificationRun, TLC

WorkerSymmetry == Permutations(Workers)
=============================================================================
