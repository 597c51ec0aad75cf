-------------------------- MODULE MCPaperWorkflow --------------------------
EXTENDS PaperWorkflow, TLC

WorkerSymmetry == Permutations(Workers)
Symmetry == WorkerSymmetry \cup Permutations(Refs)
=============================================================================
