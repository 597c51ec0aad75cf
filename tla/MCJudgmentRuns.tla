--------------------------- MODULE MCJudgmentRuns ---------------------------
EXTENDS JudgmentRuns, TLC

JudgedParts == {1, 3}
FirstParts  == {1}
=============================================================================
