-------------------------- MODULE MCLateAttempts --------------------------
EXTENDS LateAttempts

\* The shipped catalog without the steps that do nothing but record or wait.
MCSteps == SelectSeq(stepCatalog, LAMBDA s : s.action # None \/ s.marksComplete)
=============================================================================
