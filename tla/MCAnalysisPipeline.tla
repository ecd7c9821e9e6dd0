------------------------ MODULE MCAnalysisPipeline --------------------------
(* Small instances of AnalysisPipeline for TLC.                            *)
EXTENDS AnalysisPipeline, TLC

\* Runs and worker processes are interchangeable; safety runs only.
Symmetry == Permutations(Runs) \cup Permutations(Workers)
=============================================================================
