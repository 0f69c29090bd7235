---------------------------- MODULE MCAnalysisJobs ----------------------------
(***************************************************************************)
(* Instances of AnalysisJobs for TLC.                                      *)
(***************************************************************************)
EXTENDS AnalysisJobs, TLC

CONSTANTS j1, j2, w1, w2, c1, c2, i1, i2

\* Every goroutine is in the one instance.
OneHome == [x \in Worker \cup Canceler |-> i1]

\* The second worker and the second canceler are in the second instance.
TwoHomes == [x \in Worker \cup Canceler |-> IF x \in {w1, c1} THEN i1 ELSE i2]

\* Jobs, and the goroutines of one instance, are interchangeable.
OneHomeSymmetry ==
    Permutations(Job) \cup Permutations(Worker) \cup Permutations(Canceler)
=============================================================================
