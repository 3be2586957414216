---------------------------- MODULE MCAwsPipeline ----------------------------
(* Symmetry of the run with faults.                                         *)
EXTENDS AwsPipeline, TLC

\* Processes, slots and jobs are interchangeable.
Interchangeable ==
    Permutations(Procs) \cup Permutations(Slots) \cup Permutations(Jobs)
=============================================================================
