--------------------------- MODULE MCExecutorData ---------------------------
(* Instances of ExecutorData for TLC. *)
EXTENDS ExecutorData, TLC

(* Executors, blocks and slots are interchangeable; Zero is told apart. *)
Symmetry == Permutations(Executors) \cup Permutations(Blocks)
            \cup Permutations(Slots)
=============================================================================
