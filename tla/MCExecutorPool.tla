--------------------------- MODULE MCExecutorPool ---------------------------
(* Instances of ExecutorPool for TLC. *)
EXTENDS ExecutorPool, TLC

Symmetry == Permutations(Executors) \cup Permutations(Tapes)
            \cup Permutations(LeaseVars) \cup Permutations(Pools)
            \cup Permutations(Threads \ Equipped)
=============================================================================
