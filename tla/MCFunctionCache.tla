--------------------------- MODULE MCFunctionCache ---------------------------
(* Instances of FunctionCache for TLC. *)
EXTENDS FunctionCache, TLC

CONSTANTS small, twin, large, huge

(* Two plans fit together; a large one only alone; a huge key leaves no room *)
(* for a plan.  small and twin have the same fingerprint.                   *)
Sizes(s, t, l, h) ==
  (small :> s) @@ (twin :> t) @@ (large :> l) @@ (huge :> h)
MCKeySize == Sizes(1, 1, 1, 6)
MCPlanSize == Sizes(2, 1, 4, 3)
MCFingerprint == Sizes(7, 7, 8, 9)
Symmetry == Permutations(Threads)
=============================================================================
