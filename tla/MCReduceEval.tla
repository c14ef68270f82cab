---------------------------- MODULE MCReduceEval ----------------------------
(* Instances of ReduceEval for TLC. *)
EXTENDS ReduceEval
=============================================================================
