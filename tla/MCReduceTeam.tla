---------------------------- MODULE MCReduceTeam ----------------------------
(* Instances of ReduceTeam for TLC. *)
EXTENDS ReduceTeam
=============================================================================
