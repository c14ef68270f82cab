---------------------------- MODULE MCMessageSink ----------------------------
(* Instances of MessageSink for TLC. *)
EXTENDS MessageSink
=============================================================================
