-------------------------- MODULE MCControlSession --------------------------
(* Instances of ControlSession for TLC. *)
EXTENDS ControlSession
=============================================================================
