----------------------------- MODULE MCLocEngNi -----------------------------
(* Instances of LocEngNi for TLC. *)
EXTENDS LocEngNi
=============================================================================
