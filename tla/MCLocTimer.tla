----------------------------- MODULE MCLocTimer -----------------------------
(* Instances of LocTimer for TLC. *)
EXTENDS LocTimer
=============================================================================
