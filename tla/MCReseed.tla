------------------------------ MODULE MCReseed ------------------------------
(* Instances of Reseed for TLC. *)
EXTENDS Reseed
=============================================================================
