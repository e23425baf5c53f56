----------------------------- MODULE MCDeletion -----------------------------
(* Instances of Deletion for TLC: two chains, so that one can be deleted while
   the deletion of the other is being completed. *)
EXTENDS Deletion
=============================================================================
