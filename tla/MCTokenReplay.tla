--------------------------- MODULE MCTokenReplay ----------------------------
(* Instances of TokenReplay for TLC: a few clock values around the skew and
   lifetime limits. *)
EXTENDS TokenReplay

MCTimes == 0..3
=============================================================================
