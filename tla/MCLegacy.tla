------------------------------ MODULE MCLegacy ------------------------------
(* Instances of Legacy for TLC: records of one and two bytes in pages of at most three
   bytes, so that limit, bytes and the end of the log all end pages; gaps in the
   sequence. *)
EXTENDS Legacy

MCSize(s) == IF s = 4 THEN 2 ELSE 1
MCTimes == 0..2
=============================================================================
