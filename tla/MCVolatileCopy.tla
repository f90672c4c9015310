-------------------------- MODULE MCVolatileCopy --------------------------
(* All alignments of source and destination within a word, and lengths     *)
(* from nothing to just over a word.                                       *)
EXTENDS VolatileCopy

MCAddrs == 8 .. 16
MCLens == 0 .. 9
=============================================================================
