---------------------------- MODULE MCStatistics ----------------------------
(***************************************************************************)
(* Statistics for TLC: two lengths, so that counts of packets and of bytes *)
(* differ.                                                                 *)
(***************************************************************************)
EXTENDS Statistics

MCLens == {1, 2}
=============================================================================
