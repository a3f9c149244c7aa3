------------------------------- MODULE MCUmem -------------------------------
(* Instance of Umem for TLC; the sizes are given in the configurations.    *)
EXTENDS Umem
=============================================================================
