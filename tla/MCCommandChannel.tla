-------------------------- MODULE MCCommandChannel --------------------------
(***************************************************************************)
(* Instances of CommandChannel for TLC.                                    *)
(***************************************************************************)
EXTENDS CommandChannel, TLC

ClientSymmetry == Permutations(Clients)
=============================================================================
