----------------------------- MODULE MCVethTable ----------------------------
(***************************************************************************)
(* Instances of VethTable for TLC.  The hashes of three prefixes, and of   *)
(* the two others, share a bucket until the buckets are doubled three      *)
(* times; a fourth doubling separates two of the three.                    *)
(***************************************************************************)
EXTENDS VethTable, TLC

MCPrefixes == {"a", "b", "c", "d", "e"}
MCHash == ("a" :> 0) @@ ("b" :> 8) @@ ("c" :> 16) @@ ("d" :> 1) @@ ("e" :> 9)
MCShort == [p \in MCPrefixes |-> p]

Symmetric == Permutations(Entries)
=============================================================================
