---------------------------- MODULE MCPacketPath ----------------------------
(***************************************************************************)
(* Instances of PacketPath for TLC: two clients share a name, the third    *)
(* has one of its own.                                                     *)
(***************************************************************************)
EXTENDS PacketPath

MCClients == {"c1", "c2", "c3"}
MCPrefixes == {"p1", "p2"}
MCNames == [c \in MCClients |-> IF c = "c3" THEN "p2" ELSE "p1"]
=============================================================================
