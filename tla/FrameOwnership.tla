--------------------------- MODULE FrameOwnership ---------------------------
(***************************************************************************)
(* What the receive path of the client promises about the frames of its    *)
(* UMEM, the packet buffer it shares with the kernel: a frame is always in *)
(* exactly one place, and it goes round one cycle of places,               *)
(*                                                                         *)
(*     pool -> fill -> kernel -> rx -> pool                                *)
(*                                                                         *)
(* A frame in two places would be written by the kernel while the program  *)
(* reads it; a frame in no place would be lost for good.  Module Umem, the *)
(* model of the code, is shown to implement this specification.            *)
(***************************************************************************)

CONSTANT Frames   \* the frames of the UMEM

VARIABLE where    \* where[f] is the set of places that hold frame f

Places == {"pool", "fill", "kernel", "rx"}

TypeOK == where \in [Frames -> SUBSET Places]

\* Before the socket is configured the program owns every frame.
Init == where = [f \in Frames |-> {"pool"}]

\* The frames S move from one place to the next.
Move(S, from, to) ==
  /\ \A f \in S : where[f] = {from}
  /\ where' = [f \in Frames |-> IF f \in S THEN {to} ELSE where[f]]

\* The program posts frames of its pool on the fill ring.
Post == \E S \in SUBSET Frames : Move(S, "pool", "fill")

\* The kernel takes a posted frame to receive a packet into.
Take == \E f \in Frames : Move({f}, "fill", "kernel")

\* The kernel hands the frame of a received packet to the program.
Deliver == \E f \in Frames : Move({f}, "kernel", "rx")

\* The program has processed the packet and takes the frame back.
Recycle == \E f \in Frames : Move({f}, "rx", "pool")

Next == Post \/ Take \/ Deliver \/ Recycle

Spec == Init /\ [][Next]_where
=============================================================================
