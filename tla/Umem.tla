-------------------------------- MODULE Umem --------------------------------
(***************************************************************************)
(* The frame allocator and the rings of the client's AF_XDP socket         *)
(* (src/lib/xsk_utils.c, src/lib/xsk_receive.c): one user thread runs      *)
(* rx_and_process, the kernel runs concurrently and shares the fill ring   *)
(* and the rx ring with it.                                                *)
(*                                                                         *)
(* A ring is a FIFO sequence together with what each side knows of it: the *)
(* user thread reads the kernel's indices only at the points where libxdp  *)
(* refreshes its cached copies, and the kernel sees the entries of the     *)
(* fill ring only once they are submitted.  A frame is named by the index  *)
(* i of its address i * FRAME_SIZE.                                        *)
(***************************************************************************)
EXTENDS Integers, Sequences, FiniteSets, Functions

CONSTANTS
  NUM_FRAMES,      \* frames of the UMEM: 4096 in xsk_utils.h
  FQ_SIZE,         \* entries of the fill ring: 2048 by default in libxdp
  RX_SIZE,         \* entries of the rx ring: 2048 by default in libxdp
  RX_BATCH_SIZE,   \* descriptors taken at a time: 64 in xsk_utils.h
  KERNEL_HOLD      \* frames the kernel may hold between the two rings

ASSUME SizesAssumption ==
  /\ NUM_FRAMES \in Nat \ {0}
  /\ FQ_SIZE \in Nat \ {0}
  /\ RX_SIZE \in Nat \ {0}
  /\ RX_BATCH_SIZE \in Nat \ {0}
  /\ KERNEL_HOLD \in Nat \ {0}

\* The comment of xsk_configure_socket: "we assume we have enough".
ASSUME EnoughAssumption == FQ_SIZE <= NUM_FRAMES

VARIABLES
  pc,               \* where the user thread is
  umem_frame_addr,  \* the stack of free frames
  umem_frame_free,  \* its height
  fq,               \* fill ring: entries written and not yet consumed
  fqAvail,          \* how many of them are submitted
  fqFree,           \* free entries the user thread knows of (cached)
  kernel,           \* frames taken by the kernel and not yet delivered
  rxq,              \* rx ring: descriptors delivered and not yet released
  rxSeen,           \* descriptors the user thread knows of and has not peeked
  rcvd,             \* descriptors peeked in this round
  stock_frames,     \* entries to fill in this round
  i                 \* the loop counter of handle_receive_packets

poolVars == <<umem_frame_addr, umem_frame_free>>
fillVars == <<fq, fqAvail, fqFree>>
rxVars   == <<rxq, rxSeen>>
roundVars == <<rcvd, stock_frames, i>>
vars == <<pc, poolVars, fillVars, kernel, rxVars, roundVars>>

Frames == 0 .. NUM_FRAMES - 1
INVALID_UMEM_FRAME == -1      \* UINT64_MAX, no frame's address

Least(m, n) == IF m <= n THEN m ELSE n

-----------------------------------------------------------------------------
(* What libxdp does with the cached indices of the two rings.              *)

\* xsk_prod_nb_free(fq, nb): the cached count when it is at least nb, and
\* the true count, read from the kernel's index, otherwise.
NbFree(nb) == IF fqFree >= nb THEN fqFree ELSE FQ_SIZE - Len(fq)

\* xsk_ring_cons__peek(rx, nb): at most nb of the descriptors known, the
\* kernel's index being read only when none is known.
NbPeek(nb) == Least(IF rxSeen = 0 THEN Len(rxq) ELSE rxSeen, nb)

-----------------------------------------------------------------------------
Init ==
  /\ pc = "configure"
  /\ umem_frame_addr = [n \in Frames |-> n]
  /\ umem_frame_free = NUM_FRAMES
  /\ fq = <<>> /\ fqAvail = 0 /\ fqFree = FQ_SIZE
  /\ kernel = {}
  /\ rxq = <<>> /\ rxSeen = 0
  /\ rcvd = 0 /\ stock_frames = 0 /\ i = 0

\* Mutant of Configure: the frames are posted without leaving the stack.
ConfigureKeepsFrames ==
  /\ pc = "configure"
  /\ fq' = [n \in 1 .. FQ_SIZE |-> umem_frame_addr[umem_frame_free - n]]
  /\ fqAvail' = FQ_SIZE
  /\ fqFree' = fqFree - FQ_SIZE
  /\ pc' = "poll"
  /\ UNCHANGED <<poolVars, kernel, rxVars, roundVars>>

(***************************************************************************)
(* The end of xsk_configure_socket: FQ_SIZE frames are allocated from the  *)
(* top of the stack, written to the fill ring and submitted together.      *)
(***************************************************************************)
Configure ==
  /\ pc = "configure"
  /\ umem_frame_free' = umem_frame_free - FQ_SIZE
  /\ umem_frame_addr' = [n \in Frames |-> IF n < umem_frame_free - FQ_SIZE
                                          THEN umem_frame_addr[n]
                                          ELSE INVALID_UMEM_FRAME]
  /\ fq' = [n \in 1 .. FQ_SIZE |-> umem_frame_addr[umem_frame_free - n]]
  /\ fqAvail' = FQ_SIZE
  /\ fqFree' = fqFree - FQ_SIZE
  /\ pc' = "poll"
  /\ UNCHANGED <<kernel, rxVars, roundVars>>

\* poll reports POLLIN, and a batch of descriptors is peeked.
Peek ==
  /\ pc = "poll"
  /\ rxq # <<>>
  /\ rcvd' = NbPeek(RX_BATCH_SIZE)
  /\ rxSeen' = (IF rxSeen = 0 THEN Len(rxq) ELSE rxSeen) - NbPeek(RX_BATCH_SIZE)
  /\ i' = 0
  /\ pc' = "stock"
  /\ UNCHANGED <<poolVars, fillVars, kernel, rxq, stock_frames>>

\* Mutants of StockFrames: the cached count, never refreshed; the frames of the
\* pool, whatever room the ring has.
StockFramesCached == fqFree
StockFramesPool == umem_frame_free

\* How many entries to fill: xsk_prod_nb_free asked with the frames in the pool.
StockFrames == NbFree(umem_frame_free)

Stock ==
  /\ pc = "stock"
  /\ stock_frames' = StockFrames
  /\ fqFree' = NbFree(umem_frame_free)
  /\ pc' = IF stock_frames' > 0 THEN "reserve" ELSE "process"
  /\ UNCHANGED <<poolVars, fq, fqAvail, kernel, rxVars, rcvd, i>>

\* The entries are reserved.  A reservation that falls short enters the loop
\* that asks for rcvd entries until it gets stock_frames of them ("retry",
\* of which no step is modelled: NeverRetries says that it is never entered).
Reserve ==
  /\ pc = "reserve"
  /\ LET free == NbFree(stock_frames) IN
     IF free >= stock_frames
       THEN pc' = "fill" /\ fqFree' = free - stock_frames
       ELSE pc' = "retry" /\ fqFree' = free
  /\ UNCHANGED <<poolVars, fq, fqAvail, kernel, rxVars, roundVars>>

\* Mutants of AllocPool: no test for an empty pool; no decrement at all.
AllocPoolUnguarded ==
  /\ umem_frame_free' = umem_frame_free - 1
  /\ umem_frame_addr' = [umem_frame_addr EXCEPT
                           ![umem_frame_free - 1] = INVALID_UMEM_FRAME]

AllocPoolKeeps == UNCHANGED poolVars

(***************************************************************************)
(* xsk_alloc_umem_frame: the frame returned, and the pool it leaves.  An   *)
(* empty pool is left alone and INVALID_UMEM_FRAME returned.               *)
(***************************************************************************)
AllocResult ==
  IF umem_frame_free = 0 THEN INVALID_UMEM_FRAME
                         ELSE umem_frame_addr[umem_frame_free - 1]

AllocPool ==
  IF umem_frame_free = 0
    THEN UNCHANGED poolVars
    ELSE /\ umem_frame_free' = umem_frame_free - 1
         /\ umem_frame_addr' = [umem_frame_addr EXCEPT
                                  ![umem_frame_free - 1] = INVALID_UMEM_FRAME]

\* One iteration of the loop that fills the reserved entries.
Fill ==
  /\ pc = "fill"
  /\ i < stock_frames
  /\ fq' = Append(fq, AllocResult)
  /\ AllocPool
  /\ i' = i + 1
  /\ UNCHANGED <<pc, fqAvail, fqFree, kernel, rxVars, rcvd, stock_frames>>

\* xsk_ring_prod__submit: the kernel may use the entries.
Submit ==
  /\ pc = "fill"
  /\ i = stock_frames
  /\ fqAvail' = fqAvail + stock_frames
  /\ i' = 0
  /\ pc' = "process"
  /\ UNCHANGED <<poolVars, fq, fqFree, kernel, rxVars, rcvd, stock_frames>>

\* Mutant of FreeFrame: the index incremented before it is used.
FreeFramePreIncrement(frame) ==
  /\ umem_frame_free < NUM_FRAMES
  /\ umem_frame_addr' = [umem_frame_addr EXCEPT ![umem_frame_free + 1] = frame]
  /\ umem_frame_free' = umem_frame_free + 1

\* xsk_free_umem_frame, behind its assertion.
FreeFrame(frame) ==
  /\ umem_frame_free < NUM_FRAMES
  /\ umem_frame_addr' = [umem_frame_addr EXCEPT ![umem_frame_free] = frame]
  /\ umem_frame_free' = umem_frame_free + 1

\* Mutant of Process: the frame kept for a transmission that never comes, as if
\* process_packet still returned true.
ProcessKeeps ==
  /\ pc = "process"
  /\ i < rcvd
  /\ i' = i + 1
  /\ UNCHANGED <<pc, poolVars, fillVars, kernel, rxVars, rcvd, stock_frames>>

\* One received descriptor: process_packet returns false on every path (the
\* reply leaves through a raw socket), so its frame is freed.
Process ==
  /\ pc = "process"
  /\ i < rcvd
  /\ FreeFrame(rxq[i + 1])
  /\ i' = i + 1
  /\ UNCHANGED <<pc, fillVars, kernel, rxVars, rcvd, stock_frames>>

\* xsk_ring_cons__release.  complete_tx then returns at once: the code that
\* would make outstanding_tx positive is commented out.
Release ==
  /\ pc = "process"
  /\ i = rcvd
  /\ rxq' = SubSeq(rxq, rcvd + 1, Len(rxq))
  /\ rcvd' = 0
  /\ i' = 0
  /\ stock_frames' = 0
  /\ pc' = "poll"
  /\ UNCHANGED <<poolVars, fillVars, kernel, rxSeen>>

User == Configure \/ Peek \/ Stock \/ Reserve \/ Fill \/ Submit \/ Process \/ Release

-----------------------------------------------------------------------------
(* The kernel's side of the socket, as the program relies on it.           *)

\* A packet arrives and the kernel takes the next posted frame for it.
KernelTake ==
  /\ fqAvail > 0
  /\ Head(fq) \in Frames
  /\ Cardinality(kernel) < KERNEL_HOLD
  /\ kernel' = kernel \cup {Head(fq)}
  /\ fq' = Tail(fq)
  /\ fqAvail' = fqAvail - 1
  /\ UNCHANGED <<pc, poolVars, fqFree, rxVars, roundVars>>

\* An entry that is no frame's address is consumed and ignored.
KernelSkip ==
  /\ fqAvail > 0
  /\ Head(fq) \notin Frames
  /\ fq' = Tail(fq)
  /\ fqAvail' = fqAvail - 1
  /\ UNCHANGED <<pc, poolVars, fqFree, kernel, rxVars, roundVars>>

\* The packet is delivered when the rx ring has room; when it has none the
\* packet is dropped and the kernel keeps the frame for the next one.
KernelDeliver(frame) ==
  /\ frame \in kernel
  /\ Len(rxq) < RX_SIZE
  /\ rxq' = Append(rxq, frame)
  /\ kernel' = kernel \ {frame}
  /\ UNCHANGED <<pc, poolVars, fillVars, rxSeen, roundVars>>

Kernel == KernelTake \/ KernelSkip \/ (\E frame \in Frames : KernelDeliver(frame))

Next == User \/ Kernel

Spec == Init /\ [][Next]_vars

\* The user thread is a loop that blocks only in poll, while the rx ring is
\* empty; nothing obliges packets to arrive, so the kernel has no fairness.
FairSpec == Spec /\ WF_vars(User)

-----------------------------------------------------------------------------
(* Where the frames are.                                                   *)

Pool == {umem_frame_addr[n] : n \in 0 .. umem_frame_free - 1}
Posted == Range(fq) \ {INVALID_UMEM_FRAME}

\* Descriptors below i of the current round are processed: their frames are
\* back in the pool although the rx ring still shows them.
Processed == IF pc = "process" THEN i ELSE 0
Received == {rxq[n] : n \in Processed + 1 .. Len(rxq)}

Holding(place) == CASE place = "pool"   -> Pool
                    [] place = "fill"   -> Posted
                    [] place = "kernel" -> kernel
                    [] place = "rx"     -> Received

Where == [f \in Frames |->
            {p \in {"pool", "fill", "kernel", "rx"} : f \in Holding(p)}]

Ownership == INSTANCE FrameOwnership WITH where <- Where

-----------------------------------------------------------------------------
(* Invariants.                                                             *)

PCs == {"configure", "poll", "stock", "reserve", "retry", "fill", "process"}

\* The type of every variable.
TypeOK ==
  /\ pc \in PCs
  /\ umem_frame_addr \in [Frames -> Frames \cup {INVALID_UMEM_FRAME}]
  /\ umem_frame_free \in 0 .. NUM_FRAMES
  /\ fq \in Seq(Frames \cup {INVALID_UMEM_FRAME})
  /\ fqAvail \in 0 .. FQ_SIZE
  /\ fqFree \in 0 .. FQ_SIZE
  /\ kernel \in SUBSET Frames
  /\ rxq \in Seq(Frames)
  /\ rxSeen \in 0 .. RX_SIZE
  /\ rcvd \in 0 .. RX_BATCH_SIZE
  /\ stock_frames \in 0 .. FQ_SIZE
  /\ i \in Nat

\* The indices agree: what the user thread believes of a ring is never more
\* than what is there, and the entries written fit the ring.
CountsAgree ==
  /\ Len(rxq) <= RX_SIZE
  /\ rxSeen + rcvd <= Len(rxq)
  /\ pc \in {"configure", "poll"} => rcvd = 0
  /\ Cardinality(kernel) <= KERNEL_HOLD
  /\ fqAvail <= Len(fq)
  /\ IF pc = "fill"
       THEN /\ i <= stock_frames
            /\ Len(fq) = fqAvail + i
            /\ fqFree + (stock_frames - i) + Len(fq) <= FQ_SIZE
       ELSE /\ Len(fq) = fqAvail
            /\ fqFree + Len(fq) <= FQ_SIZE
  /\ pc = "reserve" => stock_frames <= fqFree
  /\ pc \in {"stock", "reserve"} => i = 0
  /\ pc = "process" => i <= rcvd
  /\ pc = "configure" => /\ umem_frame_free = NUM_FRAMES
                         /\ fq = <<>> /\ kernel = {} /\ rxq = <<>>
                         /\ fqFree = FQ_SIZE

\* No frame is twice in the stack, in the fill ring or in the rx ring.
NoDuplicates ==
  /\ \A m, n \in 0 .. umem_frame_free - 1 :
       /\ umem_frame_addr[m] # INVALID_UMEM_FRAME
       /\ umem_frame_addr[m] = umem_frame_addr[n] => m = n
  /\ \A m, n \in 1 .. Len(fq) :
       fq[m] = fq[n] /\ fq[m] # INVALID_UMEM_FRAME => m = n
  /\ \A m, n \in Processed + 1 .. Len(rxq) : rxq[m] = rxq[n] => m = n

\* Every frame is in exactly one place: none is lost on a path that forgets
\* to free it, none is freed or posted twice.
FramePartition == \A f \in Frames : \E p \in {"pool", "fill", "kernel", "rx"} : Where[f] = {p}

\* The assertion of xsk_free_umem_frame holds whenever it is evaluated.
AssertionHolds == pc = "process" /\ i < rcvd => umem_frame_free < NUM_FRAMES

\* "This should not happen, but just in case": the first reservation always
\* succeeds, so the loop that asks for rcvd entries, and would spin or leak
\* entries when rcvd # stock_frames, is never entered.
NeverRetries == pc # "retry"

\* The inductive invariant.
IInv == TypeOK /\ CountsAgree /\ NoDuplicates /\ FramePartition /\ NeverRetries

\* Every entry of the fill ring is the address of a frame: the allocator is
\* never asked for more frames than the pool has.
OnlyFramesPosted == \A n \in 1 .. Len(fq) : fq[n] \in Frames

\* While poll would block, the kernel has a frame to receive into: otherwise
\* no packet could ever arrive to end the wait.
NeverStarved == pc = "poll" /\ rxq = <<>> => Posted \cup kernel # {}

-----------------------------------------------------------------------------
(* Temporal properties.                                                    *)

\* The socket implements the ownership cycle of FrameOwnership.
OwnershipCycle == Ownership!Spec

\* The fill ring is refilled only in a round that received something: a
\* kernel left without any frame is nevertheless given one again.
StarvedKernelIsFed ==
  pc # "configure" /\ Posted \cup kernel = {} ~> Posted # {}

\* A descriptor is not left in the rx ring: its frame returns to the pool.
ReceivedIsRecycled == \A f \in Frames : f \in Received ~> f \in Pool

=============================================================================
