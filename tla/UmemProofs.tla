----------------------------- MODULE UmemProofs -----------------------------
(***************************************************************************)
(* Theorems about module Umem, for every size of the UMEM, of the rings    *)
(* and of the batch that SizesAssumption and EnoughAssumption allow.       *)
(***************************************************************************)
EXTENDS Umem, TLAPS, FiniteSetTheorems, SequenceTheorems

Entry == Frames \cup {INVALID_UMEM_FRAME}

(***************************************************************************)
(* FramePartition in terms of the four sets, the form the proofs use.      *)
(***************************************************************************)
InOnePlace(f) ==
  /\ f \in Pool \/ f \in Posted \/ f \in kernel \/ f \in Received
  /\ ~(f \in Pool /\ f \in Posted)
  /\ ~(f \in Pool /\ f \in kernel)
  /\ ~(f \in Pool /\ f \in Received)
  /\ ~(f \in Posted /\ f \in kernel)
  /\ ~(f \in Posted /\ f \in Received)
  /\ ~(f \in kernel /\ f \in Received)

LEMMA PlacesOf ==
  \A f \in Frames : /\ "pool" \in Where[f] <=> f \in Pool
                    /\ "fill" \in Where[f] <=> f \in Posted
                    /\ "kernel" \in Where[f] <=> f \in kernel
                    /\ "rx" \in Where[f] <=> f \in Received
                    /\ Where[f] \subseteq {"pool", "fill", "kernel", "rx"}
  BY DEF Where, Holding

LEMMA PartitionSets == FramePartition <=> \A f \in Frames : InOnePlace(f)
<1>1. ASSUME FramePartition, NEW f \in Frames PROVE InOnePlace(f)
  <2>1. PICK p \in {"pool", "fill", "kernel", "rx"} : Where[f] = {p}
    BY <1>1 DEF FramePartition
  <2>2. QED
    BY <2>1, PlacesOf DEF InOnePlace
<1>2. ASSUME NEW f \in Frames, InOnePlace(f)
      PROVE  \E p \in {"pool", "fill", "kernel", "rx"} : Where[f] = {p}
  <2>1. CASE f \in Pool
    <3>1. Where[f] = {"pool"}
      BY <1>2, <2>1, PlacesOf DEF InOnePlace
    <3>2. QED BY <3>1
  <2>2. CASE f \in Posted
    <3>1. Where[f] = {"fill"}
      BY <1>2, <2>2, PlacesOf DEF InOnePlace
    <3>2. QED BY <3>1
  <2>3. CASE f \in kernel
    <3>1. Where[f] = {"kernel"}
      BY <1>2, <2>3, PlacesOf DEF InOnePlace
    <3>2. QED BY <3>1
  <2>4. CASE f \in Received
    <3>1. Where[f] = {"rx"}
      BY <1>2, <2>4, PlacesOf DEF InOnePlace
    <3>2. QED BY <3>1
  <2>5. QED
    BY <1>2, <2>1, <2>2, <2>3, <2>4 DEF InOnePlace
<1>3. QED
  BY <1>1, <1>2 DEF FramePartition

LEMMA PartitionSetsPrime == FramePartition' <=> \A f \in Frames : InOnePlace(f)'
<1>1. (FramePartition <=> \A f \in Frames : InOnePlace(f))'
  BY PartitionSets, PTL
<1>2. QED
  BY <1>1

-----------------------------------------------------------------------------
(* The four places, element by element.                                    *)

LEMMA InPool == \A f : f \in Pool <=>
                   \E n \in 0 .. umem_frame_free - 1 : umem_frame_addr[n] = f
  BY DEF Pool

LEMMA InPosted == \A f \in Frames : TypeOK =>
                   (f \in Posted <=> \E n \in 1 .. Len(fq) : fq[n] = f)
<1>1. ASSUME NEW f \in Frames, TypeOK
      PROVE  f \in Posted <=> \E n \in 1 .. Len(fq) : fq[n] = f
  <2>1. f # INVALID_UMEM_FRAME
    BY SizesAssumption DEF Frames, INVALID_UMEM_FRAME
  <2>2. DOMAIN fq = 1 .. Len(fq)
    BY <1>1 DEF TypeOK
  <2>3. QED
    BY <2>1, <2>2 DEF Posted, Range
<1>2. QED
  BY <1>1

LEMMA InReceived == \A f : f \in Received <=>
                   \E n \in Processed + 1 .. Len(rxq) : rxq[n] = f
  BY DEF Received

LEMMA FramesFinite == \A S : S \subseteq Frames => IsFiniteSet(S)
<1>1. IsFiniteSet(Frames)
  BY SizesAssumption, FS_Interval DEF Frames
<1>2. QED
  BY <1>1, FS_Subset

LEMMA InitIInv == Init => IInv
<1> SUFFICES ASSUME Init PROVE IInv
  OBVIOUS
<1> USE SizesAssumption, EnoughAssumption DEF Init
<1>1. TypeOK
  BY DEF TypeOK, PCs, Frames, INVALID_UMEM_FRAME
<1>2. CountsAgree
  BY FS_EmptySet DEF CountsAgree
<1>3. NoDuplicates
  BY DEF NoDuplicates, Frames, INVALID_UMEM_FRAME, Processed
<1>4. \A f \in Frames : InOnePlace(f)
  <2>1. Pool = Frames
    BY DEF Pool, Frames
  <2>2. Posted = {} /\ Received = {}
    BY DEF Posted, Received, Range, Processed
  <2>3. QED
    BY <2>1, <2>2 DEF InOnePlace
<1>5. QED
  BY <1>1, <1>2, <1>3, <1>4, PartitionSets DEF IInv, NeverRetries

-----------------------------------------------------------------------------
(* One lemma per action: each step preserves the inductive invariant.      *)

LEMMA ConfigureStep == IInv /\ Configure => IInv'
<1> SUFFICES ASSUME IInv, Configure PROVE IInv'
  OBVIOUS
<1> USE SizesAssumption, EnoughAssumption
    DEF Configure, poolVars, fillVars, rxVars, roundVars
<1>1. /\ TypeOK /\ CountsAgree /\ NoDuplicates
      /\ \A f \in Frames : InOnePlace(f)
  BY PartitionSets DEF IInv
<1>2. /\ umem_frame_free = NUM_FRAMES /\ fqFree = FQ_SIZE
      /\ fq = <<>> /\ kernel = {} /\ rxq = <<>>
      /\ rxSeen = 0 /\ rcvd = 0
  BY <1>1 DEF CountsAgree, TypeOK
<1>3. \A n \in Frames : umem_frame_addr[n] \in Frames
  BY <1>1, <1>2, SMTT(30) DEF NoDuplicates, TypeOK, Frames
<1>4. \A n \in 1 .. FQ_SIZE : /\ umem_frame_free - n \in Frames
                              /\ fq'[n] = umem_frame_addr[umem_frame_free - n]
                              /\ fq'[n] \in Frames
  BY <1>2, <1>3 DEF Frames
<1>5. /\ fq' \in Seq(Frames \cup {INVALID_UMEM_FRAME})
      /\ Len(fq') = FQ_SIZE
  BY <1>2, <1>3 DEF Frames
<1>6. TypeOK'
  BY <1>1, <1>2, <1>3, <1>5 DEF TypeOK, PCs, Frames
<1>7. CountsAgree'
  BY <1>1, <1>2, <1>5 DEF CountsAgree, TypeOK
<1>8. NoDuplicates'
  <2>1. \A m, n \in 0 .. umem_frame_free' - 1 :
           /\ umem_frame_addr'[m] # INVALID_UMEM_FRAME
           /\ umem_frame_addr'[m] = umem_frame_addr'[n] => m = n
    BY <1>1, <1>2 DEF NoDuplicates, Frames
  <2>2. \A m, n \in 1 .. Len(fq') : fq'[m] = fq'[n] => m = n
    BY <1>1, <1>2, <1>4, <1>5 DEF NoDuplicates, Frames
  <2>3. (Processed + 1 .. Len(rxq))' = {}
    BY <1>2 DEF Processed
  <2>4. QED
    BY <2>1, <2>2, <2>3 DEF NoDuplicates
<1>9. ASSUME NEW f \in Frames PROVE InOnePlace(f)'
  <2>1. f \in Pool' <=> \E n \in 0 .. NUM_FRAMES - FQ_SIZE - 1 : umem_frame_addr[n] = f
    <3>1. \A n \in 0 .. NUM_FRAMES - FQ_SIZE - 1 : umem_frame_addr'[n] = umem_frame_addr[n]
      BY <1>2 DEF Frames
    <3>2. Pool' = {umem_frame_addr'[n] : n \in 0 .. NUM_FRAMES - FQ_SIZE - 1}
      BY <1>2 DEF Pool
    <3>3. QED
      BY <3>1, <3>2
  <2>2. f \in Posted' <=> \E n \in 1 .. FQ_SIZE : umem_frame_addr[NUM_FRAMES - n] = f
    <3>1. DOMAIN fq' = 1 .. FQ_SIZE
      OBVIOUS
    <3>2. f # INVALID_UMEM_FRAME
      BY DEF Frames, INVALID_UMEM_FRAME
    <3>3. QED
      BY <1>2, <1>4, <3>1, <3>2 DEF Posted, Range
  <2>3. kernel' = {} /\ Received' = {}
    BY <1>2 DEF Received, Processed
  <2>4. f \in Pool
    <3>1. Posted = {} /\ kernel = {} /\ Received = {}
      BY <1>2 DEF Posted, Received, Range, Processed
    <3>2. QED
      BY <1>1, <3>1 DEF InOnePlace
  <2>5. PICK m \in 0 .. NUM_FRAMES - 1 : umem_frame_addr[m] = f
    BY <1>2, <2>4 DEF Pool
  <2>6. f \in Pool' \/ f \in Posted'
    <3>1. CASE m < NUM_FRAMES - FQ_SIZE
      BY <2>1, <2>5, <3>1
    <3>2. CASE m >= NUM_FRAMES - FQ_SIZE
      <4>1. NUM_FRAMES - m \in 1 .. FQ_SIZE /\ NUM_FRAMES - (NUM_FRAMES - m) = m
        BY <3>2
      <4>2. QED
        BY <2>2, <2>5, <4>1
    <3>3. QED
      BY <3>1, <3>2
  <2>7. ~(f \in Pool' /\ f \in Posted')
    BY <1>1, <1>2, <2>1, <2>2 DEF NoDuplicates, Frames
  <2>8. QED
    BY <2>3, <2>6, <2>7 DEF InOnePlace
<1>10. QED
  BY <1>6, <1>7, <1>8, <1>9, PartitionSetsPrime DEF IInv, NeverRetries

LEMMA PeekStep == IInv /\ Peek => IInv'
<1> SUFFICES ASSUME IInv, Peek PROVE IInv'
  OBVIOUS
<1> USE SizesAssumption, EnoughAssumption
    DEF Peek, poolVars, fillVars, rxVars, roundVars, NbPeek, Least
<1>1. /\ TypeOK /\ CountsAgree /\ NoDuplicates
      /\ \A f \in Frames : InOnePlace(f)
  BY PartitionSets DEF IInv
<1>2. Len(rxq) \in Nat /\ Len(rxq) <= RX_SIZE /\ rcvd = 0 /\ rxSeen <= Len(rxq)
  BY <1>1 DEF TypeOK, CountsAgree
<1>3. /\ rcvd' \in 0 .. RX_BATCH_SIZE
      /\ rxSeen' \in 0 .. RX_SIZE
      /\ rxSeen' + rcvd' <= Len(rxq)
  BY <1>1, <1>2 DEF TypeOK
<1>4. TypeOK'
  BY <1>1, <1>3 DEF TypeOK, PCs
<1>5. CountsAgree'
  BY <1>1, <1>3 DEF CountsAgree, TypeOK
<1>6. NoDuplicates'
  BY <1>1 DEF NoDuplicates, Processed
<1>7. \A f \in Frames : InOnePlace(f)'
  BY <1>1 DEF InOnePlace, Pool, Posted, Received, Processed
<1>8. QED
  BY <1>4, <1>5, <1>6, <1>7, PartitionSetsPrime DEF IInv, NeverRetries

LEMMA StockStep == IInv /\ Stock => IInv'
<1> SUFFICES ASSUME IInv, Stock PROVE IInv'
  OBVIOUS
<1> USE SizesAssumption, EnoughAssumption
    DEF Stock, StockFrames, NbFree, poolVars, fillVars, rxVars, roundVars
<1>1. /\ TypeOK /\ CountsAgree /\ NoDuplicates
      /\ \A f \in Frames : InOnePlace(f)
  BY PartitionSets DEF IInv
<1>2. Len(fq) \in Nat /\ i = 0 /\ Len(fq) = fqAvail /\ fqFree + Len(fq) <= FQ_SIZE
  BY <1>1 DEF TypeOK, CountsAgree
<1>3. /\ stock_frames' = fqFree'
      /\ fqFree' \in 0 .. FQ_SIZE
      /\ fqFree' + Len(fq) <= FQ_SIZE
  BY <1>1, <1>2 DEF TypeOK
<1>4. TypeOK'
  BY <1>1, <1>3 DEF TypeOK, PCs
<1>5. CountsAgree'
  BY <1>1, <1>2, <1>3 DEF CountsAgree, TypeOK
<1>6. NoDuplicates'
  BY <1>1, <1>2 DEF NoDuplicates, Processed
<1>7. \A f \in Frames : InOnePlace(f)'
  BY <1>1, <1>2 DEF InOnePlace, Pool, Posted, Received, Processed
<1>8. QED
  BY <1>4, <1>5, <1>6, <1>7, PartitionSetsPrime DEF IInv, NeverRetries

\* The cached count that xsk_prod_nb_free returned is still there to reserve.
LEMMA ReserveStep == IInv /\ Reserve => IInv'
<1> SUFFICES ASSUME IInv, Reserve PROVE IInv'
  OBVIOUS
<1> USE SizesAssumption, EnoughAssumption
    DEF Reserve, NbFree, poolVars, fillVars, rxVars, roundVars
<1>1. /\ TypeOK /\ CountsAgree /\ NoDuplicates
      /\ \A f \in Frames : InOnePlace(f)
  BY PartitionSets DEF IInv
<1>2. /\ Len(fq) \in Nat /\ i = 0 /\ Len(fq) = fqAvail
      /\ fqFree + Len(fq) <= FQ_SIZE /\ stock_frames <= fqFree
  BY <1>1 DEF TypeOK, CountsAgree
<1>3. /\ pc' = "fill"
      /\ fqFree' = fqFree - stock_frames
      /\ fqFree' \in 0 .. FQ_SIZE
  BY <1>1, <1>2 DEF TypeOK
<1>4. TypeOK'
  BY <1>1, <1>3 DEF TypeOK, PCs
<1>5. CountsAgree'
  BY <1>1, <1>2, <1>3 DEF CountsAgree, TypeOK
<1>6. NoDuplicates'
  BY <1>1, <1>3 DEF NoDuplicates, Processed
<1>7. \A f \in Frames : InOnePlace(f)'
  BY <1>1, <1>3 DEF InOnePlace, Pool, Posted, Received, Processed
<1>8. QED
  BY <1>3, <1>4, <1>5, <1>6, <1>7, PartitionSetsPrime DEF IInv, NeverRetries

LEMMA SubmitStep == IInv /\ Submit => IInv'
<1> SUFFICES ASSUME IInv, Submit PROVE IInv'
  OBVIOUS
<1> USE SizesAssumption, EnoughAssumption
    DEF Submit, poolVars, fillVars, rxVars, roundVars
<1>1. /\ TypeOK /\ CountsAgree /\ NoDuplicates
      /\ \A f \in Frames : InOnePlace(f)
  BY PartitionSets DEF IInv
<1>2. /\ Len(fq) \in Nat /\ Len(fq) = fqAvail + stock_frames
      /\ fqFree + Len(fq) <= FQ_SIZE
  BY <1>1 DEF TypeOK, CountsAgree
<1>3. fqAvail' = Len(fq) /\ fqAvail' \in 0 .. FQ_SIZE
  BY <1>1, <1>2 DEF TypeOK
<1>4. TypeOK'
  BY <1>1, <1>3 DEF TypeOK, PCs
<1>5. CountsAgree'
  BY <1>1, <1>2, <1>3 DEF CountsAgree, TypeOK
<1>6. NoDuplicates'
  BY <1>1 DEF NoDuplicates, Processed
<1>7. \A f \in Frames : InOnePlace(f)'
  BY <1>1 DEF InOnePlace, Pool, Posted, Received, Processed
<1>8. QED
  BY <1>4, <1>5, <1>6, <1>7, PartitionSetsPrime DEF IInv, NeverRetries

LEMMA FillStep == IInv /\ Fill => IInv'
<1> SUFFICES ASSUME IInv, Fill PROVE IInv'
  OBVIOUS
<1> USE SizesAssumption, EnoughAssumption
    DEF Fill, AllocResult, AllocPool, poolVars, fillVars, rxVars, roundVars
<1>1. /\ TypeOK /\ CountsAgree /\ NoDuplicates
      /\ \A f \in Frames : InOnePlace(f)
  BY PartitionSets DEF IInv
<1>2. /\ Len(fq) \in Nat /\ Len(fq) = fqAvail + i
      /\ fqFree + (stock_frames - i) + Len(fq) <= FQ_SIZE
      /\ fq \in Seq(Frames \cup {INVALID_UMEM_FRAME})
  BY <1>1 DEF TypeOK, CountsAgree
<1>3. AllocResult \in Frames \cup {INVALID_UMEM_FRAME}
  BY <1>1 DEF TypeOK, Frames
<1>4. /\ fq' \in Seq(Frames \cup {INVALID_UMEM_FRAME})
      /\ Len(fq') = Len(fq) + 1
      /\ \A n \in 1 .. Len(fq) : fq'[n] = fq[n]
      /\ fq'[Len(fq) + 1] = AllocResult
  BY <1>2, <1>3
<1>5. TypeOK'
  BY <1>1, <1>4 DEF TypeOK, PCs, Frames
<1>6. CountsAgree'
  BY <1>1, <1>2, <1>4 DEF CountsAgree, TypeOK
<1>7. \A f : f \in Received' <=> f \in Received
  BY DEF Received, Processed
<1>8. CASE umem_frame_free = 0
  <2>1. AllocResult = INVALID_UMEM_FRAME
    BY <1>8
  <2>2. NoDuplicates'
    BY <1>1, <1>2, <1>4, <1>8, <2>1 DEF NoDuplicates, Processed
  <2>3. Posted' = Posted
    <3>1. DOMAIN fq = 1 .. Len(fq) /\ DOMAIN fq' = 1 .. Len(fq) + 1
      BY <1>2, <1>4
    <3>2. QED
      BY <1>2, <1>4, <2>1, <3>1 DEF Posted, Range
  <2>4. \A f \in Frames : InOnePlace(f)'
    BY <1>1, <1>7, <1>8, <2>3 DEF InOnePlace, Pool
  <2>5. QED
    BY <1>5, <1>6, <2>2, <2>4, PartitionSetsPrime DEF IInv, NeverRetries
<1>9. CASE umem_frame_free # 0
  <2> DEFINE top == umem_frame_addr[umem_frame_free - 1]
  <2>1. /\ umem_frame_free \in 1 .. NUM_FRAMES
        /\ umem_frame_free' = umem_frame_free - 1
        /\ AllocResult = top
        /\ top \in Pool /\ top \in Frames
        /\ \A n \in 0 .. umem_frame_free - 2 :
             umem_frame_addr'[n] = umem_frame_addr[n] /\ umem_frame_addr[n] # top
    <3>1. umem_frame_free \in 1 .. NUM_FRAMES
      BY <1>1, <1>9 DEF TypeOK
    <3>2. top \in Frames /\ top \in Pool
      BY <1>1, <3>1 DEF TypeOK, NoDuplicates, Frames, Pool
    <3>3. QED
      BY <1>1, <1>9, <3>1, <3>2 DEF TypeOK, NoDuplicates, Frames
  <2>2. \A f : f \in Pool' <=> f \in Pool /\ f # top
    <3>1. Pool' = {umem_frame_addr'[n] : n \in 0 .. umem_frame_free - 2}
      <4>1. umem_frame_free' - 1 = umem_frame_free - 2
        BY <2>1
      <4>2. QED
        BY <4>1, Zenon DEF Pool
    <3>2. /\ 0 .. umem_frame_free - 1 = (0 .. umem_frame_free - 2) \cup {umem_frame_free - 1}
          /\ Pool = {umem_frame_addr[n] : n \in 0 .. umem_frame_free - 1}
      <4>1. 0 .. umem_frame_free - 1 = (0 .. umem_frame_free - 2) \cup {umem_frame_free - 1}
        BY <2>1
      <4>2. QED
        BY <4>1, Zenon DEF Pool
    <3> DEFINE below == 0 .. umem_frame_free - 2
    <3>3. /\ Pool' = {umem_frame_addr[n] : n \in below}
          /\ \A n \in below : umem_frame_addr[n] # top
          /\ Pool = {umem_frame_addr[n] : n \in below \cup {umem_frame_free - 1}}
      <4>1. \A n \in below : umem_frame_addr'[n] = umem_frame_addr[n] /\ umem_frame_addr[n] # top
        BY <2>1, Zenon
      <4>2. Pool' = {umem_frame_addr[n] : n \in below}
        BY <3>1, <4>1, Zenon
      <4>3. QED
        BY <3>2, <4>1, <4>2, Zenon
    <3> HIDE DEF below
    <3>4. Pool = {umem_frame_addr[n] : n \in below} \cup {top}
      BY <3>3
    <3>5. top \notin {umem_frame_addr[n] : n \in below}
      BY <3>3
    <3>6. QED
      BY <3>3, <3>4, <3>5
  <2>3. \A f : f \in Posted' <=> f \in Posted \/ f = top
    <3>1. DOMAIN fq = 1 .. Len(fq) /\ DOMAIN fq' = 1 .. Len(fq) + 1
      BY <1>2, <1>4
    <3>2. top # INVALID_UMEM_FRAME
      BY <2>1 DEF Frames, INVALID_UMEM_FRAME
    <3>3. QED
      BY <1>2, <1>4, <2>1, <3>1, <3>2 DEF Posted, Range
  <2>4. \A n \in 1 .. Len(fq) : fq[n] # top
    <3>1. top \notin Posted
      BY <1>1, <2>1 DEF InOnePlace
    <3>2. QED
      BY <1>1, <2>1, <3>1, InPosted
  <2>5. NoDuplicates'
    <3>1. \A m, n \in 0 .. umem_frame_free' - 1 :
             /\ umem_frame_addr'[m] # INVALID_UMEM_FRAME
             /\ umem_frame_addr'[m] = umem_frame_addr'[n] => m = n
      BY <1>1, <2>1 DEF NoDuplicates
    <3>2. \A m, n \in 1 .. Len(fq') : fq'[m] = fq'[n] /\ fq'[m] # INVALID_UMEM_FRAME => m = n
      BY <1>1, <1>2, <1>4, <2>1, <2>4 DEF NoDuplicates
    <3>3. QED
      BY <1>1, <3>1, <3>2 DEF NoDuplicates, Processed
  <2>6. \A f \in Frames : InOnePlace(f)'
    BY <1>1, <1>7, <2>1, <2>2, <2>3 DEF InOnePlace
  <2>7. QED
    BY <1>5, <1>6, <2>5, <2>6, PartitionSetsPrime DEF IInv, NeverRetries
<1>10. QED
  BY <1>8, <1>9

LEMMA ProcessStep == IInv /\ Process => IInv'
<1> SUFFICES ASSUME IInv, Process PROVE IInv'
  OBVIOUS
<1> USE SizesAssumption, EnoughAssumption
    DEF Process, FreeFrame, poolVars, fillVars, rxVars, roundVars
<1>1. /\ TypeOK /\ CountsAgree /\ NoDuplicates
      /\ \A f \in Frames : InOnePlace(f)
  BY PartitionSets DEF IInv
<1> DEFINE done == rxq[i + 1]
<1>2. /\ i \in Nat /\ i < rcvd /\ rcvd <= Len(rxq) /\ Len(rxq) \in Nat
      /\ i + 1 \in 1 .. Len(rxq)
      /\ Processed = i /\ Processed' = i + 1
  BY <1>1 DEF TypeOK, CountsAgree, Processed
<1>3. done \in Frames /\ done \in Received
  BY <1>1, <1>2 DEF TypeOK, Received
<1>4. /\ umem_frame_free \in 0 .. NUM_FRAMES - 1
      /\ umem_frame_free' = umem_frame_free + 1
      /\ umem_frame_addr'[umem_frame_free] = done
      /\ \A n \in 0 .. umem_frame_free - 1 : umem_frame_addr'[n] = umem_frame_addr[n]
  BY <1>1 DEF TypeOK, Frames
<1>5. TypeOK'
  <2>1. umem_frame_addr' \in [Frames -> Frames \cup {INVALID_UMEM_FRAME}]
    BY <1>1, <1>3, <1>4 DEF TypeOK
  <2>2. umem_frame_free' \in 0 .. NUM_FRAMES
    BY <1>4
  <2>3. QED
    BY <1>1, <1>2, <2>1, <2>2 DEF TypeOK
<1>6. CountsAgree'
  BY <1>1, <1>2 DEF CountsAgree, TypeOK
<1>7. \A f : f \in Pool' <=> f \in Pool \/ f = done
  BY <1>4, InPool DEF Pool
<1>8. \A f : f \in Received' <=> f \in Received /\ f # done
  <2>1. \A n \in (i + 1) + 1 .. Len(rxq) : rxq[n] # done
    BY <1>1, <1>2 DEF NoDuplicates
  <2>2. Received' = {rxq[n] : n \in (i + 1) + 1 .. Len(rxq)}
    BY <1>2 DEF Received
  <2>3. Received = {rxq[n] : n \in i + 1 .. Len(rxq)}
    BY <1>2 DEF Received
  <2>4. QED
    BY <1>2, <2>1, <2>2, <2>3
<1>9. NoDuplicates'
  <2>1. \A n \in 0 .. umem_frame_free - 1 : umem_frame_addr[n] # done
    BY <1>1, <1>3, InPool DEF InOnePlace
  <2>2. done # INVALID_UMEM_FRAME
    BY <1>3 DEF Frames, INVALID_UMEM_FRAME
  <2>3. \A m, n \in 0 .. umem_frame_free' - 1 :
           /\ umem_frame_addr'[m] # INVALID_UMEM_FRAME
           /\ umem_frame_addr'[m] = umem_frame_addr'[n] => m = n
    <3>1. \A n \in 0 .. umem_frame_free' - 1 :
            n = umem_frame_free \/ n \in 0 .. umem_frame_free - 1
      BY <1>4
    <3>2. \A m, n \in 0 .. umem_frame_free - 1 :
             /\ umem_frame_addr[m] # INVALID_UMEM_FRAME
             /\ umem_frame_addr[m] = umem_frame_addr[n] => m = n
      BY <1>1 DEF NoDuplicates
    <3> HIDE DEF done
    <3>3. QED
      BY ONLY <1>4, <2>1, <2>2, <3>1, <3>2
  <2>4. \A m, n \in Processed' + 1 .. Len(rxq) : rxq[m] = rxq[n] => m = n
    BY <1>1, <1>2 DEF NoDuplicates
  <2>5. QED
    BY <1>1, <2>3, <2>4 DEF NoDuplicates
<1>10. \A f \in Frames : InOnePlace(f)'
  <2>1. Posted' = Posted /\ kernel' = kernel
    BY DEF Posted
  <2>2. QED
    BY <1>1, <1>3, <1>7, <1>8, <2>1 DEF InOnePlace
<1>11. QED
  BY <1>5, <1>6, <1>9, <1>10, PartitionSetsPrime DEF IInv, NeverRetries

LEMMA ReleaseStep == IInv /\ Release => IInv'
<1> SUFFICES ASSUME IInv, Release PROVE IInv'
  OBVIOUS
<1> USE SizesAssumption, EnoughAssumption DEF poolVars, fillVars, rxVars, roundVars
<1>1. /\ TypeOK /\ CountsAgree /\ NoDuplicates
      /\ \A f \in Frames : InOnePlace(f)
  BY PartitionSets DEF IInv
<1>2. /\ pc = "process" /\ pc' = "poll" /\ i = rcvd
      /\ i' = 0 /\ rcvd' = 0 /\ stock_frames' = 0
      /\ UNCHANGED <<umem_frame_addr, umem_frame_free, fq, fqAvail, fqFree, kernel, rxSeen>>
  BY DEF Release
<1>3. /\ rcvd \in Nat /\ rcvd <= Len(rxq) /\ Len(rxq) \in Nat
      /\ rxq \in Seq(Frames)
      /\ Processed = rcvd /\ Processed' = 0
  BY <1>1, <1>2 DEF TypeOK, CountsAgree, Processed
<1>4. /\ rxq' \in Seq(Frames)
      /\ Len(rxq') = Len(rxq) - rcvd
      /\ \A n \in 1 .. Len(rxq) - rcvd : rxq'[n] = rxq[rcvd + n]
  <2> DEFINE m == rcvd + 1
  <2>1. rxq' = SubSeq(rxq, m, Len(rxq))
    BY DEF Release
  <2>2. \A n \in m .. Len(rxq) : rxq[n] \in Frames
    BY <1>3
  <2>3. m \in Int /\ Len(rxq) \in Int
    BY <1>3
  <2>4. /\ rxq' \in Seq(Frames)
        /\ Len(rxq') = IF m <= Len(rxq) THEN Len(rxq) - m + 1 ELSE 0
        /\ \A n \in 1 .. Len(rxq) - m + 1 : rxq'[n] = rxq[m + n - 1]
    BY <2>1, <2>2, <2>3, SubSeqProperties
  <2>5. QED
    BY <1>3, <2>4
<1>5. TypeOK'
  BY <1>1, <1>2, <1>4 DEF TypeOK, PCs
<1>6. CountsAgree'
  BY <1>1, <1>2, <1>3, <1>4 DEF CountsAgree, TypeOK
<1>7. \A n \in 1 .. Len(rxq') : rcvd + n \in rcvd + 1 .. Len(rxq)
                               /\ rxq'[n] = rxq[rcvd + n]
  BY <1>3, <1>4
<1>8. Processed' + 1 = 1
  BY <1>3
<1>9. NoDuplicates'
  <2>1. ASSUME NEW m \in 1 .. Len(rxq'), NEW n \in 1 .. Len(rxq'), rxq'[m] = rxq'[n]
        PROVE  m = n
    <3>1. rxq[rcvd + m] = rxq[rcvd + n]
      BY <1>7, <2>1
    <3>2. rcvd + m = rcvd + n
      BY <1>1, <1>3, <1>7, <3>1 DEF NoDuplicates
    <3>3. m \in Int /\ n \in Int
      BY <1>3, <1>4
    <3>4. QED
      BY <1>3, <3>2, <3>3
  <2>2. QED
    BY <1>1, <1>2, <1>8, <2>1 DEF NoDuplicates
<1>10. \A f : f \in Received' <=> f \in Received
  <2>1. Received = {rxq[n] : n \in rcvd + 1 .. Len(rxq)}
    BY <1>3 DEF Received
  <2>2. Received' = {rxq'[n] : n \in 1 .. Len(rxq')}
    BY <1>8 DEF Received
  <2>3. ASSUME NEW f, f \in Received' PROVE f \in Received
    BY <1>7, <2>1, <2>2, <2>3
  <2>4. ASSUME NEW f, f \in Received PROVE f \in Received'
    <3>1. PICK n \in rcvd + 1 .. Len(rxq) : rxq[n] = f
      BY <2>1, <2>4
    <3>2. n - rcvd \in 1 .. Len(rxq') /\ rcvd + (n - rcvd) = n
      BY <1>3, <1>4
    <3>3. rxq'[n - rcvd] = f
      BY <1>7, <3>1, <3>2
    <3>4. QED
      BY <2>2, <3>2, <3>3
  <2>5. QED
    BY <2>3, <2>4
<1>11. \A f \in Frames : InOnePlace(f)'
  <2>1. Pool' = Pool /\ Posted' = Posted /\ kernel' = kernel
    BY <1>2 DEF Pool, Posted
  <2>2. QED
    BY <1>1, <1>10, <2>1 DEF InOnePlace
<1>12. QED
  BY <1>2, <1>5, <1>6, <1>9, <1>11, PartitionSetsPrime DEF IInv, NeverRetries

\* What consuming the head of the fill ring leaves.
LEMMA ConsumeFill ==
  ASSUME TypeOK, CountsAgree, NoDuplicates, fqAvail > 0, fq' = Tail(fq)
  PROVE  /\ Len(fq) \in Nat \ {0} /\ Head(fq) = fq[1]
         /\ fq' \in Seq(Frames \cup {INVALID_UMEM_FRAME})
         /\ Len(fq') = Len(fq) - 1
         /\ \A n \in 1 .. Len(fq) - 1 : fq'[n] = fq[n + 1]
         /\ \A m, n \in 1 .. Len(fq') :
              fq'[m] = fq'[n] /\ fq'[m] # INVALID_UMEM_FRAME => m = n
         /\ \A f : f \in Posted' <=> f \in Posted /\ f # Head(fq)
<1>1. /\ fq \in Seq(Frames \cup {INVALID_UMEM_FRAME})
      /\ Len(fq) \in Nat \ {0}
  BY SizesAssumption DEF TypeOK, CountsAgree
<1>2. /\ Head(fq) = fq[1]
      /\ fq' \in Seq(Frames \cup {INVALID_UMEM_FRAME})
      /\ Len(fq') = Len(fq) - 1
      /\ \A n \in 1 .. Len(fq) - 1 : fq'[n] = fq[n + 1]
  BY <1>1
<1>3. \A m, n \in 1 .. Len(fq') :
        fq'[m] = fq'[n] /\ fq'[m] # INVALID_UMEM_FRAME => m = n
  BY <1>1, <1>2 DEF NoDuplicates
<1>4. \A f : f \in Posted' <=> f \in Posted /\ f # Head(fq)
  <2>1. DOMAIN fq = 1 .. Len(fq) /\ DOMAIN fq' = 1 .. Len(fq) - 1
    BY <1>1, <1>2
  <2>2. \A n \in 2 .. Len(fq) : n - 1 \in 1 .. Len(fq) - 1 /\ fq'[n - 1] = fq[n]
    BY <1>1, <1>2
  <2>3. \A n \in 2 .. Len(fq) : fq[n] = Head(fq) => fq[n] = INVALID_UMEM_FRAME
    BY <1>1, <1>2 DEF NoDuplicates
  <2>4. ASSUME NEW f, f \in Posted' PROVE f \in Posted /\ f # Head(fq)
    <3>1. PICK n \in 1 .. Len(fq) - 1 : fq'[n] = f /\ f # INVALID_UMEM_FRAME
      BY <2>1, <2>4 DEF Posted, Range
    <3>2. n + 1 \in 2 .. Len(fq) /\ n + 1 \in DOMAIN fq /\ fq[n + 1] = f
      BY <1>1, <1>2, <2>1, <3>1
    <3>3. QED
      BY <2>3, <3>1, <3>2 DEF Posted, Range
  <2>5. ASSUME NEW f, f \in Posted, f # Head(fq) PROVE f \in Posted'
    <3>1. PICK n \in 1 .. Len(fq) : fq[n] = f /\ f # INVALID_UMEM_FRAME
      BY <2>1, <2>5 DEF Posted, Range
    <3>2. n \in 2 .. Len(fq)
      BY <1>1, <1>2, <2>5, <3>1
    <3>3. QED
      BY <2>1, <2>2, <3>1, <3>2 DEF Posted, Range
  <2>6. QED
    BY <2>4, <2>5
<1>5. QED
  BY <1>1, <1>2, <1>3, <1>4

LEMMA KernelTakeStep == IInv /\ KernelTake => IInv'
<1> SUFFICES ASSUME IInv, KernelTake PROVE IInv'
  OBVIOUS
<1> USE SizesAssumption, EnoughAssumption
    DEF KernelTake, poolVars, fillVars, rxVars, roundVars
<1>1. /\ TypeOK /\ CountsAgree /\ NoDuplicates
      /\ \A f \in Frames : InOnePlace(f)
  BY PartitionSets DEF IInv
<1> DEFINE taken == Head(fq)
<1>2. /\ Len(fq) \in Nat \ {0} /\ taken = fq[1]
      /\ fq' \in Seq(Frames \cup {INVALID_UMEM_FRAME})
      /\ Len(fq') = Len(fq) - 1
      /\ \A m, n \in 1 .. Len(fq') :
           fq'[m] = fq'[n] /\ fq'[m] # INVALID_UMEM_FRAME => m = n
      /\ \A f : f \in Posted' <=> f \in Posted /\ f # taken
  BY <1>1, ConsumeFill
<1>3. taken \in Frames /\ taken \in Posted
  BY <1>1, <1>2, InPosted
<1>4. pc # "configure"
  BY <1>1, <1>2 DEF CountsAgree
<1>5. TypeOK'
  BY <1>1, <1>2, <1>3 DEF TypeOK
<1>6. Cardinality(kernel') <= KERNEL_HOLD
  <2>1. IsFiniteSet(kernel) /\ taken \notin kernel
    BY <1>1, <1>3, FramesFinite DEF TypeOK, InOnePlace
  <2>2. Cardinality(kernel') = Cardinality(kernel) + 1 /\ Cardinality(kernel) \in Nat
    BY <2>1, FS_AddElement, FS_CardinalityType
  <2>3. QED
    BY <2>2
<1>7. CountsAgree'
  <2>1. /\ fqAvail' = fqAvail - 1
        /\ UNCHANGED <<pc, umem_frame_free, fqFree, rxq, rxSeen, rcvd, stock_frames, i>>
    OBVIOUS
  <2> HIDE DEF KernelTake
  <2>2. /\ fqAvail \in Nat /\ fqFree \in Nat /\ i \in Nat /\ stock_frames \in Nat
    BY <1>1 DEF TypeOK
  <2>3. fqAvail' <= Len(fq')
    BY <1>1, <1>2, <2>1, <2>2 DEF CountsAgree
  <2>4. QED
    BY <1>1, <1>2, <1>4, <1>6, <2>1, <2>2, <2>3 DEF CountsAgree
<1>8. NoDuplicates'
  BY <1>1, <1>2 DEF NoDuplicates, Processed
<1>9. \A f \in Frames : InOnePlace(f)'
  <2>1. Pool' = Pool /\ Received' = Received
    BY DEF Pool, Received, Processed
  <2>2. QED
    BY <1>1, <1>2, <1>3, <2>1 DEF InOnePlace
<1>10. QED
  BY <1>1, <1>5, <1>7, <1>8, <1>9, PartitionSetsPrime DEF IInv, NeverRetries

LEMMA KernelSkipStep == IInv /\ KernelSkip => IInv'
<1> SUFFICES ASSUME IInv, KernelSkip PROVE IInv'
  OBVIOUS
<1> USE SizesAssumption, EnoughAssumption
    DEF KernelSkip, poolVars, fillVars, rxVars, roundVars
<1>1. /\ TypeOK /\ CountsAgree /\ NoDuplicates
      /\ \A f \in Frames : InOnePlace(f)
  BY PartitionSets DEF IInv
<1>2. /\ Len(fq) \in Nat \ {0}
      /\ fq' \in Seq(Frames \cup {INVALID_UMEM_FRAME})
      /\ Len(fq') = Len(fq) - 1
      /\ \A m, n \in 1 .. Len(fq') :
           fq'[m] = fq'[n] /\ fq'[m] # INVALID_UMEM_FRAME => m = n
      /\ \A f : f \in Posted' <=> f \in Posted /\ f # Head(fq)
  BY <1>1, ConsumeFill
<1>3. pc # "configure"
  BY <1>1, <1>2 DEF CountsAgree
<1>4. TypeOK'
  BY <1>1, <1>2 DEF TypeOK
<1>5. CountsAgree'
  <2>1. /\ fqAvail' = fqAvail - 1
        /\ UNCHANGED <<pc, umem_frame_free, fqFree, kernel, rxq, rxSeen, rcvd, stock_frames, i>>
    OBVIOUS
  <2> HIDE DEF KernelSkip
  <2>2. /\ fqAvail \in Nat /\ fqFree \in Nat /\ i \in Nat /\ stock_frames \in Nat
    BY <1>1 DEF TypeOK
  <2>3. fqAvail' <= Len(fq')
    BY <1>1, <1>2, <2>1, <2>2 DEF CountsAgree
  <2>4. QED
    BY <1>1, <1>2, <1>3, <2>1, <2>2, <2>3 DEF CountsAgree
<1>6. NoDuplicates'
  BY <1>1, <1>2 DEF NoDuplicates, Processed
<1>7. \A f \in Frames : InOnePlace(f)'
  <2>1. Pool' = Pool /\ Received' = Received /\ kernel' = kernel
    BY DEF Pool, Received, Processed
  <2>2. QED
    BY <1>1, <1>2, <2>1 DEF InOnePlace
<1>8. QED
  BY <1>1, <1>4, <1>5, <1>6, <1>7, PartitionSetsPrime DEF IInv, NeverRetries

LEMMA KernelDeliverStep ==
  ASSUME IInv, NEW frame \in Frames, KernelDeliver(frame)
  PROVE  IInv'
<1> USE SizesAssumption, EnoughAssumption
    DEF KernelDeliver, poolVars, fillVars, rxVars, roundVars
<1>1. /\ TypeOK /\ CountsAgree /\ NoDuplicates
      /\ \A f \in Frames : InOnePlace(f)
  BY PartitionSets DEF IInv
<1>2. /\ rxq \in Seq(Frames) /\ Len(rxq) \in Nat
      /\ rxq' \in Seq(Frames)
      /\ Len(rxq') = Len(rxq) + 1
      /\ \A n \in 1 .. Len(rxq) : rxq'[n] = rxq[n]
      /\ rxq'[Len(rxq) + 1] = frame
  BY <1>1 DEF TypeOK
<1>3. Processed \in 0 .. Len(rxq) /\ Processed' = Processed
  BY <1>1, <1>2 DEF Processed, CountsAgree, TypeOK
<1>4. pc # "configure"
  BY <1>1 DEF CountsAgree
<1>5. TypeOK'
  BY <1>1, <1>2 DEF TypeOK
<1>6. Cardinality(kernel') <= KERNEL_HOLD
  <2>1. IsFiniteSet(kernel)
    BY <1>1, FramesFinite DEF TypeOK
  <2>2. Cardinality(kernel') = Cardinality(kernel) - 1 /\ Cardinality(kernel) \in Nat
    BY <2>1, FS_RemoveElement, FS_CardinalityType
  <2>3. QED
    BY <1>1, <2>2 DEF CountsAgree
<1>7. CountsAgree'
  BY <1>1, <1>2, <1>4, <1>6 DEF CountsAgree, TypeOK
<1>8. \A f : f \in Received' <=> f \in Received \/ f = frame
  BY <1>2, <1>3 DEF Received
<1>9. NoDuplicates'
  <2>1. \A n \in Processed + 1 .. Len(rxq) : rxq[n] # frame
    BY <1>1 DEF InOnePlace, Received
  <2>2. \A m, n \in Processed + 1 .. Len(rxq') : rxq'[m] = rxq'[n] => m = n
    BY <1>1, <1>2, <1>3, <2>1 DEF NoDuplicates
  <2>3. QED
    BY <1>1, <1>3, <2>2 DEF NoDuplicates
<1>10. \A f \in Frames : InOnePlace(f)'
  <2>1. Pool' = Pool /\ Posted' = Posted
    BY DEF Pool, Posted
  <2>2. QED
    BY <1>1, <1>8, <2>1 DEF InOnePlace
<1>11. QED
  BY <1>1, <1>5, <1>7, <1>9, <1>10, PartitionSetsPrime DEF IInv, NeverRetries

LEMMA StutterStep == IInv /\ UNCHANGED vars => IInv'
<1> SUFFICES ASSUME IInv, UNCHANGED vars PROVE IInv'
  OBVIOUS
<1> USE DEF vars, poolVars, fillVars, rxVars, roundVars
<1>1. /\ TypeOK /\ CountsAgree /\ NoDuplicates /\ NeverRetries
      /\ \A f \in Frames : InOnePlace(f)
  BY PartitionSets DEF IInv
<1>2. TypeOK' /\ CountsAgree' /\ NeverRetries'
  BY <1>1 DEF TypeOK, CountsAgree, NeverRetries
<1>3. NoDuplicates'
  BY <1>1 DEF NoDuplicates, Processed
<1>4. \A f \in Frames : InOnePlace(f)'
  BY <1>1 DEF InOnePlace, Pool, Posted, Received, Processed
<1>5. QED
  BY <1>2, <1>3, <1>4, PartitionSetsPrime DEF IInv

LEMMA NextIInv == IInv /\ [Next]_vars => IInv'
<1> SUFFICES ASSUME IInv, [Next]_vars PROVE IInv'
  OBVIOUS
<1>1. CASE Configure
  BY <1>1, ConfigureStep
<1>2. CASE Peek
  BY <1>2, PeekStep
<1>3. CASE Stock
  BY <1>3, StockStep
<1>4. CASE Reserve
  BY <1>4, ReserveStep
<1>5. CASE Fill
  BY <1>5, FillStep
<1>6. CASE Submit
  BY <1>6, SubmitStep
<1>7. CASE Process
  BY <1>7, ProcessStep
<1>8. CASE Release
  BY <1>8, ReleaseStep
<1>9. CASE KernelTake
  BY <1>9, KernelTakeStep
<1>10. CASE KernelSkip
  BY <1>10, KernelSkipStep
<1>11. ASSUME NEW frame \in Frames, KernelDeliver(frame) PROVE IInv'
  BY <1>11, KernelDeliverStep
<1>12. CASE UNCHANGED vars
  BY <1>12, StutterStep
<1>13. QED
  BY <1>1, <1>2, <1>3, <1>4, <1>5, <1>6, <1>7, <1>8, <1>9, <1>10, <1>11, <1>12
     DEF Next, User, Kernel

-----------------------------------------------------------------------------
(* The theorems.                                                           *)

\* The inductive invariant of handle_receive_packets and the kernel's side of
\* the rings.
THEOREM Inductive == Spec => []IInv
  BY InitIInv, NextIInv, PTL DEF Spec

\* Every variable of the socket keeps its type: no index of the frame stack or
\* of a ring leaves its range.
THEOREM TypeCorrect == Spec => []TypeOK
<1>1. IInv => TypeOK
  BY DEF IInv
<1>2. QED
  BY Inductive, <1>1, PTL

\* handle_receive_packets neither loses a frame nor uses one twice, whatever the
\* sizes of the UMEM and of the rings.
THEOREM EveryFrameInOnePlace == Spec => []FramePartition
<1>1. IInv => FramePartition
  BY DEF IInv
<1>2. QED
  BY Inductive, <1>1, PTL

\* The first reservation of handle_receive_packets always succeeds, so the loop
\* marked "This should not happen" is never entered.
THEOREM FirstReservationSucceeds == Spec => []NeverRetries
<1>1. IInv => NeverRetries
  BY DEF IInv
<1>2. QED
  BY Inductive, <1>1, PTL

(***************************************************************************)
(* A full stack holds every frame: NUM_FRAMES different values from a set  *)
(* of NUM_FRAMES frames.                                                   *)
(***************************************************************************)
LEMMA FullPool == IInv /\ umem_frame_free = NUM_FRAMES => Pool = Frames
<1> SUFFICES ASSUME IInv, umem_frame_free = NUM_FRAMES PROVE Pool = Frames
  OBVIOUS
<1> USE SizesAssumption
<1>1. TypeOK /\ NoDuplicates
  BY DEF IInv
<1>2. IsFiniteSet(Frames)
  BY FS_Interval DEF Frames
<1>3. umem_frame_addr \in Injection(Frames, Frames)
  <2>1. \A m, n \in Frames : umem_frame_addr[m] = umem_frame_addr[n] => m = n
    BY <1>1 DEF NoDuplicates, Frames
  <2>2. \A m \in Frames : umem_frame_addr[m] # INVALID_UMEM_FRAME
    BY <1>1 DEF NoDuplicates, Frames
  <2>3. umem_frame_addr \in [Frames -> Frames]
    BY <1>1, <2>2 DEF TypeOK
  <2>4. QED
    BY <2>1, <2>3 DEF Injection, IsInjective
<1>4. umem_frame_addr \in Surjection(Frames, Frames)
  BY <1>2, <1>3, FS_Injection
<1>5. QED
  BY <1>1, <1>4 DEF Pool, Frames, Surjection, TypeOK

\* The assertion of xsk_free_umem_frame never fails: a full pool would already
\* hold the frame that is being freed.
THEOREM AssertionNeverFails == Spec => []AssertionHolds
<1>1. IInv => AssertionHolds
  <2> SUFFICES ASSUME IInv, pc = "process", i < rcvd, ~(umem_frame_free < NUM_FRAMES)
               PROVE  FALSE
    BY DEF AssertionHolds
  <2>1. TypeOK /\ CountsAgree /\ \A f \in Frames : InOnePlace(f)
    BY PartitionSets DEF IInv
  <2>2. umem_frame_free = NUM_FRAMES
    BY <2>1, SizesAssumption DEF TypeOK
  <2>3. i + 1 \in 1 .. Len(rxq) /\ Processed = i /\ Len(rxq) \in Nat
    BY <2>1 DEF TypeOK, CountsAgree, Processed
  <2>4. rxq[i + 1] \in Frames /\ rxq[i + 1] \in Received
    BY <2>1, <2>3 DEF TypeOK, Received
  <2>5. rxq[i + 1] \in Pool
    BY <2>2, <2>4, FullPool
  <2>6. QED
    BY <2>1, <2>4, <2>5 DEF InOnePlace
<1>2. QED
  BY Inductive, <1>1, PTL

-----------------------------------------------------------------------------
(***************************************************************************)
(* The receive path implements the ownership cycle of its frames, for all  *)
(* sizes: every step of module Umem moves frames one place on, as          *)
(* FrameOwnership has it, or leaves every frame where it is.  A frame is   *)
(* in one place before and after (IInv), so it is enough to follow three   *)
(* of the four places through a step.                                      *)
(***************************************************************************)

SamePlaces(f) ==
  /\ f \in Pool' <=> f \in Pool
  /\ f \in Posted' <=> f \in Posted
  /\ f \in kernel' <=> f \in kernel
  /\ f \in Received' <=> f \in Received

LEMMA PlacesOfPrime ==
  \A f \in Frames : /\ "pool" \in Where'[f] <=> f \in Pool'
                    /\ "fill" \in Where'[f] <=> f \in Posted'
                    /\ "kernel" \in Where'[f] <=> f \in kernel'
                    /\ "rx" \in Where'[f] <=> f \in Received'
                    /\ Where'[f] \subseteq {"pool", "fill", "kernel", "rx"}
<1>1. (\A f \in Frames : /\ "pool" \in Where[f] <=> f \in Pool
                         /\ "fill" \in Where[f] <=> f \in Posted
                         /\ "kernel" \in Where[f] <=> f \in kernel
                         /\ "rx" \in Where[f] <=> f \in Received
                         /\ Where[f] \subseteq {"pool", "fill", "kernel", "rx"})'
  BY PlacesOf, PTL
<1> QED BY <1>1

\* A frame that is in no other place than it was.
LEMMA Stays == ASSUME NEW f \in Frames, SamePlaces(f) PROVE Where'[f] = Where[f]
<1> DEFINE Places == {"pool", "fill", "kernel", "rx"}
<1>1. \A p \in Places : p \in Where'[f] <=> p \in Where[f]
  BY PlacesOf, PlacesOfPrime DEF SamePlaces
<1>2. Where[f] \subseteq Places /\ Where'[f] \subseteq Places
  BY PlacesOf, PlacesOfPrime
<1> HIDE DEF Places
<1> QED BY <1>1, <1>2

LEMMA WhereIsFunction == /\ Where = [f \in Frames |-> Where[f]]
                         /\ Where' = [f \in Frames |-> Where'[f]]
  BY DEF Where

\* Nothing moves.
LEMMA NothingMoves ==
  ASSUME \A f \in Frames : SamePlaces(f)
  PROVE  Where' = Where
<1>1. \A f \in Frames : Where'[f] = Where[f]
  BY Stays
<1> QED BY <1>1, WhereIsFunction

\* The name of the place that holds a frame.
LEMMA OnlyPlace ==
  ASSUME NEW f \in Frames, InOnePlace(f)
  PROVE  /\ f \in Pool => Where[f] = {"pool"}
         /\ f \in Posted => Where[f] = {"fill"}
         /\ f \in kernel => Where[f] = {"kernel"}
         /\ f \in Received => Where[f] = {"rx"}
  BY PlacesOf DEF InOnePlace

LEMMA OnlyPlacePrime ==
  ASSUME NEW f \in Frames, InOnePlace(f)'
  PROVE  /\ f \in Pool' => Where'[f] = {"pool"}
         /\ f \in Posted' => Where'[f] = {"fill"}
         /\ f \in kernel' => Where'[f] = {"kernel"}
         /\ f \in Received' => Where'[f] = {"rx"}
  BY PlacesOfPrime DEF InOnePlace

\* The frames S move, and no other.
LEMMA Moving ==
  ASSUME NEW S \in SUBSET Frames, NEW from, NEW to,
         \A f \in S : Where[f] = {from} /\ Where'[f] = {to},
         \A f \in Frames \ S : SamePlaces(f)
  PROVE  Ownership!Move(S, from, to)
<1>1. \A f \in Frames : Where'[f] = IF f \in S THEN {to} ELSE Where[f]
  BY Stays
<1>2. Where' = [f \in Frames |-> IF f \in S THEN {to} ELSE Where[f]]
  BY <1>1, WhereIsFunction
<1> QED BY <1>2 DEF Ownership!Move

LEMMA Partitioned ==
  ASSUME IInv, IInv'
  PROVE  \A f \in Frames : InOnePlace(f) /\ InOnePlace(f)'
  BY PartitionSets, PartitionSetsPrime DEF IInv

-----------------------------------------------------------------------------
(* The steps that move frames.                                             *)

\* The frames that are written to the fill ring while nothing else is done to
\* the rings come from the pool.
LEMMA Posting ==
  ASSUME IInv, IInv', Posted \cap Frames \subseteq Posted',
         kernel' = kernel, Received' = Received
  PROVE  Ownership!Post
<1> DEFINE S == {f \in Frames : f \in Posted' /\ f \notin Posted}
<1>1. \A f \in S : f \in Pool
  BY Partitioned DEF InOnePlace
<1>2. \A f \in S : Where[f] = {"pool"} /\ Where'[f] = {"fill"}
  BY <1>1, Partitioned, OnlyPlace, OnlyPlacePrime
<1>3. \A f \in Frames \ S : SamePlaces(f)
  BY Partitioned DEF InOnePlace, SamePlaces
<1>4. S \in SUBSET Frames
  OBVIOUS
<1> HIDE DEF S
<1>5. Ownership!Move(S, "pool", "fill")
  BY <1>2, <1>3, <1>4, Moving
<1> QED BY <1>4, <1>5 DEF Ownership!Post

\* xsk_configure_socket posts the first frames.
LEMMA ConfigurePosts == ASSUME IInv, IInv', Configure PROVE Ownership!Post
<1>1. fq = <<>> /\ kernel = {} /\ rxq = <<>> /\ pc = "configure"
  BY DEF IInv, CountsAgree, Configure
<1>2. Posted = {} /\ kernel' = kernel /\ Received = {} /\ Received' = {}
  BY <1>1 DEF Posted, Received, Range, Processed, Configure, rxVars
<1> QED BY <1>2, Posting

LEMMA FillPosts == ASSUME IInv, IInv', Fill PROVE Ownership!Post
<1>1. fq \in Seq(Entry) /\ Len(fq) \in Nat /\ AllocResult \in Entry
  BY SizesAssumption DEF IInv, TypeOK, Fill, AllocResult, Entry, Frames
<1>2. /\ DOMAIN fq = 1 .. Len(fq) /\ DOMAIN fq' = 1 .. Len(fq) + 1
      /\ \A n \in 1 .. Len(fq) : fq'[n] = fq[n]
  BY <1>1 DEF Fill
<1>3. Posted \subseteq Posted'
  BY <1>1, <1>2 DEF Posted, Range
<1>4. kernel' = kernel /\ Received' = Received
  BY DEF Fill, Received, Processed, rxVars
<1> QED BY <1>3, <1>4, Posting

LEMMA ProcessRecycles == ASSUME IInv, IInv', Process PROVE Ownership!Recycle
<1> DEFINE f == rxq[i + 1]
<1>1. /\ pc = "process" /\ pc' = "process" /\ i \in Nat /\ i' = i + 1 /\ rxq' = rxq
      /\ Len(rxq) \in Nat /\ i + 1 \in 1 .. Len(rxq)
      /\ f \in Frames
  <2>1. pc = "process" /\ i < rcvd /\ pc' = "process" /\ i' = i + 1 /\ rxq' = rxq
    BY DEF Process, rxVars
  <2>2. i \in Nat /\ rcvd \in Nat /\ rxSeen \in Nat /\ rxq \in Seq(Frames) /\ Len(rxq) \in Nat
    BY SizesAssumption DEF IInv, TypeOK
  <2>3. i + 1 \in 1 .. Len(rxq)
    BY <2>1, <2>2 DEF IInv, CountsAgree
  <2> QED BY <2>1, <2>2, <2>3
<1>2. \A n : n \in i + 1 .. Len(rxq) <=> n = i + 1 \/ n \in i + 2 .. Len(rxq)
  BY <1>1
<1>3. \A g : g \in Received <=> g = f \/ g \in Received'
  BY <1>1, <1>2 DEF Received, Processed
<1>4. f \in Pool'
  <2>1. umem_frame_free' = umem_frame_free + 1 /\ umem_frame_addr'[umem_frame_free] = f
        /\ umem_frame_free \in Nat
    BY SizesAssumption DEF IInv, TypeOK, Process, FreeFrame, Frames
  <2>2. umem_frame_free \in 0 .. umem_frame_free' - 1
    BY <2>1
  <2> QED BY <2>1, <2>2 DEF Pool
<1>5. Posted' = Posted /\ kernel' = kernel
  BY DEF Process, Posted, fillVars
<1>6. Where[f] = {"rx"} /\ Where'[f] = {"pool"}
  BY <1>1, <1>3, <1>4, Partitioned, OnlyPlace, OnlyPlacePrime
<1>7. \A g \in Frames \ {f} : SamePlaces(g)
  BY <1>3, <1>5, Partitioned DEF InOnePlace, SamePlaces
<1> HIDE DEF f
<1>8. Ownership!Move({f}, "rx", "pool")
  BY <1>1, <1>6, <1>7, Moving
<1> QED BY <1>1, <1>8 DEF Ownership!Recycle

LEMMA KernelTakes == ASSUME IInv, IInv', KernelTake PROVE Ownership!Take
<1> DEFINE f == Head(fq)
<1>1. f \in Frames /\ kernel' = kernel \cup {f} /\ f \in Posted
  <2>1. f \in Frames /\ kernel' = kernel \cup {f}
    BY DEF KernelTake
  <2>2. Len(fq) \in Nat \ {0} /\ fq[1] = f
    BY ConsumeFill DEF IInv, KernelTake
  <2> QED BY <2>1, <2>2, InPosted DEF IInv
<1>2. Pool' = Pool /\ Received' = Received
  BY DEF KernelTake, Pool, Received, Processed, poolVars, rxVars, roundVars
<1>3. Where[f] = {"fill"} /\ Where'[f] = {"kernel"}
  BY <1>1, Partitioned, OnlyPlace, OnlyPlacePrime
<1>4. \A g \in Frames \ {f} : SamePlaces(g)
  BY <1>1, <1>2, Partitioned DEF InOnePlace, SamePlaces
<1> HIDE DEF f
<1>5. Ownership!Move({f}, "fill", "kernel")
  BY <1>1, <1>3, <1>4, Moving
<1> QED BY <1>1, <1>5 DEF Ownership!Take

LEMMA KernelDelivers ==
  ASSUME IInv, IInv', NEW f \in Frames, KernelDeliver(f) PROVE Ownership!Deliver
<1>1. f \in kernel /\ kernel' = kernel \ {f}
  BY DEF KernelDeliver
<1>2. Pool' = Pool /\ Posted' = Posted
  BY DEF KernelDeliver, Pool, Posted, poolVars, fillVars
<1>3. f \in Received'
  BY <1>1, <1>2, Partitioned DEF InOnePlace
<1>4. Where[f] = {"kernel"} /\ Where'[f] = {"rx"}
  BY <1>1, <1>3, Partitioned, OnlyPlace, OnlyPlacePrime
<1>5. \A g \in Frames \ {f} : SamePlaces(g)
  BY <1>1, <1>2, Partitioned DEF InOnePlace, SamePlaces
<1>6. Ownership!Move({f}, "kernel", "rx")
  BY <1>4, <1>5, Moving
<1> QED BY <1>6 DEF Ownership!Deliver

-----------------------------------------------------------------------------
(* The steps that move none.                                               *)

\* Three places that keep their frames leave the fourth no choice.
LEMMA KernelSkips == ASSUME IInv, IInv', KernelSkip PROVE Where' = Where
<1>1. Pool' = Pool /\ kernel' = kernel /\ Received' = Received
  BY DEF KernelSkip, Pool, Received, Processed, poolVars, rxVars, roundVars
<1>2. \A f \in Frames : SamePlaces(f)
  BY <1>1, Partitioned DEF InOnePlace, SamePlaces
<1> QED BY <1>2, NothingMoves

LEMMA UserMovesNothing ==
  ASSUME IInv, IInv', Peek \/ Stock \/ Reserve \/ Submit \/ Release \/ UNCHANGED vars
  PROVE  Where' = Where
<1>1. Pool' = Pool /\ Posted' = Posted /\ kernel' = kernel
  BY DEF Peek, Stock, Reserve, Submit, Release, Pool, Posted, vars, poolVars, fillVars
<1>2. \A f \in Frames : SamePlaces(f)
  BY <1>1, Partitioned DEF InOnePlace, SamePlaces
<1> QED BY <1>2, NothingMoves

-----------------------------------------------------------------------------
LEMMA InitOwnership == Init => Ownership!Init
<1> SUFFICES ASSUME Init PROVE Where = [f \in Frames |-> {"pool"}]
  BY DEF Ownership!Init
<1>1. Posted = {} /\ kernel = {} /\ Received = {}
  BY DEF Init, Posted, Received, Range, Processed
<1>2. \A f \in Frames : Where[f] = {"pool"}
  BY <1>1, InitIInv, PartitionSets, OnlyPlace DEF IInv, InOnePlace
<1> QED BY <1>2, WhereIsFunction

LEMMA NextOwnership ==
  ASSUME IInv, IInv', [Next]_vars
  PROVE  [Ownership!Next]_Where
<1>1. CASE Configure
  BY <1>1, ConfigurePosts DEF Ownership!Next
<1>2. CASE Fill
  BY <1>2, FillPosts DEF Ownership!Next
<1>3. CASE Process
  BY <1>3, ProcessRecycles DEF Ownership!Next
<1>4. CASE KernelTake
  BY <1>4, KernelTakes DEF Ownership!Next
<1>5. ASSUME NEW f \in Frames, KernelDeliver(f) PROVE Ownership!Next
  BY <1>5, KernelDelivers DEF Ownership!Next
<1>6. CASE KernelSkip
  BY <1>6, KernelSkips
<1>7. CASE Peek \/ Stock \/ Reserve \/ Submit \/ Release \/ UNCHANGED vars
  BY <1>7, UserMovesNothing
<1> QED BY <1>1, <1>2, <1>3, <1>4, <1>5, <1>6, <1>7 DEF Next, User, Kernel

\* handle_receive_packets, xsk_configure_socket and the kernel pass every frame
\* round the cycle pool, fill ring, kernel, rx ring, pool, whatever the sizes.
THEOREM ImplementsOwnership == Spec => OwnershipCycle
<1>1. Init => Ownership!Init
  BY InitOwnership
<1>2. IInv /\ IInv' /\ [Next]_vars => [Ownership!Next]_Where
  BY NextOwnership
<1> QED BY <1>1, <1>2, Inductive, PTL DEF Spec, OwnershipCycle, Ownership!Spec

-----------------------------------------------------------------------------
(***************************************************************************)
(* How many frames are enough: what the numbers of frames, of ring entries *)
(* and of frames in the kernel's hands say about the frames that are       *)
(* posted.  The code has NUM_FRAMES = FQ_SIZE + RX_SIZE.                   *)
(***************************************************************************)

\* A ring full of received packets and a kernel with its hands full leave a
\* frame.
Sufficient == NUM_FRAMES > RX_SIZE + KERNEL_HOLD

\* There is a frame for every place that may hold one.
Ample == NUM_FRAMES >= FQ_SIZE + RX_SIZE + KERNEL_HOLD

\* The kernel has a frame, or one that it has filled is waiting for the next round.
Supplied == Posted # {} \/ kernel # {} \/ Len(rxq) > rcvd

\* The inductive invariant for NeverStarved.
SInv ==
  /\ IInv
  /\ pc \in {"reserve", "fill"} => stock_frames > 0
  /\ Len(fq) = FQ_SIZE => Posted # {}
  /\ pc = "poll" \/ pc = "process" \/ (pc = "fill" /\ i > 0) => Supplied

-----------------------------------------------------------------------------
(* Counting.                                                               *)

LEMMA Values ==
  ASSUME NEW g, NEW a \in Int, NEW b \in Int, a <= b + 1
  PROVE  /\ IsFiniteSet({g[n] : n \in a .. b})
         /\ Cardinality({g[n] : n \in a .. b}) <= b - a + 1
<1> DEFINE T == {g[n] : n \in a .. b}
           h == [n \in a .. b |-> g[n]]
<1>1. h \in Surjection(a .. b, T)
  BY DEF Surjection
<1>2. IsFiniteSet(a .. b) /\ Cardinality(a .. b) = b - a + 1
  BY FS_Interval
<1> HIDE DEF T, h
<1>3. IsFiniteSet(T) /\ Cardinality(T) <= b - a + 1
  BY <1>1, <1>2, FS_Surjection
<1> QED BY <1>3 DEF T

LEMMA UnionBound ==
  ASSUME NEW S, NEW T, IsFiniteSet(S), IsFiniteSet(T)
  PROVE  IsFiniteSet(S \cup T) /\ Cardinality(S \cup T) <= Cardinality(S) + Cardinality(T)
<1>1. /\ IsFiniteSet(S \cup T)
      /\ Cardinality(S \cup T) = Cardinality(S) + Cardinality(T) - Cardinality(S \cap T)
  BY FS_Union
<1>2. IsFiniteSet(S \cap T)
  BY FS_Intersection
<1>3. Cardinality(S) \in Nat /\ Cardinality(T) \in Nat /\ Cardinality(S \cap T) \in Nat
  BY <1>2, FS_CardinalityType
<1> QED BY <1>1, <1>3

\* No place holds more frames than it has entries.
LEMMA FramesCounted ==
  ASSUME IInv
  PROVE  /\ IsFiniteSet(Posted) /\ Cardinality(Posted) \in Nat
         /\ Cardinality(Posted) <= Len(fq)
         /\ NUM_FRAMES <= umem_frame_free + Cardinality(Posted) + KERNEL_HOLD + RX_SIZE
<1> USE SizesAssumption
<1>1. TypeOK /\ CountsAgree /\ \A f \in Frames : InOnePlace(f)
  BY PartitionSets DEF IInv
<1>2. /\ umem_frame_free \in Nat /\ Len(fq) \in Nat /\ Len(rxq) \in Nat /\ Len(rxq) <= RX_SIZE
      /\ Processed \in 0 .. Len(rxq)
  BY <1>1 DEF TypeOK, CountsAgree, Processed
<1>3. IsFiniteSet(Pool) /\ Cardinality(Pool) <= umem_frame_free
  <2>1. 0 \in Int /\ umem_frame_free - 1 \in Int /\ 0 <= umem_frame_free - 1 + 1
    BY <1>2
  <2>2. /\ IsFiniteSet(Pool)
        /\ Cardinality(Pool) <= umem_frame_free - 1 - 0 + 1
    BY <2>1, Values DEF Pool
  <2> QED BY <1>2, <2>1, <2>2
<1>4. IsFiniteSet(Posted) /\ Cardinality(Posted) <= Len(fq)
  <2> DEFINE Written == {fq[n] : n \in 1 .. Len(fq)}
  <2>1. 1 \in Int /\ Len(fq) \in Int /\ 1 <= Len(fq) + 1
    BY <1>2
  <2>2. IsFiniteSet(Written) /\ Cardinality(Written) <= Len(fq) - 1 + 1
    BY <2>1, Values
  <2>3. Posted \subseteq Written
    BY <1>1 DEF Posted, Range, TypeOK
  <2> HIDE DEF Written
  <2>4. IsFiniteSet(Posted) /\ Cardinality(Posted) <= Cardinality(Written)
    BY <2>2, <2>3, FS_Subset
  <2>5. Cardinality(Posted) \in Nat /\ Cardinality(Written) \in Nat
    BY <2>2, <2>4, FS_CardinalityType
  <2> QED BY <1>2, <2>2, <2>4, <2>5
<1>5. IsFiniteSet(Received) /\ Cardinality(Received) <= RX_SIZE
  <2>1. Processed + 1 \in Int /\ Len(rxq) \in Int /\ Processed + 1 <= Len(rxq) + 1
    BY <1>2
  <2>2. IsFiniteSet(Received) /\ Cardinality(Received) <= Len(rxq) - (Processed + 1) + 1
    BY <2>1, Values DEF Received
  <2>3. Cardinality(Received) \in Nat
    BY <2>2, FS_CardinalityType
  <2> QED BY <1>2, <2>2, <2>3
<1>6. IsFiniteSet(kernel) /\ Cardinality(kernel) <= KERNEL_HOLD
  BY <1>1, FramesFinite DEF TypeOK, CountsAgree
<1>7. /\ Cardinality(Pool) \in Nat /\ Cardinality(Posted) \in Nat
      /\ Cardinality(kernel) \in Nat /\ Cardinality(Received) \in Nat
  BY <1>3, <1>4, <1>5, <1>6, FS_CardinalityType
<1> DEFINE A == Pool \cup Posted
           B == kernel \cup Received
<1>8. IsFiniteSet(A) /\ Cardinality(A) <= Cardinality(Pool) + Cardinality(Posted)
  BY <1>3, <1>4, UnionBound
<1>9. IsFiniteSet(B) /\ Cardinality(B) <= Cardinality(kernel) + Cardinality(Received)
  BY <1>5, <1>6, UnionBound
<1>10. Frames \subseteq A \cup B
  BY <1>1 DEF InOnePlace
<1> HIDE DEF A, B
<1>11. /\ IsFiniteSet(A \cup B)
       /\ Cardinality(A \cup B) <= Cardinality(A) + Cardinality(B)
  BY <1>8, <1>9, UnionBound
<1>12. Cardinality(Frames) = NUM_FRAMES /\ Cardinality(Frames) <= Cardinality(A \cup B)
  <2>1. 0 \in Int /\ NUM_FRAMES - 1 \in Int
    OBVIOUS
  <2>2. Cardinality(Frames) = NUM_FRAMES
    BY <2>1, FS_Interval DEF Frames
  <2> QED BY <1>10, <1>11, <2>2, FS_Subset
<1>13. Cardinality(A) \in Nat /\ Cardinality(B) \in Nat /\ Cardinality(A \cup B) \in Nat
  BY <1>8, <1>9, <1>11, FS_CardinalityType
<1>14. NUM_FRAMES <= umem_frame_free + Cardinality(Posted) + KERNEL_HOLD + RX_SIZE
  <2>1. Cardinality(A) <= umem_frame_free + Cardinality(Posted)
    BY <1>2, <1>3, <1>7, <1>8, <1>13
  <2>2. Cardinality(B) <= KERNEL_HOLD + RX_SIZE
    BY <1>5, <1>6, <1>7, <1>9, <1>13
  <2>3. NUM_FRAMES <= Cardinality(A) + Cardinality(B)
    BY <1>11, <1>12, <1>13
  <2>4. /\ umem_frame_free + Cardinality(Posted) \in Nat /\ KERNEL_HOLD + RX_SIZE \in Nat
        /\ umem_frame_free + Cardinality(Posted) + KERNEL_HOLD + RX_SIZE
             = (umem_frame_free + Cardinality(Posted)) + (KERNEL_HOLD + RX_SIZE)
    BY <1>2, <1>7
  <2>5. \A a, b, f, h, n \in Nat : n <= a + b /\ a <= f /\ b <= h => n <= f + h
    OBVIOUS
  <2>6. NUM_FRAMES \in Nat
    OBVIOUS
  <2> QED BY ONLY <1>13, <2>1, <2>2, <2>3, <2>4, <2>5, <2>6
<1> QED BY <1>4, <1>7, <1>14

\* What the invariant says of the lengths of the rings.
LEMMA RingLengths ==
  ASSUME IInv
  PROVE  /\ rxq \in Seq(Frames) /\ Len(rxq) \in Nat /\ rcvd \in Nat /\ rcvd <= Len(rxq)
         /\ fq \in Seq(Entry) /\ Len(fq) \in Nat /\ Len(fq) <= FQ_SIZE
<1> USE SizesAssumption
<1>1. TypeOK /\ CountsAgree
  BY DEF IInv
<1>2. rxq \in Seq(Frames) /\ Len(rxq) \in Nat /\ rcvd \in Nat /\ rxSeen \in Nat
  BY <1>1 DEF TypeOK
<1>3. rxSeen + rcvd <= Len(rxq)
  BY <1>1 DEF CountsAgree
<1>4. /\ fq \in Seq(Entry) /\ Len(fq) \in Nat
      /\ fqFree \in Nat /\ stock_frames \in Nat /\ i \in Nat
  BY <1>1 DEF TypeOK, Entry
<1>5. Len(fq) <= FQ_SIZE
  BY <1>1, <1>4 DEF CountsAgree
<1> QED BY <1>2, <1>3, <1>4, <1>5

\* An empty pool has posted a frame.
LEMMA EmptyPoolPosted == ASSUME IInv, Sufficient, umem_frame_free = 0 PROVE Posted # {}
<1>1. SUFFICES ASSUME Posted = {} PROVE FALSE
  OBVIOUS
<1>2. Cardinality(Posted) = 0
  BY <1>1, FS_EmptySet
<1> QED BY <1>2, FramesCounted, SizesAssumption DEF Sufficient

\* What Fill writes.
LEMMA Filling ==
  ASSUME IInv, Fill
  PROVE  /\ fq' = Append(fq, AllocResult) /\ fq' \in Seq(Entry)
         /\ DOMAIN fq = 1 .. Len(fq) /\ DOMAIN fq' = 1 .. Len(fq) + 1 /\ Len(fq) \in Nat
         /\ \A n \in 1 .. Len(fq) : fq'[n] = fq[n]
         /\ fq'[Len(fq) + 1] = AllocResult
         /\ umem_frame_free # 0 => AllocResult \in Frames
         /\ Posted \subseteq Posted'
<1> USE SizesAssumption
<1>1. fq \in Seq(Entry) /\ Len(fq) \in Nat /\ AllocResult \in Entry
  BY DEF IInv, TypeOK, AllocResult, Entry, Frames
<1>2. fq' = Append(fq, AllocResult)
  BY DEF Fill
<1>3. /\ DOMAIN fq = 1 .. Len(fq) /\ DOMAIN fq' = 1 .. Len(fq) + 1 /\ fq' \in Seq(Entry)
      /\ \A n \in 1 .. Len(fq) : fq'[n] = fq[n]
      /\ fq'[Len(fq) + 1] = AllocResult
  BY <1>1, <1>2
<1>4. Posted \subseteq Posted'
  BY <1>1, <1>3 DEF Posted, Range
<1>5. ASSUME umem_frame_free # 0 PROVE AllocResult \in Frames
  <2>1. umem_frame_free - 1 \in Frames /\ umem_frame_free - 1 \in 0 .. umem_frame_free - 1
    BY <1>5 DEF IInv, TypeOK, Frames
  <2>2. umem_frame_addr[umem_frame_free - 1] \in Frames
    BY <2>1 DEF IInv, TypeOK, NoDuplicates
  <2> QED BY <1>5, <2>2 DEF AllocResult
<1> QED BY <1>1, <1>2, <1>3, <1>4, <1>5

\* What Configure writes.
LEMMA Configuring ==
  ASSUME IInv, Configure
  PROVE  /\ DOMAIN fq' = 1 .. FQ_SIZE /\ Len(fq') = FQ_SIZE
         /\ \A n \in 1 .. FQ_SIZE : fq'[n] \in Frames
         /\ pc' = "poll"
<1> USE SizesAssumption, EnoughAssumption
<1>1. fq' = [n \in 1 .. FQ_SIZE |-> umem_frame_addr[umem_frame_free - n]] /\ pc' = "poll"
  BY DEF Configure
<1>2. umem_frame_free = NUM_FRAMES
  BY DEF IInv, CountsAgree, Configure
<1>3. \A n \in 1 .. FQ_SIZE : /\ umem_frame_free - n \in Frames
                              /\ umem_frame_free - n \in 0 .. umem_frame_free - 1
  BY <1>2 DEF Frames
<1>4. \A n \in 1 .. FQ_SIZE : umem_frame_addr[umem_frame_free - n] \in Frames
  BY <1>3 DEF IInv, TypeOK, NoDuplicates
<1> QED BY <1>1, <1>4

-----------------------------------------------------------------------------
(* The kernel is never starved.                                            *)

LEMMA ConfigureSupplies == ASSUME SInv, Configure, IInv' PROVE SInv'
<1>1. 1 \in DOMAIN fq' /\ fq'[1] \in Frames /\ pc' = "poll"
  BY Configuring, SizesAssumption DEF SInv
<1>2. Posted' # {}
  BY <1>1, SizesAssumption DEF Posted, Range, Frames, INVALID_UMEM_FRAME
<1> QED BY <1>1, <1>2 DEF SInv, Supplied

LEMMA StockSupplies == ASSUME SInv, Sufficient, Stock, IInv' PROVE SInv'
<1> USE SizesAssumption
<1>1. /\ fq' = fq /\ Posted' = Posted
      /\ pc' = IF stock_frames' > 0 THEN "reserve" ELSE "process"
      /\ stock_frames' = NbFree(umem_frame_free)
  BY DEF Stock, StockFrames, Posted
<1>2. stock_frames' \in Nat
  BY DEF IInv, TypeOK
<1>3. ASSUME stock_frames' = 0 PROVE Posted # {}
  <2>1. CASE fqFree >= umem_frame_free
    <3>1. umem_frame_free = 0
      BY <1>1, <1>3, <2>1 DEF NbFree, SInv, IInv, TypeOK
    <3> QED BY <3>1, EmptyPoolPosted DEF SInv
  <2>2. CASE ~(fqFree >= umem_frame_free)
    <3>1. FQ_SIZE - Len(fq) = 0 /\ Len(fq) \in Nat
      BY <1>1, <1>3, <2>2, SMTT(30) DEF NbFree, SInv, IInv, TypeOK
    <3> QED BY <3>1 DEF SInv
  <2> QED BY <2>1, <2>2
<1> QED BY <1>1, <1>2, <1>3 DEF SInv, Supplied

LEMMA FillSupplies == ASSUME SInv, Sufficient, Fill, IInv' PROVE SInv'
<1> USE SizesAssumption
<1>1. Posted' # {}
  <2>1. CASE umem_frame_free = 0
    BY <2>1, EmptyPoolPosted, Filling DEF SInv
  <2>2. CASE umem_frame_free # 0
    <3>1. DOMAIN fq' = 1 .. Len(fq) + 1 /\ Len(fq) \in Nat
      BY Filling DEF SInv
    <3>2. fq'[Len(fq) + 1] \in Frames
      BY <2>2, Filling DEF SInv
    <3>3. Len(fq) + 1 \in DOMAIN fq'
      BY <3>1
    <3>4. fq'[Len(fq) + 1] \in Posted'
      BY <3>2, <3>3 DEF Posted, Range, Frames, INVALID_UMEM_FRAME
    <3> QED BY <3>4
  <2> QED BY <2>1, <2>2
<1>2. pc = "fill" /\ pc' = "fill" /\ stock_frames' = stock_frames
  BY DEF Fill
<1> QED BY <1>1, <1>2 DEF SInv, Supplied

LEMMA ReleaseSupplies == ASSUME SInv, Release, IInv' PROVE SInv'
<1> USE SizesAssumption
<1>1. /\ pc = "process" /\ pc' = "poll" /\ fq' = fq /\ Posted' = Posted /\ kernel' = kernel
      /\ rcvd' = 0 /\ rxq' = SubSeq(rxq, rcvd + 1, Len(rxq))
  BY DEF Release, Posted, fillVars
<1>2. rxq \in Seq(Frames) /\ Len(rxq) \in Nat /\ rcvd \in Nat /\ rcvd <= Len(rxq)
  BY RingLengths DEF SInv
<1>3. ASSUME Len(rxq) > rcvd PROVE Len(rxq') > rcvd'
  <2>1. rcvd + 1 \in 1 .. Len(rxq)
    BY <1>2, <1>3
  <2>2. Len(rxq') = Len(rxq) - (rcvd + 1) + 1
    BY <1>1, <1>2, <2>1
  <2> QED BY <1>1, <1>2, <1>3, <2>2
<1> QED BY <1>1, <1>3 DEF SInv, Supplied

LEMMA KernelConsumes ==
  ASSUME SInv, KernelTake \/ KernelSkip, IInv'
  PROVE  SInv'
<1> USE SizesAssumption
<1>1. /\ Len(fq) \in Nat \ {0} /\ Len(fq') = Len(fq) - 1
      /\ \A f : f \in Posted' <=> f \in Posted /\ f # Head(fq)
      /\ Head(fq) = fq[1]
  BY ConsumeFill DEF SInv, IInv, KernelTake, KernelSkip
<1>2. Len(fq') # FQ_SIZE
  <2>1. Len(fq) <= FQ_SIZE
    BY RingLengths DEF SInv
  <2> QED BY <1>1, <2>1
<1>3. pc' = pc /\ stock_frames' = stock_frames /\ i' = i /\ rcvd' = rcvd /\ rxq' = rxq
  BY DEF KernelTake, KernelSkip, rxVars, roundVars
<1>4. Supplied => Supplied'
  <2>1. CASE KernelTake
    BY <2>1 DEF KernelTake, Supplied
  <2>2. CASE KernelSkip
    <3>1. Head(fq) = INVALID_UMEM_FRAME /\ kernel' = kernel
      <4>1. fq \in Seq(Entry)
        BY RingLengths DEF SInv
      <4>2. fq[1] \in Entry
        BY <1>1, <4>1
      <4> QED BY <1>1, <2>2, <4>2 DEF KernelSkip, Entry
    <3>2. \A f : f \in Posted' <=> f \in Posted
      BY <1>1, <3>1 DEF Posted
    <3> QED BY <1>3, <3>1, <3>2 DEF Supplied
  <2> QED BY <2>1, <2>2
<1> QED BY <1>2, <1>3, <1>4 DEF SInv

LEMMA DeliverSupplies ==
  ASSUME SInv, NEW f \in Frames, KernelDeliver(f), IInv'
  PROVE  SInv'
<1> USE SizesAssumption
<1>1. /\ pc' = pc /\ stock_frames' = stock_frames /\ i' = i /\ rcvd' = rcvd
      /\ fq' = fq /\ Posted' = Posted /\ rxq' = Append(rxq, f)
  BY DEF KernelDeliver, Posted, fillVars, roundVars
<1>2. rxq \in Seq(Frames) /\ Len(rxq) \in Nat /\ rcvd \in Nat /\ rcvd <= Len(rxq)
  BY RingLengths DEF SInv
<1>3. Len(rxq') > rcvd'
  BY <1>1, <1>2
<1> QED BY <1>1, <1>3 DEF SInv, Supplied

\* Every step keeps the supply.
LEMMA NextSInv == ASSUME SInv, Sufficient, [Next]_vars PROVE SInv'
<1>1. IInv'
  BY NextIInv DEF SInv
<1>2. CASE Configure
  BY <1>1, <1>2, ConfigureSupplies
<1>3. CASE Peek
  BY <1>1, <1>3 DEF SInv, Peek, Posted, fillVars
<1>4. CASE Stock
  BY <1>1, <1>4, StockSupplies
<1>5. CASE Reserve
  <2>1. /\ pc = "reserve" /\ pc' \in {"fill", "retry"} /\ i' = i /\ stock_frames' = stock_frames
        /\ fq' = fq /\ Posted' = Posted
    BY <1>5 DEF Reserve, Posted, roundVars
  <2>2. i = 0
    BY <2>1 DEF SInv, IInv, CountsAgree
  <2> QED BY <1>1, <2>1, <2>2 DEF SInv
<1>6. CASE Fill
  BY <1>1, <1>6, FillSupplies
<1>7. CASE Submit
  BY <1>1, <1>7 DEF SInv, Submit, Posted, Supplied, rxVars
<1>8. CASE Process
  BY <1>1, <1>8 DEF SInv, Process, Posted, Supplied, fillVars, rxVars
<1>9. CASE Release
  BY <1>1, <1>9, ReleaseSupplies
<1>10. CASE KernelTake \/ KernelSkip
  BY <1>1, <1>10, KernelConsumes
<1>11. ASSUME NEW f \in Frames, KernelDeliver(f) PROVE SInv'
  BY <1>1, <1>11, DeliverSupplies
<1>12. CASE UNCHANGED vars
  BY <1>1, <1>12 DEF SInv, Posted, Supplied, vars, fillVars, rxVars, roundVars
<1> QED BY <1>2, <1>3, <1>4, <1>5, <1>6, <1>7, <1>8, <1>9, <1>10, <1>11, <1>12
        DEF Next, User, Kernel

\* While poll would block, the kernel has a frame to receive into: with more
\* frames than the rx ring and the kernel can hold, in particular with the
\* FQ_SIZE + RX_SIZE of the code as long as the kernel holds fewer than FQ_SIZE.
THEOREM KernelNeverStarved == ASSUME Sufficient PROVE Spec => []NeverStarved
<1>1. Init => SInv
  BY InitIInv, SizesAssumption DEF Init, SInv
<1>2. SInv /\ [Next]_vars => SInv'
  BY NextSInv
<1>3. SInv => NeverStarved
  <2> SUFFICES ASSUME SInv, pc = "poll", rxq = <<>> PROVE Posted \cup kernel # {}
    BY DEF NeverStarved
  <2>1. Supplied /\ rcvd = 0
    BY DEF SInv, IInv, CountsAgree
  <2> QED BY <2>1 DEF Supplied
<1> QED BY <1>1, <1>2, <1>3, PTL DEF Spec

-----------------------------------------------------------------------------
(* INVALID_UMEM_FRAME is never posted, if there are frames enough.         *)

LEMMA FillFromPool ==
  ASSUME IInv, Ample, Fill
  PROVE  AllocResult \in Frames
<1>1. Len(fq) < FQ_SIZE
  <2>1. pc = "fill" /\ i < stock_frames
    BY DEF Fill
  <2> QED BY <2>1, SizesAssumption DEF IInv, TypeOK, CountsAgree
<1>2. umem_frame_free # 0
  BY <1>1, FramesCounted, SizesAssumption DEF Ample, IInv, TypeOK
<1> QED BY <1>2, Filling

LEMMA NextOnlyFrames ==
  ASSUME IInv, OnlyFramesPosted, Ample, [Next]_vars
  PROVE  OnlyFramesPosted'
<1>1. CASE Configure
  BY <1>1, Configuring DEF OnlyFramesPosted
<1>2. CASE Fill
  <2>1. Len(fq') = Len(fq) + 1
    BY <1>2, Filling
  <2> QED BY <1>2, <2>1, Filling, FillFromPool DEF OnlyFramesPosted
<1>3. CASE KernelTake \/ KernelSkip
  <2>1. /\ Len(fq) \in Nat \ {0} /\ Len(fq') = Len(fq) - 1
        /\ \A n \in 1 .. Len(fq) - 1 : fq'[n] = fq[n + 1]
    BY <1>3, ConsumeFill DEF IInv, KernelTake, KernelSkip
  <2> QED BY <2>1 DEF OnlyFramesPosted
<1>4. CASE fq' = fq
  BY <1>4 DEF OnlyFramesPosted
<1> QED BY <1>1, <1>2, <1>3, <1>4
        DEF Next, User, Kernel, Peek, Stock, Reserve, Submit, Process, Release, KernelDeliver,
            vars, fillVars

\* handle_receive_packets never asks the allocator for more frames than the pool
\* has, if there is one for every entry of both rings and for each that the
\* kernel may hold: KERNEL_HOLD more than the code has.
THEOREM AmplePoolSuffices == ASSUME Ample PROVE Spec => []OnlyFramesPosted
<1>1. Init => OnlyFramesPosted
  BY DEF Init, OnlyFramesPosted
<1>2. IInv /\ OnlyFramesPosted /\ [Next]_vars => OnlyFramesPosted'
  BY NextOnlyFrames
<1> QED BY <1>1, <1>2, Inductive, PTL DEF Spec
=============================================================================
