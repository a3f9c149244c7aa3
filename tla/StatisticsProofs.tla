-------------------------- MODULE StatisticsProofs --------------------------
(***************************************************************************)
(* The safety properties of Statistics, for all lengths, batches and       *)
(* numbers of packets.  Three facts about the two threads are inductive    *)
(* together with the types: a copy is never ahead of its counter, what was *)
(* printed and what was missed add up, and replies are counted within the  *)
(* batch at hand.  None of them depends on the order of Show and Copy.    *)
(***************************************************************************)
EXTENDS Statistics, TLAPS

\* How many replies of the batch at hand may have been counted.
RepliesOfBatch == IF rx = "interrupted" THEN RX_BATCH_SIZE
                  ELSE IF rx = "poll" THEN 0
                  ELSE IF rx = "rx_bytes" THEN i + 1 ELSE i

RepliesCounted ==
  /\ rx \in {"tx_bytes", "tx_packets", "rx_bytes"} => i < rcvd
  /\ stats["tx_packets"] <= stats["rx_packets"] + RepliesOfBatch

IInv == TypeOK /\ DifferencesNeverWrap /\ OnlyWindowMissed /\ RepliesCounted

\* Counting keeps what relates the counters to their copies and to what was
\* printed of them.
LEMMA CountKeeps ==
  ASSUME NEW f \in Fields, NEW n \in Nat, TypeOK, DifferencesNeverWrap, OnlyWindowMissed,
         Count(f, n), UNCHANGED pollVars
  PROVE  /\ stats' \in [Fields -> Nat] /\ missed' \in [Fields -> Nat]
         /\ DifferencesNeverWrap' /\ OnlyWindowMissed'
<1> USE DEF Count, pollVars
<1>1. stats' \in [Fields -> Nat] /\ missed' \in [Fields -> Nat]
  BY DEF TypeOK
<1>2. ASSUME NEW g \in Fields
      PROVE  /\ previous'[g] <= stats'[g]
             /\ printed'[g] + missed'[g] = IF InWindow(g)' THEN stats'[g] ELSE previous'[g]
  <2>1. /\ previous[g] \in Nat /\ stats[g] \in Nat /\ printed[g] \in Int /\ missed[g] \in Nat
        /\ previous[g] <= stats[g]
        /\ printed[g] + missed[g] = IF InWindow(g) THEN stats[g] ELSE previous[g]
    BY DEF TypeOK, DifferencesNeverWrap, OnlyWindowMissed
  <2>2. InWindow(g)' <=> InWindow(g)
    BY DEF InWindow
  <2>3. CASE g = f
    <3>1. stats'[g] = stats[g] + n
      BY <2>3 DEF TypeOK
    <3>2. missed'[g] = IF InWindow(g) THEN missed[g] + n ELSE missed[g]
      BY <2>3 DEF TypeOK
    <3> QED BY <2>1, <2>2, <3>1, <3>2
  <2>4. CASE g # f
    <3>1. stats'[g] = stats[g] /\ missed'[g] = missed[g]
      BY <2>4 DEF TypeOK
    <3> QED BY <2>1, <2>2, <3>1
  <2> QED BY <2>3, <2>4
<1> QED BY <1>1, <1>2 DEF DifferencesNeverWrap, OnlyWindowMissed

\* The receiving thread keeps the invariant.
LEMMA ReceiverKeeps == IInv /\ Receiver => IInv'
<1> SUFFICES ASSUME IInv, Receiver PROVE IInv'
  OBVIOUS
<1> USE StatisticsAssumption DEF IInv
<1>1. CASE Peek
  <2>1. TypeOK' BY <1>1 DEF Peek, TypeOK, pollVars
  <2>2. DifferencesNeverWrap' /\ OnlyWindowMissed'
    BY <1>1 DEF Peek, DifferencesNeverWrap, OnlyWindowMissed, InWindow, pollVars
  <2>3. RepliesCounted'
    BY <1>1 DEF Peek, RepliesCounted, RepliesOfBatch, TypeOK
  <2> QED BY <2>1, <2>2, <2>3
<1>2. CASE Packet
  <2>1. TypeOK' BY <1>2 DEF Packet, TypeOK, pollVars
  <2>2. DifferencesNeverWrap' /\ OnlyWindowMissed'
    BY <1>2 DEF Packet, DifferencesNeverWrap, OnlyWindowMissed, InWindow, pollVars
  <2>3. RepliesCounted'
    <3>1. stats["tx_packets"] \in Nat /\ stats["rx_packets"] \in Nat
      BY DEF TypeOK, Fields, RxFields
    <3> QED BY <1>2, <3>1 DEF Packet, RepliesCounted, RepliesOfBatch, TypeOK
  <2> QED BY <2>1, <2>2, <2>3
<1>3. CASE TxBytes
  <2>1. "tx_bytes" \in Fields /\ len \in Nat
    BY DEF Fields, RxFields, TypeOK
  <2>2. /\ stats' \in [Fields -> Nat] /\ missed' \in [Fields -> Nat]
        /\ DifferencesNeverWrap' /\ OnlyWindowMissed'
    BY <1>3, <2>1, CountKeeps DEF TxBytes
  <2>3. TypeOK' BY <1>3, <2>2 DEF TxBytes, TypeOK, pollVars
  <2>4. /\ stats'["tx_packets"] = stats["tx_packets"]
        /\ stats'["rx_packets"] = stats["rx_packets"]
    BY <1>3 DEF TxBytes, Count, TypeOK, Fields, RxFields
  <2>5. RepliesCounted'
    BY <1>3, <2>4 DEF TxBytes, RepliesCounted, RepliesOfBatch, TypeOK
  <2> QED BY <2>2, <2>3, <2>5
<1>4. CASE TxPackets
  <2>1. "tx_packets" \in Fields /\ 1 \in Nat
    BY DEF Fields, RxFields
  <2>2. /\ stats' \in [Fields -> Nat] /\ missed' \in [Fields -> Nat]
        /\ DifferencesNeverWrap' /\ OnlyWindowMissed'
    BY <1>4, <2>1, CountKeeps DEF TxPackets
  <2>3. TypeOK' BY <1>4, <2>2 DEF TxPackets, TypeOK, pollVars
  <2>4. /\ stats'["tx_packets"] = stats["tx_packets"] + 1
        /\ stats'["rx_packets"] = stats["rx_packets"]
        /\ stats["tx_packets"] \in Nat /\ stats["rx_packets"] \in Nat
    BY <1>4 DEF TxPackets, Count, TypeOK, Fields, RxFields
  <2>5. RepliesCounted'
    BY <1>4, <2>4 DEF TxPackets, RepliesCounted, RepliesOfBatch, TypeOK
  <2> QED BY <2>2, <2>3, <2>5
<1>5. CASE RxBytes
  <2>1. "rx_bytes" \in Fields /\ len \in Nat
    BY DEF Fields, RxFields, TypeOK
  <2>2. /\ stats' \in [Fields -> Nat] /\ missed' \in [Fields -> Nat]
        /\ DifferencesNeverWrap' /\ OnlyWindowMissed'
    BY <1>5, <2>1, CountKeeps DEF RxBytes
  <2>3. TypeOK' BY <1>5, <2>2 DEF RxBytes, TypeOK, pollVars, RepliesCounted
  <2>4. /\ stats'["tx_packets"] = stats["tx_packets"]
        /\ stats'["rx_packets"] = stats["rx_packets"]
    BY <1>5 DEF RxBytes, Count, TypeOK, Fields, RxFields
  <2>5. RepliesCounted'
    BY <1>5, <2>4 DEF RxBytes, RepliesCounted, RepliesOfBatch, TypeOK
  <2> QED BY <2>2, <2>3, <2>5
<1>6. CASE RxPackets
  <2>1. "rx_packets" \in Fields /\ rcvd \in Nat
    BY DEF Fields, RxFields, TypeOK
  <2>2. /\ stats' \in [Fields -> Nat] /\ missed' \in [Fields -> Nat]
        /\ DifferencesNeverWrap' /\ OnlyWindowMissed'
    BY <1>6, <2>1, CountKeeps DEF RxPackets
  <2>3. TypeOK' BY <1>6, <2>2 DEF RxPackets, TypeOK, pollVars
  <2>4. /\ stats'["tx_packets"] = stats["tx_packets"]
        /\ stats'["rx_packets"] = stats["rx_packets"] + rcvd
        /\ stats["tx_packets"] \in Nat /\ stats["rx_packets"] \in Nat
    BY <1>6 DEF RxPackets, Count, TypeOK, Fields, RxFields
  <2>5. RepliesCounted'
    BY <1>6, <2>4 DEF RxPackets, RepliesCounted, RepliesOfBatch, TypeOK
  <2> QED BY <2>2, <2>3, <2>5
<1> QED BY <1>1, <1>2, <1>3, <1>4, <1>5, <1>6 DEF Receiver

\* The statistics thread keeps the invariant: printing a counter opens its
\* window, copying it closes the window.
LEMMA PollerKeeps == IInv /\ Poller => IInv'
<1> SUFFICES ASSUME IInv, Poller PROVE IInv'
  OBVIOUS
<1> USE StatisticsAssumption DEF IInv
<1>1. CASE Check
  <2>1. TypeOK' BY <1>1 DEF Check, TypeOK, rxVars
  <2>2. \A f \in Fields : InWindow(f)' <=> InWindow(f)
    BY <1>1 DEF Check, InWindow
  <2>3. DifferencesNeverWrap' /\ OnlyWindowMissed' /\ RepliesCounted'
    BY <1>1, <2>2 DEF Check, DifferencesNeverWrap, OnlyWindowMissed, RepliesCounted,
                      RepliesOfBatch, rxVars
  <2> QED BY <2>1, <2>3
<1>2. CASE Shown
  <2>1. TypeOK' BY <1>2 DEF Shown, TypeOK, rxVars
  <2>2. \A f \in Fields : InWindow(f)' <=> InWindow(f)
    BY <1>2 DEF Shown, InWindow
  <2>3. DifferencesNeverWrap' /\ OnlyWindowMissed' /\ RepliesCounted'
    BY <1>2, <2>2 DEF Shown, DifferencesNeverWrap, OnlyWindowMissed, RepliesCounted,
                      RepliesOfBatch, rxVars
  <2> QED BY <2>1, <2>3
<1>3. CASE Copied
  <2>1. TypeOK' BY <1>3 DEF Copied, TypeOK, rxVars
  <2>2. \A f \in Fields : InWindow(f)' <=> InWindow(f)
    BY <1>3 DEF Copied, InWindow
  <2>3. DifferencesNeverWrap' /\ OnlyWindowMissed' /\ RepliesCounted'
    BY <1>3, <2>2 DEF Copied, DifferencesNeverWrap, OnlyWindowMissed, RepliesCounted,
                      RepliesOfBatch, rxVars
  <2> QED BY <2>1, <2>3
<1>4. ASSUME NEW f \in Fields, Show(f) PROVE IInv'
  <2>1. TypeOK' BY <1>4 DEF Show, TypeOK, rxVars
  <2>2. DifferencesNeverWrap' /\ RepliesCounted'
    BY <1>4 DEF Show, DifferencesNeverWrap, RepliesCounted, RepliesOfBatch, rxVars
  <2>3. ASSUME NEW g \in Fields
        PROVE  printed'[g] + missed'[g] = IF InWindow(g)' THEN stats'[g] ELSE previous'[g]
    <3>1. /\ previous[g] \in Nat /\ stats[g] \in Nat /\ printed[g] \in Int /\ missed[g] \in Nat
          /\ printed[g] + missed[g] = IF InWindow(g) THEN stats[g] ELSE previous[g]
      BY DEF TypeOK, OnlyWindowMissed
    <3>2. missed' = missed /\ stats' = stats /\ previous' = previous
      BY <1>4 DEF Show
    <3>3. CASE g = f
      <4>1. printed'[g] = printed[g] + (stats[g] - previous[g])
        BY <1>4, <3>3 DEF Show, TypeOK
      <4>2. ~InWindow(g) /\ InWindow(g)'
        BY <1>4, <3>3 DEF Show, InWindow
      <4> QED BY <3>1, <3>2, <4>1, <4>2
    <3>4. CASE g # f
      <4>1. printed'[g] = printed[g]
        BY <1>4, <3>4 DEF Show, TypeOK
      <4>2. InWindow(g)' <=> InWindow(g)
        BY <1>4, <3>4 DEF Show, InWindow
      <4> QED BY <3>1, <3>2, <4>1, <4>2
    <3> QED BY <3>3, <3>4
  <2> QED BY <2>1, <2>2, <2>3 DEF OnlyWindowMissed
<1>5. ASSUME NEW f \in Fields, Copy(f) PROVE IInv'
  <2>1. TypeOK' BY <1>5 DEF Copy, TypeOK, rxVars
  <2>2. RepliesCounted'
    BY <1>5 DEF Copy, RepliesCounted, RepliesOfBatch, rxVars
  <2>3. ASSUME NEW g \in Fields
        PROVE  /\ previous'[g] <= stats'[g]
               /\ printed'[g] + missed'[g] = IF InWindow(g)' THEN stats'[g] ELSE previous'[g]
    <3>1. /\ previous[g] \in Nat /\ stats[g] \in Nat /\ printed[g] \in Int /\ missed[g] \in Nat
          /\ previous[g] <= stats[g]
          /\ printed[g] + missed[g] = IF InWindow(g) THEN stats[g] ELSE previous[g]
      BY DEF TypeOK, DifferencesNeverWrap, OnlyWindowMissed
    <3>2. missed' = missed /\ stats' = stats /\ printed' = printed
      BY <1>5 DEF Copy
    <3>3. CASE g = f
      <4>1. previous'[g] = stats[g]
        BY <1>5, <3>3 DEF Copy, TypeOK
      <4>2. InWindow(g) /\ ~InWindow(g)'
        BY <1>5, <3>3 DEF Copy, InWindow
      <4> QED BY <3>1, <3>2, <4>1, <4>2
    <3>4. CASE g # f
      <4>1. previous'[g] = previous[g]
        BY <1>5, <3>4 DEF Copy, TypeOK
      <4>2. InWindow(g)' <=> InWindow(g)
        BY <1>5, <3>4 DEF Copy, InWindow
      <4> QED BY <3>1, <3>2, <4>1, <4>2
    <3> QED BY <3>3, <3>4
  <2> QED BY <2>1, <2>2, <2>3 DEF DifferencesNeverWrap, OnlyWindowMissed
<1> QED BY <1>1, <1>2, <1>3, <1>4, <1>5 DEF Poller

\* The invariant is inductive.
THEOREM Invariant == Spec => []IInv
<1>1. Init => IInv
  <2> SUFFICES ASSUME Init PROVE IInv
    OBVIOUS
  <2>1. \A f \in Fields : previous[f] = 0 /\ stats[f] = 0 /\ printed[f] = 0 /\ missed[f] = 0
    BY DEF Init, Zero
  <2>2. \A f \in Fields : ~InWindow(f)
    BY DEF Init, InWindow
  <2>3. TypeOK
    BY StatisticsAssumption DEF Init, TypeOK, Zero
  <2>4. DifferencesNeverWrap /\ OnlyWindowMissed
    BY <2>1, <2>2 DEF DifferencesNeverWrap, OnlyWindowMissed
  <2>5. RepliesCounted
    BY <2>1 DEF Init, RepliesCounted, RepliesOfBatch, Fields, RxFields
  <2> QED BY <2>3, <2>4, <2>5 DEF IInv
<1>2. IInv /\ [Next]_vars => IInv'
  <2> SUFFICES ASSUME IInv, [Next]_vars PROVE IInv'
    OBVIOUS
  <2>1. CASE Receiver BY <2>1, ReceiverKeeps
  <2>2. CASE Poller BY <2>2, PollerKeeps
  <2>3. CASE SetFlag
    <3>1. TypeOK' BY <2>3 DEF SetFlag, IInv, TypeOK, pollVars
    <3>2. DifferencesNeverWrap' /\ OnlyWindowMissed'
      BY <2>3 DEF SetFlag, IInv, DifferencesNeverWrap, OnlyWindowMissed, InWindow, pollVars
    <3>3. stats["tx_packets"] \in Nat /\ stats["rx_packets"] \in Nat
      BY DEF IInv, TypeOK, Fields, RxFields
    <3>4. RepliesCounted'
      BY <2>3, <3>3, StatisticsAssumption
         DEF SetFlag, IInv, RepliesCounted, RepliesOfBatch, TypeOK
    <3> QED BY <3>1, <3>2, <3>4 DEF IInv
  <2>4. CASE UNCHANGED vars
    BY <2>4 DEF vars, rxVars, pollVars, IInv, TypeOK, DifferencesNeverWrap, OnlyWindowMissed,
                InWindow, RepliesCounted, RepliesOfBatch
  <2> QED BY <2>1, <2>2, <2>3, <2>4 DEF Next, Ended
<1> QED BY <1>1, <1>2, PTL DEF Spec

\* The counters, their copies and the positions of the two threads keep their
\* types; a counter never leaves Nat, whichever loads and additions interleave.
THEOREM TypeCorrect == Spec => []TypeOK
BY Invariant, PTL DEF IInv

\* No difference that stats_print takes wraps around, for every length of the
\* packets and every interleaving of its loads with the receiving thread.
THEOREM NoDifferenceWraps == Spec => []DifferencesNeverWrap
BY Invariant, PTL DEF IInv

\* What was printed and what was counted between a print and the copy after it
\* add up to the counter.
THEOREM PrintedAddsUp == Spec => []OnlyWindowMissed
BY Invariant, PTL DEF IInv

\* The printed differences never add up to more than was counted.
THEOREM NothingTwice == Spec => []NothingShownTwice
<1>1. IInv => NothingShownTwice
  <2> SUFFICES ASSUME IInv, NEW f \in Fields PROVE printed[f] <= stats[f]
    BY DEF NothingShownTwice
  <2>1. /\ previous[f] \in Nat /\ stats[f] \in Nat /\ printed[f] \in Int /\ missed[f] \in Nat
        /\ previous[f] <= stats[f]
        /\ printed[f] + missed[f] = IF InWindow(f) THEN stats[f] ELSE previous[f]
    BY DEF IInv, TypeOK, DifferencesNeverWrap, OnlyWindowMissed
  <2> QED BY <2>1
<1> QED BY <1>1, Invariant, PTL

\* Replies are never counted more than one batch ahead of packets.
THEOREM RepliesWithinABatch == Spec => []RepliesAheadByABatch
<1>1. IInv => RepliesAheadByABatch
  <2> SUFFICES ASSUME IInv PROVE RepliesAheadByABatch
    OBVIOUS
  <2>1. stats["tx_packets"] \in Nat /\ stats["rx_packets"] \in Nat
    BY DEF IInv, TypeOK, Fields, RxFields
  <2> QED BY <2>1, StatisticsAssumption
      DEF IInv, TypeOK, RepliesCounted, RepliesOfBatch, RepliesAheadByABatch
<1> QED BY <1>1, Invariant, PTL
=============================================================================
