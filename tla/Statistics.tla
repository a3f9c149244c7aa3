----------------------------- MODULE Statistics -----------------------------
(***************************************************************************)
(* The counters of the client (struct stats_record): the receiving thread  *)
(* counts in handle_receive_packets and process_packet                     *)
(* (src/lib/xsk_receive.c), the statistics thread (src/lib/xsk_stats.c)    *)
(* prints every two seconds by how much they have grown and copies them    *)
(* for the next time.  Nothing synchronises the two.                       *)
(*                                                                         *)
(* Each 64-bit counter is loaded and stored whole.  The order in which the *)
(* compiler copies the counters, or loads the two of one direction, is not *)
(* fixed and is left open.  Time and rates are left out.                   *)
(***************************************************************************)
EXTENDS Integers

CONSTANTS
  Lens,            \* the lengths of packets
  RX_BATCH_SIZE,   \* descriptors taken at a time
  PACKETS          \* how many packets arrive

ASSUME StatisticsAssumption ==
  Lens \subseteq Nat /\ RX_BATCH_SIZE \in Nat \ {0} /\ PACKETS \in Nat

VARIABLES
  stats,      \* the shared counters
  rx,         \* where the receiving thread is
  rcvd,       \* how many packets its batch has
  i,          \* how many of them are done
  len,        \* the length of the packet at hand
  poll,       \* where the statistics thread is
  todo,       \* the counters it has still to print or to copy
  previous,   \* its copy of the counters
  printed,    \* the sum of the differences it has printed, for each counter
  missed,     \* what was counted between the print of a counter and its copy
  flag        \* global_exit_flag

rxVars == <<rx, rcvd, i, len>>
pollVars == <<poll, todo, previous, printed>>
vars == <<stats, rxVars, pollVars, missed, flag>>

RxFields == {"rx_packets", "rx_bytes"}
Fields == RxFields \cup {"tx_packets", "tx_bytes"}
Zero == [f \in Fields |-> 0]

Init ==
  /\ stats = Zero /\ previous = Zero /\ printed = Zero /\ missed = Zero
  /\ rx = "poll" /\ rcvd = 0 /\ i = 0 /\ len = 0
  /\ poll = "check" /\ todo = {}
  /\ flag = 0

\* The statistics thread has printed counter f and not yet copied it.
InWindow(f) ==
  \/ poll = "print" /\ f \notin todo
  \/ poll = "copy" /\ f \in todo

\* The receiving thread adds n to counter f.
Count(f, n) ==
  /\ stats' = [stats EXCEPT ![f] = @ + n]
  /\ missed' = IF InWindow(f) THEN [missed EXCEPT ![f] = @ + n] ELSE missed

-----------------------------------------------------------------------------
(* The receiving thread.                                                   *)

\* A batch is peeked.
Peek ==
  /\ rx = "poll" /\ flag = 0
  /\ rcvd' \in 1 .. RX_BATCH_SIZE
  /\ stats["rx_packets"] + rcvd' <= PACKETS
  /\ i' = 0
  /\ rx' = "packet"
  /\ UNCHANGED <<stats, len, pollVars, missed, flag>>

\* Mutant of Packet: one packet more than the batch has.
PacketBeyond ==
  /\ rx = "packet" /\ i <= rcvd
  /\ len' \in Lens
  /\ rx' \in {"tx_bytes", "rx_bytes"}
  /\ UNCHANGED <<stats, rcvd, i, pollVars, missed, flag>>

\* The next packet: process_packet answers it, or it does not.
Packet ==
  /\ rx = "packet" /\ i < rcvd
  /\ len' \in Lens
  /\ rx' \in {"tx_bytes", "rx_bytes"}
  /\ UNCHANGED <<stats, rcvd, i, pollVars, missed, flag>>

\* The answer was sent.
TxBytes ==
  /\ rx = "tx_bytes"
  /\ Count("tx_bytes", len)
  /\ rx' = "tx_packets"
  /\ UNCHANGED <<rcvd, i, len, pollVars, flag>>

TxPackets ==
  /\ rx = "tx_packets"
  /\ Count("tx_packets", 1)
  /\ rx' = "rx_bytes"
  /\ UNCHANGED <<rcvd, i, len, pollVars, flag>>

RxBytes ==
  /\ rx = "rx_bytes"
  /\ Count("rx_bytes", len)
  /\ i' = i + 1
  /\ rx' = "packet"
  /\ UNCHANGED <<rcvd, len, pollVars, flag>>

\* The batch is released and counted as a whole.
RxPackets ==
  /\ rx = "packet" /\ i = rcvd
  /\ Count("rx_packets", rcvd)
  /\ rx' = "poll"
  /\ UNCHANGED <<rcvd, i, len, pollVars, flag>>

-----------------------------------------------------------------------------
(* The statistics thread.                                                  *)

\* The loop of stats_poll: it tests the flag and sleeps.
Check ==
  /\ poll = "check"
  /\ \/ flag = 0 /\ poll' = "print" /\ todo' = Fields
     \/ flag = 1 /\ poll' = "ended" /\ UNCHANGED todo
  /\ UNCHANGED <<stats, rxVars, previous, printed, missed, flag>>

\* stats_print takes the difference of a counter, the received ones first.
Show(f) ==
  /\ poll = "print" /\ f \in todo
  /\ f \notin RxFields => todo \cap RxFields = {}
  /\ printed' = [printed EXCEPT ![f] = @ + (stats[f] - previous[f])]
  /\ todo' = todo \ {f}
  /\ UNCHANGED <<stats, rxVars, poll, previous, missed, flag>>

Shown ==
  /\ poll = "print" /\ todo = {}
  /\ poll' = "copy" /\ todo' = Fields
  /\ UNCHANGED <<stats, rxVars, previous, printed, missed, flag>>

\* Mutant of Copy: a counter is copied only the first time.
CopyOnce(f) ==
  /\ poll = "copy" /\ f \in todo
  /\ previous' = IF previous[f] = 0 THEN [previous EXCEPT ![f] = stats[f]] ELSE previous
  /\ todo' = todo \ {f}
  /\ UNCHANGED <<stats, rxVars, poll, printed, missed, flag>>

\* previous_stats = xsk->stats.
Copy(f) ==
  /\ poll = "copy" /\ f \in todo
  /\ previous' = [previous EXCEPT ![f] = stats[f]]
  /\ todo' = todo \ {f}
  /\ UNCHANGED <<stats, rxVars, poll, printed, missed, flag>>

\* Mutant of Copied: the counters are reset once they are copied.
CopiedResets ==
  /\ poll = "copy" /\ todo = {}
  /\ poll' = "check"
  /\ stats' = Zero
  /\ UNCHANGED <<rxVars, todo, previous, printed, missed, flag>>

Copied ==
  /\ poll = "copy" /\ todo = {}
  /\ poll' = "check"
  /\ UNCHANGED <<stats, rxVars, todo, previous, printed, missed, flag>>

-----------------------------------------------------------------------------
\* exit_client sets the flag, on top of what the receiving thread does: it is
\* the main thread, to which Linux gives the signal.  The statistics thread goes
\* on until the process is gone.
SetFlag ==
  /\ flag = 0
  /\ flag' = 1
  /\ rx' = "interrupted"
  /\ UNCHANGED <<stats, rcvd, i, len, pollVars, missed>>

Ended == poll = "ended" /\ UNCHANGED vars

Receiver == Peek \/ Packet \/ TxBytes \/ TxPackets \/ RxBytes \/ RxPackets
Poller == Check \/ Shown \/ Copied \/ \E f \in Fields : Show(f) \/ Copy(f)

Next == Receiver \/ Poller \/ SetFlag \/ Ended

Spec == Init /\ [][Next]_vars
-----------------------------------------------------------------------------
(* Properties.                                                             *)

\* The type of every variable; no batch is longer than it was peeked.
TypeOK ==
  /\ stats \in [Fields -> Nat] /\ previous \in [Fields -> Nat]
  /\ printed \in [Fields -> Int] /\ missed \in [Fields -> Nat]
  /\ rx \in {"poll", "packet", "tx_bytes", "tx_packets", "rx_bytes", "interrupted"}
  /\ rcvd \in 0 .. RX_BATCH_SIZE /\ i \in 0 .. rcvd /\ len \in Lens \cup {0}
  /\ poll \in {"check", "print", "copy", "ended"}
  /\ todo \subseteq Fields
  /\ flag \in {0, 1}

\* stats_print subtracts unsigned numbers: no counter is ever behind its copy,
\* whenever it was taken, so that no difference wraps around.
DifferencesNeverWrap == \A f \in Fields : previous[f] <= stats[f]

\* The differences that stats_print shows never add up to more than was counted.
NothingShownTwice == \A f \in Fields : printed[f] <= stats[f]

\* What they leave out is what the receiving thread counted between the print of
\* a counter and its copy, and nothing else, however the threads interleave.
OnlyWindowMissed ==
  \A f \in Fields :
    printed[f] + missed[f] = IF InWindow(f) THEN stats[f] ELSE previous[f]

\* Replies are counted one by one and packets by the batch: the counters show
\* more replies than packets by at most one batch.
RepliesAheadByABatch == stats["tx_packets"] <= stats["rx_packets"] + RX_BATCH_SIZE
=============================================================================
