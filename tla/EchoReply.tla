------------------------------ MODULE EchoReply -----------------------------
(***************************************************************************)
(* What happens to a packet in one frame of the UMEM: the XDP program of   *)
(* the inner interface (src/kern/inner_xdp.c) drops it, passes it to the   *)
(* network stack or sends it to the AF_XDP socket; process_packet          *)
(* (src/lib/xsk_receive.c) turns an ICMP echo request into its reply, in   *)
(* place, and sends it.                                                    *)
(*                                                                         *)
(* The frame is reused: a short packet leaves the bytes behind it as the   *)
(* last packet left them, and process_packet reads the ICMP header without *)
(* asking whether the packet reaches that far.  The three length tests of  *)
(* process_packet compare the whole length with each header by itself.     *)
(* The last packet may be one that process_packet never saw: the kernel    *)
(* copies it into the frame, finds the rx ring full, drops it and keeps    *)
(* the frame for the next one.                                             *)
(*                                                                         *)
(* The fields of a packet are those the code reads or writes; hrest and    *)
(* rest stand for the one's complement sums of the words it leaves alone   *)
(* in the IP header and in the ICMP message.  A message is what lies at    *)
(* the fixed offset 34 where process_packet reads and writes it: the ICMP  *)
(* message of a plain packet, whose IP header has no options and which is  *)
(* no later fragment.  The code asks for neither.                          *)
(***************************************************************************)
EXTENDS Checksum

CONSTANT Packets   \* the packets that may arrive

ETH_HLEN   == 14   \* sizeof(struct ethhdr)
IP_HLEN    == 20   \* sizeof(struct iphdr)
ICMP_HLEN  == 8    \* sizeof(struct icmphdr)
TYPE_END   == ETH_HLEN + IP_HLEN + 1           \* just behind the ICMP type
ICMP_END   == ETH_HLEN + IP_HLEN + ICMP_HLEN   \* just behind the ICMP header

ICMP_ECHO      == 8
ICMP_ECHOREPLY == 0

Header == [eth : {"ip", "other"}, proto : {"icmp", "other"}, plain : BOOLEAN,
           smac : Words, dmac : Words,
           saddr : Words, daddr : Words, hrest : Words, hsum : Words]
Message == [type : Words, rest : Words, sum : Words]

\* A packet is as long as len says; of what is beyond len nothing arrives.
Packet == [len : Nat, header : Header, message : Message]

ASSUME PacketsAssumption == Packets \subseteq Packet

ASSUME EchoAssumption == ICMP_ECHO < WORD - 1

None == [len |-> 0]   \* no packet

VARIABLES
  mem,    \* the contents of the frame: its header and message fields
  desc,   \* the packet that is in the frame, None while the frame is free
  sent,   \* the reply sent for it, None when there is none
  unseen  \* history: the type byte of the frame is that of a dropped packet

vars == <<mem, desc, sent, unseen>>

\* The UMEM is 16 MB of fresh pages: every byte is zero at first.
Blank ==
  [header  |-> [eth |-> "other", proto |-> "other", plain |-> FALSE, smac |-> 0, dmac |-> 0,
                saddr |-> 0, daddr |-> 0, hrest |-> 0, hsum |-> 0],
   message |-> [type |-> 0, rest |-> 0, sum |-> 0]]

Init == mem = Blank /\ desc = None /\ sent = None /\ unseen = FALSE

\* xdp_sock_prog: the verdict on a packet, an active socket being in xsks_map.
\* (A packet whose Ethernet or IP header is cut off is dropped before any field
\* of it is read.)
Verdict(p) ==
  IF p.len < ETH_HLEN THEN "XDP_DROP"
  ELSE IF p.header.eth # "ip" THEN "XDP_PASS"
  ELSE IF p.len < ETH_HLEN + IP_HLEN THEN "XDP_DROP"
  ELSE IF p.header.proto # "icmp" THEN "XDP_PASS"
  ELSE "XDP_REDIRECT"

\* The bytes of a packet that is long enough for its IP header overwrite those
\* of the frame, up to its length.
Copied(p) ==
  [header  |-> p.header,
   message |-> IF p.len >= ICMP_END THEN p.message
               ELSE IF p.len >= TYPE_END
               THEN [mem.message EXCEPT !.type = p.message.type]
               ELSE mem.message]

\* The kernel receives a redirected packet into the frame.
Receive(p) ==
  /\ desc = None
  /\ Verdict(p) = "XDP_REDIRECT"
  /\ mem' = Copied(p)
  /\ desc' = p
  /\ sent' = None
  /\ unseen' = (unseen /\ p.len < TYPE_END)

\* The kernel copies a redirected packet into the frame, finds no room in the rx
\* ring, drops the packet and keeps the frame (Umem.KernelDeliver).
Drop(p) ==
  /\ desc = None
  /\ Verdict(p) = "XDP_REDIRECT"
  /\ mem' = Copied(p)
  /\ sent' = None
  /\ unseen' = (unseen \/ p.len >= TYPE_END)
  /\ UNCHANGED desc

\* Mutant of IsEchoRequest: any ICMP message is taken for a request.
IsAnyIcmp == mem.header.eth = "ip" /\ mem.header.proto = "icmp"

\* The tests of process_packet: none of the length tests can fail for a packet
\* that passed the XDP program, and none covers the ICMP header.
IsEchoRequest ==
  /\ desc.len >= ETH_HLEN
  /\ desc.len >= IP_HLEN
  /\ desc.len >= ICMP_HLEN
  /\ mem.header.eth = "ip"
  /\ mem.header.proto = "icmp"
  /\ mem.message.type = ICMP_ECHO

\* Mutants of Reply: the old source address is overwritten before it is saved;
\* the type of the message stays that of a request.
ReplyLosesAddress ==
  [mem EXCEPT !.header.smac = mem.header.dmac, !.header.dmac = mem.header.smac,
              !.header.saddr = mem.header.daddr,
              !.message.type = ICMP_ECHOREPLY,
              !.message.sum = CsumReplace2(@, ICMP_ECHO, ICMP_ECHOREPLY)]
ReplyKeepsType ==
  [mem EXCEPT !.header.smac = mem.header.dmac, !.header.dmac = mem.header.smac,
              !.header.saddr = mem.header.daddr, !.header.daddr = mem.header.saddr]

\* The frame after the addresses are swapped, the type is replaced and the
\* checksum of the message updated.  The checksum of the IP header stays.
Reply ==
  [mem EXCEPT !.header.smac = mem.header.dmac, !.header.dmac = mem.header.smac,
              !.header.saddr = mem.header.daddr, !.header.daddr = mem.header.saddr,
              !.message.type = ICMP_ECHOREPLY,
              !.message.sum = CsumReplace2(@, ICMP_ECHO, ICMP_ECHOREPLY)]

\* process_packet answers: sendto takes the reply, or fails and it is lost.
Answer ==
  /\ desc # None
  /\ IsEchoRequest
  /\ mem' = Reply
  /\ \/ sent' = [len |-> desc.len, header |-> Reply.header,
                 message |-> Reply.message, request |-> desc, unseen |-> unseen]
     \/ sent' = None
  /\ desc' = None
  /\ unseen' = FALSE

\* process_packet returns early; the frame is freed as it is.
Ignore ==
  /\ desc # None
  /\ ~IsEchoRequest
  /\ desc' = None
  /\ UNCHANGED <<mem, sent, unseen>>

Next == (\E p \in Packets : Receive(p) \/ Drop(p)) \/ Answer \/ Ignore

Spec == Init /\ [][Next]_vars

-----------------------------------------------------------------------------
(* Properties.                                                             *)

\* The type of the frame, of the packet in it and of the reply.
TypeOK ==
  /\ mem \in [header : Header, message : Message]
  /\ desc \in Packets \cup {None}
  /\ sent \in {None} \cup [len : Nat, header : Header, message : Message,
                        request : Packets, unseen : BOOLEAN]
  /\ unseen \in BOOLEAN

\* process_packet leaves no request behind: every request it was given was turned
\* into a reply in place.  The type byte that a free frame holds is that of an
\* echo request only if the kernel dropped the packet before process_packet saw
\* it, the rx ring being full.
NoRequestLeftBehind == desc = None /\ mem.message.type = ICMP_ECHO => unseen

\* An echo request: its ICMP message is where process_packet looks for it.
IsRequest(p) ==
  /\ p.len >= TYPE_END
  /\ p.header.proto = "icmp" /\ p.header.plain
  /\ p.message.type = ICMP_ECHO

\* Among plain packets only echo requests are answered, and packets that end in
\* front of the ICMP type and came into a frame in which a dropped packet had
\* left one: process_packet tests no length that covers the type.  A packet
\* with options or a later fragment is answered on account of its own byte 34.
AnswersOnlyRequests ==
  sent # None =>
    LET p == sent.request
    IN  \/ IsRequest(p)
        \/ ~p.header.plain /\ p.len >= TYPE_END /\ p.message.type = ICMP_ECHO
        \/ p.len < TYPE_END /\ sent.unseen

\* What a receiver verifies of the IP header.
HeaderVerifies(h) == OnesPlus(OnesPlus(h.saddr, h.daddr), OnesPlus(h.hrest, h.hsum)) = WORD - 1

\* The reply goes back where the request came from, and its IP header verifies
\* whenever that of a plain request did, although its checksum is not computed
\* again.
ReplyReturnsToSender ==
  sent # None =>
    LET h == sent.header
        r == sent.request.header
    IN  /\ h.dmac = r.smac /\ h.smac = r.dmac
        /\ h.daddr = r.saddr /\ h.saddr = r.daddr
        /\ r.plain /\ HeaderVerifies(r) => HeaderVerifies(h)

\* The ICMP message of the reply to a complete request verifies whenever the
\* request's did, save for the reply all of whose words are zero.
ReplyVerifies ==
  sent # None /\ sent.request.len >= ICMP_END =>
    LET m == sent.message
        r == sent.request.message
    IN  Verifies(r.rest, r.type, r.sum) =>
          (Verifies(m.rest, m.type, m.sum) <=> m.rest # 0)
=============================================================================
