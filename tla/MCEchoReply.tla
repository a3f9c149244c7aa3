----------------------------- MODULE MCEchoReply ----------------------------
(***************************************************************************)
(* EchoReply with words of four bits: every value of the unchanged words,  *)
(* two hosts, packets that end behind the IP header, behind the ICMP type  *)
(* and behind the ICMP header, and packets that are not plain.             *)
(***************************************************************************)
EXTENDS EchoReply

Hosts == {3, 9}
HeaderRests == {0, 4, 11}

\* The checksum of a message whose other words add up to s.
FillSum(s) == Not(s)

IpHeader(eth, proto, src, dst, hrest) ==
  [eth |-> eth, proto |-> proto, plain |-> TRUE, smac |-> src, dmac |-> dst,
   saddr |-> src, daddr |-> dst, hrest |-> hrest,
   hsum |-> FillSum(OnesPlus(OnesPlus(src, dst), hrest))]

Icmp(type, rest) ==
  [type |-> type, rest |-> rest, sum |-> FillSum(OnesPlus(rest, type))]

Full == {[len |-> ICMP_END, header |-> IpHeader("ip", "icmp", src, dst, hrest),
          message |-> Icmp(type, rest)] :
           src \in Hosts, dst \in Hosts, hrest \in HeaderRests,
           type \in {ICMP_ECHO, ICMP_ECHOREPLY, 13}, rest \in Words}

Short == {[len |-> len, header |-> IpHeader("ip", "icmp", src, dst, 4),
           message |-> Icmp(type, 5)] :
            len \in {ETH_HLEN + IP_HLEN, TYPE_END},
            src \in Hosts, dst \in Hosts, type \in {ICMP_ECHO, ICMP_ECHOREPLY}}

\* A message with a wrong checksum, and packets that are not for the socket.
Odd == {[len |-> ICMP_END, header |-> IpHeader("ip", "icmp", 3, 9, 4),
         message |-> [type |-> ICMP_ECHO, rest |-> 5, sum |-> 1]]}
  \cup {[len |-> len, header |-> IpHeader(eth, proto, 3, 9, 4), message |-> Icmp(ICMP_ECHO, 5)] :
         len \in {13, 33, ICMP_END}, eth \in {"ip", "other"}, proto \in {"icmp", "other"}}
  \cup {[len |-> len, header |-> [IpHeader("ip", "icmp", 3, 9, 4) EXCEPT !.plain = FALSE],
         message |-> Icmp(type, 5)] :
         len \in {ETH_HLEN + IP_HLEN, TYPE_END, ICMP_END}, type \in {ICMP_ECHO, 13}}

MCPackets == Full \cup Short \cup Odd
=============================================================================
