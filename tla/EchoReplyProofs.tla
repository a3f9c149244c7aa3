--------------------------- MODULE EchoReplyProofs --------------------------
(***************************************************************************)
(* Theorems about modules Checksum and EchoReply, for every word size and  *)
(* every set of packets that may arrive.                                   *)
(***************************************************************************)
EXTENDS EchoReply, TLAPS

-----------------------------------------------------------------------------
(* What csum_replace2 does.                                                *)

LEMMA OnesPlusValue ==
  ASSUME NEW a \in Words, NEW b \in Words
  PROVE  /\ OnesPlus(a, b) \in Words
         /\ OnesPlus(a, b) = IF a + b < WORD THEN a + b ELSE a + b - (WORD - 1)
  BY WordAssumption DEF OnesPlus, EndAroundCarry, Plus, Words

\* The order in which the words of a message are added does not matter.
LEMMA OnesPlusCommutes ==
  ASSUME NEW a \in Words, NEW b \in Words
  PROVE  OnesPlus(a, b) = OnesPlus(b, a)
<1>1. OnesPlus(a, b) = IF a + b < WORD THEN a + b ELSE a + b - (WORD - 1)
  BY OnesPlusValue
<1>2. OnesPlus(b, a) = IF b + a < WORD THEN b + a ELSE b + a - (WORD - 1)
  BY OnesPlusValue
<1>3. QED
  BY <1>1, <1>2, WordAssumption DEF Words

LEMMA OnesPlusAssociates ==
  ASSUME NEW a \in Words, NEW b \in Words, NEW c \in Words
  PROVE  OnesPlus(OnesPlus(a, b), c) = OnesPlus(a, OnesPlus(b, c))
<1> DEFINE ab == OnesPlus(a, b)
           bc == OnesPlus(b, c)
<1>1. ab \in Words /\ ab = IF a + b < WORD THEN a + b ELSE a + b - (WORD - 1)
  BY OnesPlusValue
<1>2. bc \in Words /\ bc = IF b + c < WORD THEN b + c ELSE b + c - (WORD - 1)
  BY OnesPlusValue
<1>3. OnesPlus(ab, c) = IF ab + c < WORD THEN ab + c ELSE ab + c - (WORD - 1)
  BY <1>1, OnesPlusValue
<1>4. OnesPlus(a, bc) = IF a + bc < WORD THEN a + bc ELSE a + bc - (WORD - 1)
  BY <1>2, OnesPlusValue
<1> HIDE DEF ab, bc
<1>5. OnesPlus(ab, c) = OnesPlus(a, bc)
  BY <1>1, <1>2, <1>3, <1>4, WordAssumption DEF Words
<1>6. QED
  BY <1>5 DEF ab, bc

LEMMA NotIsWord == \A a \in Words : Not(a) \in Words
  BY WordAssumption DEF Not, Words

\* A message that verified before csum_replace2 verifies after it, except the
\* message all of whose words are zero, whose checksum must be all ones and
\* which csum_replace2 gives a checksum of zero.
THEOREM ReplacePreservesChecksum ==
  ASSUME NEW rest \in Words, NEW old \in Words, NEW new \in Words, NEW sum \in Words,
         Verifies(rest, old, sum),
         old # WORD - 1
  PROVE  Verifies(rest, new, CsumReplace2(sum, old, new)) <=> ~(rest = 0 /\ new = 0)
<1> DEFINE s == OnesPlus(Not(sum), Not(old))
           t == OnesPlus(s, new)
<1>1. Not(sum) \in Words /\ Not(old) \in Words
  BY NotIsWord
<1>2. s \in Words /\ s = IF Not(sum) + Not(old) < WORD THEN Not(sum) + Not(old)
                         ELSE Not(sum) + Not(old) - (WORD - 1)
  BY <1>1, OnesPlusValue
<1>3. t \in Words /\ t = IF s + new < WORD THEN s + new ELSE s + new - (WORD - 1)
  BY <1>2, OnesPlusValue
<1>4. CsumReplace2(sum, old, new) = Not(t) /\ Not(t) \in Words
  BY <1>3, NotIsWord DEF CsumReplace2
<1> DEFINE u == OnesPlus(rest, old)
           v == OnesPlus(rest, new)
<1>5. /\ u \in Words /\ u = IF rest + old < WORD THEN rest + old ELSE rest + old - (WORD - 1)
      /\ v \in Words /\ v = IF rest + new < WORD THEN rest + new ELSE rest + new - (WORD - 1)
  BY OnesPlusValue
<1>6. OnesPlus(u, sum) = IF u + sum < WORD THEN u + sum ELSE u + sum - (WORD - 1)
  BY <1>5, OnesPlusValue
<1>7. OnesPlus(v, Not(t)) = IF v + Not(t) < WORD THEN v + Not(t) ELSE v + Not(t) - (WORD - 1)
  BY <1>4, <1>5, OnesPlusValue
<1>8. OnesPlus(u, sum) = WORD - 1
  BY DEF Verifies
<1> HIDE DEF s, t, u, v
<1>9. OnesPlus(v, Not(t)) = WORD - 1 <=> ~(rest = 0 /\ new = 0)
  BY <1>1, <1>2, <1>3, <1>4, <1>5, <1>6, <1>7, <1>8, WordAssumption DEF Words, Not
<1>10. QED
  BY <1>4, <1>9 DEF Verifies, v

-----------------------------------------------------------------------------
(* The packet in the frame.                                                *)

\* The packet in the frame agrees with the bytes of the frame as far as it goes,
\* and what a short packet left in place is the type of a request only if a
\* dropped packet brought it.
FrameAgrees ==
  desc # None =>
    /\ desc \in Packets
    /\ desc.len >= ETH_HLEN + IP_HLEN
    /\ mem.header = desc.header
    /\ desc.header.eth = "ip" /\ desc.header.proto = "icmp"
    /\ desc.len >= ICMP_END => mem.message = desc.message
    /\ IF desc.len >= TYPE_END THEN mem.message.type = desc.message.type
                               ELSE mem.message.type = ICMP_ECHO => unseen

\* The inductive invariant.
IInv == TypeOK /\ FrameAgrees /\ NoRequestLeftBehind

LEMMA EchoWords == ICMP_ECHO \in Words /\ ICMP_ECHOREPLY \in Words
  BY WordAssumption, EchoAssumption DEF Words, ICMP_ECHO, ICMP_ECHOREPLY

LEMMA ReplaceWord ==
  ASSUME NEW sum \in Words, NEW old \in Words, NEW new \in Words
  PROVE  CsumReplace2(sum, old, new) \in Words
<1>1. Not(sum) \in Words /\ Not(old) \in Words
  BY NotIsWord
<1>2. OnesPlus(Not(sum), Not(old)) \in Words
  BY <1>1, OnesPlusValue
<1>3. OnesPlus(OnesPlus(Not(sum), Not(old)), new) \in Words
  BY <1>2, OnesPlusValue
<1>4. QED
  BY <1>3, NotIsWord DEF CsumReplace2

\* None is not a packet: it has no header.
LEMMA NoneIsNoPacket == None \notin Packets
  BY PacketsAssumption DEF None, Packet

LEMMA InitIInv == Init => IInv
<1> SUFFICES ASSUME Init PROVE IInv
  OBVIOUS
<1>1. Blank \in [header : Header, message : Message] /\ Blank.message.type # ICMP_ECHO
  BY WordAssumption DEF Blank, Header, Message, Words, ICMP_ECHO
<1>2. TypeOK
  BY <1>1 DEF Init, TypeOK
<1>3. FrameAgrees /\ NoRequestLeftBehind
  BY <1>1 DEF Init, FrameAgrees, NoRequestLeftBehind
<1>4. QED
  BY <1>2, <1>3 DEF IInv

\* The fields of the reply.
LEMMA ReplyFields ==
  ASSUME mem \in [header : Header, message : Message]
  PROVE  /\ Reply \in [header : Header, message : Message]
         /\ Reply.header.smac = mem.header.dmac
         /\ Reply.header.dmac = mem.header.smac
         /\ Reply.header.saddr = mem.header.daddr
         /\ Reply.header.daddr = mem.header.saddr
         /\ Reply.header.hrest = mem.header.hrest
         /\ Reply.header.hsum = mem.header.hsum
         /\ Reply.message.type = ICMP_ECHOREPLY
         /\ Reply.message.rest = mem.message.rest
         /\ Reply.message.sum = CsumReplace2(mem.message.sum, ICMP_ECHO, ICMP_ECHOREPLY)
<1>1. CsumReplace2(mem.message.sum, ICMP_ECHO, ICMP_ECHOREPLY) \in Words
  BY ReplaceWord, EchoWords DEF Message
<1>2. /\ Reply.header.smac = mem.header.dmac /\ Reply.header.dmac = mem.header.smac
      /\ Reply.header.saddr = mem.header.daddr /\ Reply.header.daddr = mem.header.saddr
      /\ Reply.header.hrest = mem.header.hrest /\ Reply.header.hsum = mem.header.hsum
  BY ZenonT(60) DEF Reply, Header, Message
<1>3. /\ Reply.message.type = ICMP_ECHOREPLY
      /\ Reply.message.rest = mem.message.rest
      /\ Reply.message.sum = CsumReplace2(mem.message.sum, ICMP_ECHO, ICMP_ECHOREPLY)
  BY <1>1, EchoWords, ZenonT(60) DEF Reply, Header, Message
<1>4. Reply \in [header : Header, message : Message]
  BY <1>1, EchoWords, ZenonT(60) DEF Reply, Header, Message
<1>5. QED
  BY <1>2, <1>3, <1>4

-----------------------------------------------------------------------------
(* The steps.                                                              *)

\* What a packet that the XDP program redirects leaves in the frame: no such
\* packet ends before its IP header does.
LEMMA CopiedAgrees ==
  ASSUME NEW p \in Packets, Verdict(p) = "XDP_REDIRECT",
         mem \in [header : Header, message : Message]
  PROVE  /\ Copied(p) \in [header : Header, message : Message]
         /\ Copied(p).header = p.header
         /\ p.len \in Nat /\ p.len >= ETH_HLEN + IP_HLEN
         /\ p.header.eth = "ip" /\ p.header.proto = "icmp"
         /\ p.len >= ICMP_END => Copied(p).message = p.message
         /\ Copied(p).message.type =
              IF p.len >= TYPE_END THEN p.message.type ELSE mem.message.type
<1>1. /\ p \in Packet /\ p.len \in Nat
      /\ p.header \in Header /\ p.message \in Message
  BY PacketsAssumption DEF Packet
<1>2. /\ p.len >= ETH_HLEN + IP_HLEN
      /\ p.header.eth = "ip" /\ p.header.proto = "icmp"
  BY <1>1 DEF Verdict, ETH_HLEN, IP_HLEN
<1>3. /\ Copied(p).header = p.header
      /\ Copied(p).message \in Message
      /\ p.len >= ICMP_END => Copied(p).message = p.message
      /\ Copied(p).message.type =
           IF p.len >= TYPE_END THEN p.message.type ELSE mem.message.type
  BY <1>1 DEF Copied, Message, ICMP_END, TYPE_END, ETH_HLEN, IP_HLEN, ICMP_HLEN
<1>4. Copied(p) \in [header : Header, message : Message]
  BY <1>1, <1>3 DEF Copied
<1>5. QED
  BY <1>1, <1>2, <1>3, <1>4

\* A packet that is received agrees with the frame it is in; one too short to
\* bring a type leaves the one that NoRequestLeftBehind speaks of.
LEMMA ReceiveStep ==
  ASSUME IInv, NEW p \in Packets, Receive(p)
  PROVE  IInv'
<1>1. /\ desc = None /\ desc' = p /\ sent' = None /\ mem' = Copied(p)
      /\ unseen' = (unseen /\ p.len < TYPE_END)
      /\ Verdict(p) = "XDP_REDIRECT"
  BY DEF Receive
<1>2. /\ mem \in [header : Header, message : Message] /\ unseen \in BOOLEAN
      /\ mem.message.type = ICMP_ECHO => unseen
  BY <1>1 DEF IInv, TypeOK, NoRequestLeftBehind
<1>3. /\ mem' \in [header : Header, message : Message]
      /\ mem'.header = p.header
      /\ p.len \in Nat /\ p.len >= ETH_HLEN + IP_HLEN
      /\ p.header.eth = "ip" /\ p.header.proto = "icmp"
      /\ p.len >= ICMP_END => mem'.message = p.message
      /\ mem'.message.type = IF p.len >= TYPE_END THEN p.message.type ELSE mem.message.type
  BY <1>1, <1>2, CopiedAgrees
<1>4. p.len >= TYPE_END \/ p.len < TYPE_END
  BY <1>3 DEF TYPE_END, ETH_HLEN, IP_HLEN
<1>5. TypeOK'
  BY <1>1, <1>3 DEF TypeOK
<1>6. FrameAgrees'
  BY <1>1, <1>2, <1>3, <1>4 DEF FrameAgrees
<1>7. NoRequestLeftBehind'
  BY <1>1, NoneIsNoPacket DEF NoRequestLeftBehind
<1>8. QED
  BY <1>5, <1>6, <1>7 DEF IInv

\* A dropped packet leaves its type in the frame, or the one that was there.
LEMMA DropStep ==
  ASSUME IInv, NEW p \in Packets, Drop(p)
  PROVE  IInv'
<1>1. /\ desc = None /\ desc' = desc /\ sent' = None /\ mem' = Copied(p)
      /\ unseen' = (unseen \/ p.len >= TYPE_END)
      /\ Verdict(p) = "XDP_REDIRECT"
  BY DEF Drop
<1>2. /\ mem \in [header : Header, message : Message] /\ unseen \in BOOLEAN
      /\ mem.message.type = ICMP_ECHO => unseen
  BY <1>1 DEF IInv, TypeOK, NoRequestLeftBehind
<1>3. /\ mem' \in [header : Header, message : Message]
      /\ mem'.message.type = IF p.len >= TYPE_END THEN p.message.type ELSE mem.message.type
  BY <1>1, <1>2, CopiedAgrees
<1>4. TypeOK' /\ FrameAgrees'
  BY <1>1, <1>3 DEF IInv, TypeOK, FrameAgrees
<1>5. NoRequestLeftBehind'
  BY <1>1, <1>2, <1>3 DEF NoRequestLeftBehind
<1>6. QED
  BY <1>4, <1>5 DEF IInv

\* What is known of the request when process_packet answers it.
LEMMA AnsweredRequest ==
  ASSUME IInv, Answer
  PROVE  /\ mem \in [header : Header, message : Message]
         /\ desc \in Packets /\ desc \in Packet
         /\ \/ desc.len >= TYPE_END /\ desc.message.type = ICMP_ECHO
            \/ desc.len < TYPE_END /\ unseen
         /\ mem.header = desc.header /\ mem.header.proto = "icmp"
         /\ desc.len >= ICMP_END => mem.message = desc.message
<1>1. /\ mem \in [header : Header, message : Message]
      /\ desc \in Packets /\ desc \in Packet
      /\ mem.header = desc.header /\ mem.header.proto = "icmp"
      /\ desc.len >= ICMP_END => mem.message = desc.message
      /\ mem.message.type = ICMP_ECHO
  BY PacketsAssumption DEF IInv, TypeOK, FrameAgrees, Answer, IsEchoRequest
<1>2. desc.len >= TYPE_END \/ desc.len < TYPE_END
  BY <1>1 DEF Packet, TYPE_END, ETH_HLEN, IP_HLEN
<1>3. /\ desc.len >= TYPE_END => desc.message.type = ICMP_ECHO
      /\ ~(desc.len >= TYPE_END) => unseen
  BY <1>1 DEF IInv, FrameAgrees, Answer
<1>4. QED
  BY <1>1, <1>2, <1>3

LEMMA AnswerStep == IInv /\ Answer => IInv'
<1> SUFFICES ASSUME IInv, Answer PROVE IInv'
  OBVIOUS
<1>1. mem \in [header : Header, message : Message] /\ desc \in Packets /\ desc.len \in Nat
  BY AnsweredRequest DEF Packet
<1>2. mem' = Reply /\ desc' = None /\ unseen' = FALSE
  BY DEF Answer
<1>3. Reply \in [header : Header, message : Message] /\ Reply.message.type = ICMP_ECHOREPLY
  BY <1>1, ReplyFields
<1>4. sent' \in {None} \cup [len : Nat, header : Header, message : Message,
                         request : Packets, unseen : BOOLEAN]
  <2>1. Reply.header \in Header /\ Reply.message \in Message
    BY <1>3
  <2>2. unseen \in BOOLEAN
    BY DEF IInv, TypeOK
  <2>3. QED
    BY <1>1, <2>1, <2>2 DEF Answer
<1>5. TypeOK'
  BY <1>2, <1>3, <1>4 DEF TypeOK
<1>6. FrameAgrees' /\ NoRequestLeftBehind'
  BY <1>2, <1>3 DEF FrameAgrees, NoRequestLeftBehind, ICMP_ECHO, ICMP_ECHOREPLY
<1>7. QED
  BY <1>5, <1>6 DEF IInv

LEMMA IgnoreStep == IInv /\ Ignore => IInv'
<1> SUFFICES ASSUME IInv, Ignore PROVE IInv'
  OBVIOUS
<1>1. mem' = mem /\ desc' = None /\ sent' = sent /\ unseen' = unseen /\ desc # None
  BY DEF Ignore
<1>2. TypeOK' /\ FrameAgrees'
  BY <1>1 DEF IInv, TypeOK, FrameAgrees
<1>3. mem.message.type = ICMP_ECHO => unseen
  <2>1. /\ desc \in Packet /\ desc.len >= ETH_HLEN + IP_HLEN
        /\ mem.header.eth = "ip" /\ mem.header.proto = "icmp"
    BY <1>1, PacketsAssumption DEF IInv, FrameAgrees
  <2>2. desc.len \in Nat
    BY <2>1 DEF Packet
  <2>3. QED
    BY <2>1, <2>2 DEF Ignore, IsEchoRequest, ETH_HLEN, IP_HLEN, ICMP_HLEN
<1>4. QED
  BY <1>1, <1>2, <1>3 DEF IInv, NoRequestLeftBehind

LEMMA NextIInv == IInv /\ [Next]_vars => IInv'
<1> SUFFICES ASSUME IInv, [Next]_vars PROVE IInv'
  OBVIOUS
<1>1. ASSUME NEW p \in Packets, Receive(p) PROVE IInv'
  BY <1>1, ReceiveStep
<1>2. ASSUME NEW p \in Packets, Drop(p) PROVE IInv'
  BY <1>2, DropStep
<1>3. CASE Answer
  BY <1>3, AnswerStep
<1>4. CASE Ignore
  BY <1>4, IgnoreStep
<1>5. CASE UNCHANGED vars
  BY <1>5 DEF vars, IInv, TypeOK, FrameAgrees, NoRequestLeftBehind
<1>6. QED
  BY <1>1, <1>2, <1>3, <1>4, <1>5 DEF Next

-----------------------------------------------------------------------------
(* The theorems.                                                           *)

LEMMA Inductive == Spec => []IInv
  BY InitIInv, NextIInv, PTL DEF Spec

\* The frame, the packet in it and the reply keep their types: a word of a
\* reply that was computed in place is still a word.
THEOREM TypeCorrect == Spec => []TypeOK
<1>1. IInv => TypeOK
  BY DEF IInv
<1>2. QED
  BY Inductive, <1>1, PTL

\* process_packet leaves no free frame with the type byte of a request, whatever
\* packets arrive and however short they are: one that a frame holds was brought
\* by a packet that the kernel dropped.
THEOREM NoStaleRequest == Spec => []NoRequestLeftBehind
<1>1. IInv => NoRequestLeftBehind
  BY DEF IInv
<1>2. QED
  BY Inductive, <1>1, PTL

\* Of the plain packets process_packet answers only echo requests, and those
\* that end in front of the ICMP type in a frame where a dropped packet left
\* one: the missing test of the length matters then and only then.
THEOREM OnlyRequestsAnswered == Spec => []AnswersOnlyRequests
<1>1. Init => AnswersOnlyRequests
  BY DEF Init, AnswersOnlyRequests
<1>2. IInv /\ AnswersOnlyRequests /\ [Next]_vars => AnswersOnlyRequests'
  <2> SUFFICES ASSUME IInv, AnswersOnlyRequests, [Next]_vars PROVE AnswersOnlyRequests'
    OBVIOUS
  <2>1. ASSUME NEW p \in Packets, Receive(p) \/ Drop(p) PROVE AnswersOnlyRequests'
    BY <2>1 DEF Receive, Drop, AnswersOnlyRequests
  <2>2. CASE Answer
    <3>1. sent' # None => sent'.request = desc /\ sent'.unseen = unseen
      BY <2>2 DEF Answer
    <3>2. /\ \/ desc.len >= TYPE_END /\ desc.message.type = ICMP_ECHO
             \/ desc.len < TYPE_END /\ unseen
          /\ desc.header.proto = "icmp"
      BY <2>2, AnsweredRequest
    <3>3. QED
      BY <3>1, <3>2 DEF AnswersOnlyRequests, IsRequest
  <2>3. CASE Ignore \/ UNCHANGED vars
    BY <2>3 DEF Ignore, vars, AnswersOnlyRequests
  <2>4. QED
    BY <2>1, <2>2, <2>3 DEF Next
<1>3. QED
  BY Inductive, <1>1, <1>2, PTL DEF Spec

\* The reply of process_packet to a complete request verifies exactly when one of
\* the words of its message is not zero, for every word size.
THEOREM RepliesVerify == Spec => []ReplyVerifies
<1>1. Init => ReplyVerifies
  BY DEF Init, ReplyVerifies
<1>2. IInv /\ ReplyVerifies /\ [Next]_vars => ReplyVerifies'
  <2> SUFFICES ASSUME IInv, ReplyVerifies, [Next]_vars PROVE ReplyVerifies'
    OBVIOUS
  <2>1. ASSUME NEW p \in Packets, Receive(p) \/ Drop(p) PROVE ReplyVerifies'
    BY <2>1 DEF Receive, Drop, ReplyVerifies
  <2>2. CASE Answer
    <3> SUFFICES ASSUME sent' # None, desc.len >= ICMP_END,
                        Verifies(desc.message.rest, desc.message.type, desc.message.sum)
                 PROVE  Verifies(Reply.message.rest, Reply.message.type, Reply.message.sum)
                          <=> Reply.message.rest # 0
      BY <2>2 DEF Answer, ReplyVerifies
    <3>1. /\ mem \in [header : Header, message : Message] /\ mem.message = desc.message
          /\ desc.message.type = ICMP_ECHO
      <4>1. desc.len \in Nat /\ desc.len >= TYPE_END
        BY <2>2, AnsweredRequest
           DEF Packet, ICMP_END, TYPE_END, ETH_HLEN, IP_HLEN, ICMP_HLEN
      <4>2. QED
        BY <2>2, <4>1, AnsweredRequest DEF TYPE_END, ETH_HLEN, IP_HLEN
    <3>2. desc.message.rest \in Words /\ desc.message.sum \in Words
      BY <3>1 DEF Message
    <3>3. ICMP_ECHO # WORD - 1
      BY WordAssumption, EchoAssumption DEF ICMP_ECHO
    <3>4. Verifies(desc.message.rest, ICMP_ECHOREPLY,
                   CsumReplace2(desc.message.sum, ICMP_ECHO, ICMP_ECHOREPLY))
            <=> ~(desc.message.rest = 0 /\ ICMP_ECHOREPLY = 0)
      BY <3>1, <3>2, <3>3, EchoWords, ReplacePreservesChecksum
    <3>5. QED
      BY <3>1, <3>4, ReplyFields DEF ICMP_ECHOREPLY
  <2>3. CASE Ignore \/ UNCHANGED vars
    BY <2>3 DEF Ignore, vars, ReplyVerifies
  <2>4. QED
    BY <2>1, <2>2, <2>3 DEF Next
<1>3. QED
  BY Inductive, <1>1, <1>2, PTL DEF Spec

\* The reply goes back to its sender, and swapping the two addresses leaves the
\* checksum of the IP header right, for every word size.
THEOREM RepliesReturn == Spec => []ReplyReturnsToSender
<1>1. Init => ReplyReturnsToSender
  BY DEF Init, ReplyReturnsToSender
<1>2. IInv /\ ReplyReturnsToSender /\ [Next]_vars => ReplyReturnsToSender'
  <2> SUFFICES ASSUME IInv, ReplyReturnsToSender, [Next]_vars PROVE ReplyReturnsToSender'
    OBVIOUS
  <2>1. ASSUME NEW p \in Packets, Receive(p) \/ Drop(p) PROVE ReplyReturnsToSender'
    BY <2>1 DEF Receive, Drop, ReplyReturnsToSender
  <2>2. CASE Answer
    <3> SUFFICES ASSUME sent' # None
                 PROVE  /\ Reply.header.dmac = desc.header.smac
                        /\ Reply.header.smac = desc.header.dmac
                        /\ Reply.header.daddr = desc.header.saddr
                        /\ Reply.header.saddr = desc.header.daddr
                        /\ desc.header.plain /\ HeaderVerifies(desc.header)
                             => HeaderVerifies(Reply.header)
      BY <2>2 DEF Answer, ReplyReturnsToSender
    <3>1. mem \in [header : Header, message : Message] /\ mem.header = desc.header
      BY <2>2, AnsweredRequest
    <3>2. mem.header.saddr \in Words /\ mem.header.daddr \in Words
      BY <3>1 DEF Header
    <3>3. OnesPlus(mem.header.saddr, mem.header.daddr) = OnesPlus(mem.header.daddr, mem.header.saddr)
      BY <3>2, OnesPlusCommutes
    <3>4. HeaderVerifies(desc.header) => HeaderVerifies(Reply.header)
      BY <3>1, <3>3, ReplyFields DEF HeaderVerifies
    <3>5. QED
      BY <3>1, <3>4, ReplyFields
  <2>3. CASE Ignore \/ UNCHANGED vars
    BY <2>3 DEF Ignore, vars, ReplyReturnsToSender
  <2>4. QED
    BY <2>1, <2>2, <2>3 DEF Next
<1>3. QED
  BY Inductive, <1>1, <1>2, PTL DEF Spec
=============================================================================
