------------------------------ MODULE Checksum ------------------------------
(***************************************************************************)
(* The Internet checksum as process_packet uses it                         *)
(* (src/lib/xsk_receive.c): csum_replace2 updates a checksum in place when *)
(* one word of the message changes.  The word size is a parameter: words   *)
(* are the numbers below WORD, 2^16 in the code.                           *)
(***************************************************************************)
EXTENDS Integers

CONSTANT WORD   \* how many values a uint16_t has

ASSUME WordAssumption == WORD \in Nat /\ WORD > 1

Words == 0 .. WORD - 1

\* ~x, truncated to a word.
Not(x) == WORD - 1 - x

\* csum += x, truncated to a word.
Plus(csum, x) == IF csum + x < WORD THEN csum + x ELSE csum + x - WORD

\* csum += csum < x, after csum += x: the carry comes back at the other end.
EndAroundCarry(csum, x) == IF csum < x THEN Plus(csum, 1) ELSE csum

\* The one's complement sum of two words.
OnesPlus(csum, x) == EndAroundCarry(Plus(csum, x), x)

\* Mutant of CsumReplace2: ~csum is an int that is not truncated to a word.
CsumReplaceWide(sum, old, new) ==
  -OnesPlus(OnesPlus(Not(sum), Not(old)), new) - 1

\* Mutant of CsumReplace2: the new value subtracted and the old one added.
CsumReplaceSwapped(sum, old, new) ==
  Not(OnesPlus(OnesPlus(Not(sum), Not(new)), old))

\* csum_replace2: the checksum that goes with new in the place of old.
CsumReplace2(sum, old, new) ==
  Not(OnesPlus(OnesPlus(Not(sum), Not(old)), new))

(***************************************************************************)
(* What a receiver verifies: the one's complement sum of the words of the  *)
(* message and of its checksum is all ones.  rest is the sum of every word *)
(* but the one that changes.                                               *)
(***************************************************************************)
Verifies(rest, word, sum) == OnesPlus(OnesPlus(rest, word), sum) = WORD - 1
=============================================================================
