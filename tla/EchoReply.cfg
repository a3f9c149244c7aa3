\* Words of four bits are enough for ICMP_ECHO and for every carry.
CONSTANTS
  WORD = 16
  Packets <- MCPackets

SPECIFICATION Spec

INVARIANTS
  TypeOK
  NoRequestLeftBehind
  AnswersOnlyRequests
  ReplyReturnsToSender
  ReplyVerifies
