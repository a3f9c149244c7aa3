\* Two lengths, batches of two, two packets.
CONSTANTS
  Lens <- MCLens
  RX_BATCH_SIZE = 2
  PACKETS = 2

SPECIFICATION Spec

INVARIANTS
  TypeOK
  DifferencesNeverWrap
  OnlyWindowMissed
