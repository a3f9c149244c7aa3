\* NUM_FRAMES = FQ_SIZE + RX_SIZE, the proportion of the code (4096 = 2048 + 2048).
CONSTANTS
  NUM_FRAMES = 4
  FQ_SIZE = 2
  RX_SIZE = 2
  RX_BATCH_SIZE = 2
  KERNEL_HOLD = 1

SPECIFICATION FairSpec

INVARIANTS
  TypeOK
  FramePartition
  AssertionHolds
  NeverRetries
  NeverStarved

PROPERTIES
  OwnershipCycle
  StarvedKernelIsFed
  ReceivedIsRecycled
