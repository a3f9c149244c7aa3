\* The proportion of the code again, with batches smaller than the rx ring.
CONSTANTS
  NUM_FRAMES = 6
  FQ_SIZE = 3
  RX_SIZE = 3
  RX_BATCH_SIZE = 1
  KERNEL_HOLD = 1

SPECIFICATION Spec

INVARIANT OnlyFramesPosted
