CONSTANTS
  Prefixes = {p1}
  Threads <- MCThreads
  LIVES = 1
  FAULTS = 0
  COMMANDS = 1
  SIGNALS = 0
  CRASHES = 0

SPECIFICATION Spec

INVARIANT PortServedOnceStarted
