CONSTANTS
  Prefixes = {p1, p2}
  Threads <- MCThreads
  LIVES = 1
  FAULTS = 0
  COMMANDS = 2
  SIGNALS = 2
  CRASHES = 0

SPECIFICATION Spec

INVARIANT UnloadsAlone
