\* Two names, two lives, a call that fails, a signal and a kill.
CONSTANTS
  Prefixes = {p1, p2}
  Threads <- MCThreads
  LIVES = 2
  FAULTS = 1
  COMMANDS = 3
  SIGNALS = 1
  CRASHES = 1

SPECIFICATION FairSpec

INVARIANTS
  TypeOK
  LinksAreKnown
  TableIsTrue
  CleanExit
  UnloadsAlone
  LoopNeverLeft

PROPERTIES
  CreateRedirects
  FlagStopsDaemon
