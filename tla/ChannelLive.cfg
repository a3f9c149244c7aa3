\* A client whose two signals leave three connections open.
CONSTANTS
  Clients = {c1}
  BACKLOG = 1
  SIGNALS = 2

SPECIFICATION FairSpec

PROPERTIES
  SignalledClientEnds
  AnswerOrError
  FlagStopsServer
