\* A client that connects before the timeout is set and is then sent a signal.
CONSTANTS
  Clients = {c1}
  BACKLOG = 1
  SIGNALS = 1

SPECIFICATION FairSpec

PROPERTY SocketThreadExits
