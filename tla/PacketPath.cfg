\* Three clients, two of which share a name, started four times, and a kill.
CONSTANTS
  Clients <- MCClients
  Prefixes <- MCPrefixes
  Name <- MCNames
  STARTS = 4
  KILLS = 1

SPECIFICATION Spec

INVARIANTS
  TypeOK
  RunningIsServed
  MapIsOfNewest
  SocketsGetTheirFrames
  EntryIsBound
  NothingLeft
