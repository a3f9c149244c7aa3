\* Two clients, a signal, a backlog that overflows.
CONSTANTS
  Clients = {c1, c2}
  BACKLOG = 2
  SIGNALS = 1

SYMMETRY ClientSymmetry

SPECIFICATION Spec

INVARIANTS
  TypeOK
  PortBeforeUse
  ExitRemovesPort
