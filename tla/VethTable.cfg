\* Prefixes that are short enough for their entry.
CONSTANTS
  Prefixes <- MCPrefixes
  Cut <- MCShort
  HASH_FUNCTION <- MCHash
  Entries = {e1, e2, e3, e4, e5}
  HASH_INITIAL_NUM_BUCKETS = 1
  HASH_BKT_CAPACITY_THRESH = 2

SYMMETRY Symmetric

SPECIFICATION Spec

INVARIANTS
  Consistent
  ChainsBounded
  WalkInStep

PROPERTY
  IsPortTable
