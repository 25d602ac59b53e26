SPECIFICATION FairSpec
CONSTANTS
  ChunkSize = 5
  Overlap = 2
  Lengths <- MCLengths
INVARIANTS
  TypeOK
  EveryRuneIsInAChunk
  ChunksArePieces
  NeighboursOverlap
  MatchesReference
PROPERTIES
  Terminates
CHECK_DEADLOCK FALSE
