\* Walks that fit into one chunk: commits that come back after git pruned them,
\* runs that are killed, and an index that was built before migration 0004.
SPECIFICATION FairSpec
CONSTANTS
  Sha = {1, 2, 3}
  Branch = {main}
  Tag = {v1}
  NoSha = 0
  ChunkSize = 3
  BackfillChunk = 2
  MaxVariables = 3
  Upgraded = TRUE
  MaxChanges = 2
  MaxStops = 1
  History <- MCHistory
  Reverts <- MCReverts
  Trailer <- MCTrailer
INVARIANTS
  ResumePointSound
PROPERTIES
  ImplementsResumableIndex
  CatchesUp
