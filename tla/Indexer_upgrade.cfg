\* An index that was built before migration 0004, and a run that brings a commit.
SPECIFICATION Spec
CONSTANTS
  Sha = {1, 2, 3}
  Branch = {main}
  Tag = {v1}
  NoSha = 0
  ChunkSize = 3
  BackfillChunk = 2
  MaxVariables = 3
  Upgraded = TRUE
  MaxChanges = 1
  MaxStops = 0
  History <- MCHistory
  Reverts <- MCReverts
  Trailer <- MCTrailer
INVARIANTS
  SearchableWhenReady
