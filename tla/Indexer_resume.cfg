\* A walk of more than one chunk and one kill.
SPECIFICATION Spec
CONSTANTS
  Sha = {1, 2, 3}
  Branch = {main}
  Tag = {v1}
  NoSha = 0
  ChunkSize = 1
  BackfillChunk = 2
  MaxVariables = 3
  Upgraded = FALSE
  MaxChanges = 0
  MaxStops = 1
  History <- MCHistory
  Reverts <- MCReverts
  Trailer <- MCTrailer
INVARIANTS
  ResumePointSound
