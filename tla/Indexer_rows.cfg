\* Chunks of one commit, runs and gits that are killed, refs that are rewritten
\* and commits that return, and a statement limit that the largest walk exceeds.
SPECIFICATION Spec
CONSTANTS
  Sha = {1, 2, 3}
  Branch = {main}
  Tag = {v1}
  NoSha = 0
  ChunkSize = 1
  BackfillChunk = 2
  MaxVariables = 2
  Upgraded = FALSE
  MaxChanges = 3
  MaxStops = 1
  History <- MCHistory
  Reverts <- MCReverts
  Trailer <- MCTrailer
INVARIANTS
  TypeOK
  ResumePointSoundUnlessTorn
  MirrorsRefs
  TagsCurrent
  RevertsLinked
