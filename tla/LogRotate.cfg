\* Two writers, the active file and two slots, so that a rotation removes, shifts and
\* promotes; as many files as two slots, the active one and two handles can hold.
SPECIFICATION Spec
CONSTANTS
  Writer = {w1, w2}
  File = {1, 2, 3, 4, 5}
  NoFile = 0
  Retention = 2
  Cap = 2
  RecordSizes = {1, 2}
  MaxRecords = 5
  MaxFaults = 1
SYMMETRY Symmetry
INVARIANTS
  TypeOK
  Capped
  OldestGoFirst
CHECK_DEADLOCK FALSE
