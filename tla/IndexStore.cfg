\* Two binaries, three commands of any kind, one kill or change of
\* permissions; as many files as two names, two connections and a new one.
SPECIFICATION Spec
CONSTANTS
  Proc = {p1, p2}
  Newer = p2
  File = {1, 2, 3, 4, 5}
  NoFile = 0
  Lockfile = {1, 2, 3, 4}
  NoProc = NoProc
  Dead = Dead
  MaxHead = 2
  MaxCommands = 3
  MaxAccidents = 1
  Latest <- MCLatest
INVARIANTS
  TypeOK
  WritesOwnSchema
  PromiseKept
  AnswersKeepPromise
CHECK_DEADLOCK FALSE
