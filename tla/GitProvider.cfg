\* Pipes of one chunk, and a deadline two polls away.
SPECIFICATION FairSpec
CONSTANTS
  Capacity = 1
  Timeout = 2
  Script <- MCScript
  HexText = {"a1", "b2", "c3"}
  Number <- MCNumber
  Letter <- MCLetter
  TopDir <- MCTopDir
INVARIANTS
  TypeOK
  AnswerFaithful
  TimeoutOnlyIfHung
PROPERTIES
  CallReturns
