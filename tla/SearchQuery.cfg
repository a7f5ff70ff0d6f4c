\* Indexes of every age, a chunk and a kill while one query follows another;
\* limits below, at and above what the index can answer.
SPECIFICATION Spec
CONSTANTS
  Sha = {1, 2, 3}
  Text = {"fix", "decade", " ", "fix:"}
  Tty = 1
  SoftCap = 5
  AbsCap = 6
  Latest = 4
  ContentFts = 4
  MaxIndexed = 1
  MaxKills = 1
  Shape <- MCShape
  Prefixed <- MCPrefixed
  Matches <- MCMatches
  Bm25 <- MCBm25
  Age <- MCAge
  Dirs <- MCDirs
  Request <- MCRequest
INVARIANTS
  TypeOK
  CompleteUnlessUpgraded
  StrongestKept
PROPERTIES
  NeverForgets
