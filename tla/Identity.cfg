\* Three commits, five written pairs, two runs.
SPECIFICATION Spec
CONSTANTS
  Name = {"Ann", "ann", "bot"}
  Email = {"a@x", "A@x", "ann@noreply", "bot@x", ""}
  NormName <- MCNorm
  LowerEmail <- MCLower
  NoEmail = ""
  GithubNoreply = {"ann@noreply"}
  BotName = {"bot"}
  BotEmail = {}
  Commit = {1, 2, 3}
  People <- MCPeople
  Mailmaps <- MCMailmaps
  OverrideFiles <- MCOverrideFiles
  NoId = 0
  Window = 0
  MaxTime = 1
  MaxDisturbances = 1
  MaxRuns = 2
INVARIANTS
  TypeOK
  FuzzyMergesEmails
  NoreplyStandsAlone
  CacheMirrorsTables
  RowsNameAliases
  CuratedBotStays
CHECK_DEADLOCK FALSE
