SPECIFICATION FairSpec
CONSTANTS
  Hosts = {a, b}
  ProbeCount = 3
  AnnounceCount = 2
  AnnounceInterval = 4
  ConflictInterval = 4
  SuffixMax = 2
  MaxAddresses = 2
  IfLists <- MCIfLists
  FirstIfs <- MCFirstIfs
  Movable = {a}
  MaxQueries = 1
  MaxChanges = 1
  MaxBoots = 2
  MaxLosses = 2
  MaxQuestions = 3
  MaxCells = 4
  MaxJumps = 8
  MaxLabels = 6
  TtlUnique = 120
  TtlShared = 4500
  Label <- MCLabel
CHECK_DEADLOCK FALSE
INVARIANTS ProbedBeforeAnnounced PublishesCurrent
PROPERTY Resolved
