SPECIFICATION FairSpec
CONSTANTS
  MaxSlots = 1
  Mailbox = 1
  MaxUnits = 3
  MaxSessions = 2
  MaxLosses = 1
  MaxCandidates = 2
  MaxListed = 3
  Answers <- MCAnswers
  AnswerTimeout = 0
  ConnectTimeout = 0
INVARIANTS RefsExact
PROPERTIES RestartsOnIdr Settles
