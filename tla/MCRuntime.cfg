SPECIFICATION RuntimeSpec
CONSTANTS
  Preference = "auto"
  HaveX264 = TRUE
  RetryDelay = 1
  RetryMax = 12
  FailCap = 5
  UintMax = 100001
  Argvs <- MCArgvs
  Starts <- MCStarts
  Files <- MCFiles
  FileTexts <- MCFileTexts
INVARIANTS WholeOrRetrying SettingsAreLayered
PROPERTIES BackoffHonoured ReloadTellsAll Recovers
