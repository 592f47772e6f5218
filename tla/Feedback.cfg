SPECIFICATION FairSpec
CONSTANTS
  Names = {"a", "b", "c", "local"}
  ValidNames = {"a", "b", "c"}
  Configs <- MCConfigs
  MaxFile = 2
  MaxPipe = 1
  Redirect <- Mutual
  MaxRedirects = 2
  Kinds <- MCKinds
  Limits <- FeedbackLimits
INVARIANTS
  FeedbackTypeOK
PROPERTIES
  QueueDrains
  StaysWatching
  FileIsRead
CHECK_DEADLOCK FALSE
