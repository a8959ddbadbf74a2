CONSTANTS
  NumProfiles = 1
  Heaters = {1, 2}
  Tecs = {1}
  MaxStep = 2
  MaxDuration = 2
  Temps <- MCTemps
  Gaps = {0}
  Band = 1
  QueueLen = 2
  Lags = {1, 2}
  Commands = {"AUTO", "START", "OFF"}
  ProfileData <- MCProfileData
  DefaultData <- MCDefaultData
  EditActive = TRUE
SPECIFICATION FairSpec
INVARIANTS
  TypeOK
  IdleMeansOff
  NeverHeatAndCool
  StepMatchesState
  TimerMatchesState
PROPERTIES
  SoakHeldBeforeNext
  StopObeyed
  SoakEnds
