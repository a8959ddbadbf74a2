CONSTANTS
  NumProfiles = 2
  Heaters = {1}
  Tecs = {1}
  MaxStep = 2
  MaxDuration = 1
  Temps <- MCTemps
  Gaps = {0}
  Band = 1
  QueueLen = 1
  Lags = {1}
  Commands = {"AUTO", "START", "OFF"}
  ProfileData <- MCProfileData
  DefaultData <- MCDefaultData
  EditActive = FALSE
SPECIFICATION FairSpec
INVARIANTS
  NeverHeatAndCool
  RunningProfilesDisjoint
PROPERTIES
  ImplementsProfileSequence
  RampEnds
