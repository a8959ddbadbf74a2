CONSTANTS
  NumProfiles = 1
  Heaters = {1}
  Tecs = {}
  MaxStep = 2
  MaxDuration = 2
  Temps <- MCTemps
  Gaps = {0, 2}
  Band = 1
  QueueLen = 2
  Lags = {1}
  Commands = {"AUTO", "START", "OFF"}
  ProfileData <- MCLiveData
  DefaultData <- MCLiveDefault
  EditActive = FALSE
SPECIFICATION FairSpec
PROPERTY SensorGapStops
