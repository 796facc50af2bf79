SPECIFICATION FairSpec
CONSTANTS
  MaxTxs = 2
  Endpoints = 2
  Programs <- MCPrograms
INVARIANTS TypeOK EffectOnce RetriedOnlyIfDead DoneMeansLanded SignaturesReported NeverMeansNever HaltStopsBuilds
PROPERTY Terminates
CHECK_DEADLOCK FALSE
