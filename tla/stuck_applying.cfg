SPECIFICATION FairSpec
CONSTANTS
  Items = {g}
  Targets = {t1}
  MaxPlans = 4
  FailedWindow = 1
  AppliedWindow = 1
  StuckAfter = 1
  KeepDecided = 2
  KeepSuperseded = 1
  Replicas = {r1}
  Kinds = {"crash"}
  MaxDisturbances = 1
  NoOne = NoOne
PROPERTY StuckApplyingRecovered
