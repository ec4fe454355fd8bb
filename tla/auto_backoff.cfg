SPECIFICATION Spec
CONSTANTS
  Items = {g}
  Targets = {t1}
  MaxPlans = 4
  FailedWindow = 1
  AppliedWindow = 1
  StuckAfter = 1
  KeepDecided = 2
  KeepSuperseded = 1
  Replicas = {r1}
  Kinds = {"sqlFails", "sqlHasNoEffect", "materializeFails", "crash", "edit"}
  MaxDisturbances = 3
  NoOne = NoOne
PROPERTY AutoBacksOff
