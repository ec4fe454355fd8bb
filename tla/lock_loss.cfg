SPECIFICATION Spec
CONSTANTS
  Items = {g}
  Targets = {t1, t2}
  MaxPlans = 2
  FailedWindow = 1
  AppliedWindow = 1
  StuckAfter = 1
  KeepDecided = 2
  KeepSuperseded = 1
  Replicas = {r1, r2}
  Kinds = {"target", "loseSession", "denial"}
  MaxDisturbances = 1
  NoOne = NoOne
INVARIANT ExecutesWhatWasApproved
INVARIANT DecisionGatesPhase
SYMMETRY Alike
