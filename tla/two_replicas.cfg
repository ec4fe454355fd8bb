SPECIFICATION Spec
CONSTANTS
  Items = {g}
  Targets = {t1}
  MaxPlans = 2
  FailedWindow = 1
  AppliedWindow = 1
  StuckAfter = 1
  KeepDecided = 1
  KeepSuperseded = 1
  Replicas = {r1, r2}
  Kinds = {"crash", "edit", "denial", "mode", "sqlFails", "authority", "publishFails", "collision", "findFails"}
  MaxDisturbances = 2
  NoOne = NoOne
INVARIANT EffectsAreCurrent
PROPERTY PhasesMoveForward
 
SYMMETRY Alike
