SPECIFICATION FairSpec
CONSTANTS
  Items = {g}
  Targets = {t1}
  MaxPlans = 4
  FailedWindow = 1
  AppliedWindow = 1
  StuckAfter = 1
  KeepDecided = 2
  KeepSuperseded = 1
  Replicas = {r1}
  Kinds = {"publishFails", "collision", "findFails", "materializeFails", "sqlHasNoEffect", "sqlFails", "callFails", "crash", "denial", "edit", "mode", "drift", "authority", "clockBack"}
  MaxDisturbances = 2
  NoOne = NoOne
INVARIANT TypeOK
INVARIANT ExecutesWhatWasApproved
INVARIANT DecisionGatesPhase
PROPERTY PhasesMoveForward
PROPERTY ReplacedBeforeRetired
PROPERTY RetiredIsNotReferenced
PROPERTY AutoConverges
PROPERTY OutstandingIsPlanned
PROPERTY NoStrandedPlan
