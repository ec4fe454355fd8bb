SPECIFICATION Spec
CONSTANTS
  r1 = r1
  NoOne = NoOne
  Replicas = {w1}
  Requests = {q1}
  Roles = {r1}
  AccessSpecs <- Automatic
  TargetSpecs <- OneTarget
  Reconciliation = "additive"
  Duration = 1
  PendingTTL = 1
  MaxTime = 3
  Kinds = {"decide"}
  MaxEvents = 1
INVARIANT Accounted
CHECK_DEADLOCK FALSE
