SPECIFICATION Spec
CONSTANTS
  r1 = r1
  NoOne = NoOne
  Replicas = {w1}
  Requests = {q1, q2}
  Roles = {r1}
  AccessSpecs <- Automatic
  TargetSpecs <- OneTarget
  Reconciliation = "additive"
  Duration = 1
  PendingTTL = 1
  MaxTime = 1
  Kinds = {"delete"}
  MaxEvents = 2
SYMMETRY Symmetry
INVARIANT Accounted
CHECK_DEADLOCK FALSE
