SPECIFICATION FairSpec
CONSTANTS
  r1 = r1
  NoOne = NoOne
  Replicas = {w1}
  Requests = {q1}
  Roles = {r1}
  AccessSpecs <- Automatic
  TargetSpecs <- Retiring
  Reconciliation = "additive"
  Duration = 1
  PendingTTL = 1
  MaxTime = 3
  Kinds = {"edit"}
  MaxEvents = 1
PROPERTY ExpiryEnds
CHECK_DEADLOCK FALSE
