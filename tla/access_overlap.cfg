SPECIFICATION FairSpec
CONSTANTS
  r1 = r1
  NoOne = NoOne
  Replicas = {w1}
  Requests = {q1, q2}
  Roles = {r1}
  AccessSpecs <- Automatic
  TargetSpecs <- OneTarget
  Reconciliation = "authoritative"
  Duration = 1
  PendingTTL = 1
  MaxTime = 2
  Kinds = {"sync"}
  MaxEvents = 0
INVARIANT ActiveIsGranted
PROPERTY ExpiryEnds
PROPERTY Converges
CHECK_DEADLOCK FALSE
