SPECIFICATION FairSpec
CONSTANTS
  r1 = r1
  NoOne = NoOne
  Replicas = {w1}
  Requests = {q1}
  Roles = {r1}
  AccessSpecs <- Automatic
  TargetSpecs <- Durable
  Reconciliation = "authoritative"
  Duration = 1
  PendingTTL = 1
  MaxTime = 3
  Kinds = {"call", "crash", "delete", "sql", "lost", "sync", "decide", "edit"}
  MaxEvents = 2
INVARIANT ActiveIsGranted
PROPERTY ExpiryEnds
PROPERTY DeletionEnds
PROPERTY Converges
CHECK_DEADLOCK FALSE
