SPECIFICATION Spec
CONSTANTS
  r1 = r1
  NoOne = NoOne
  Replicas = {w1, w2}
  Requests = {q1}
  Roles = {r1}
  AccessSpecs <- BothModes
  TargetSpecs <- OneTarget
  Reconciliation = "additive"
  Duration = 1
  PendingTTL = 1
  MaxTime = 2
  Kinds = {"call", "label", "decide", "edit"}
  MaxEvents = 2
SYMMETRY Symmetry
INVARIANT TypeOK
INVARIANT ApprovalGatesAccess
PROPERTY DeadlineIsKept
PROPERTY TerminalIsFinal
CHECK_DEADLOCK FALSE
