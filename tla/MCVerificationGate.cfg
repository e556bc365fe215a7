SPECIFICATION GateSpec
CONSTANTS
  order = order
  webhook = webhook
  sweep = sweep
  Records = {order}
  Verifiers = {webhook, sweep}
  Results = {"SUCCESS", "FAILURE", "INCONCLUSIVE", "NOT_FOUND"}
  MaxAttempts = {3}
  MaxDuration = {2}
  MaxClock = 3
  MaxRows = 3
SYMMETRY Threads
INVARIANTS
  ReportableIsNewest
  AbsenceIsBounded
