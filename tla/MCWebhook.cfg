SPECIFICATION Spec
CONSTANTS
  o1 = o1
  worker = worker
  sweeper = sweeper
  Records = {o1}
  Verifiers = {worker, sweeper}
  Sweeper = sweeper
  Results = {"SUCCESS"}
  MaxAttempts = {}
  MaxDuration = {12}
  MaxClock = 8
  MaxRows = 3
  Window = 2
  Interval = 2
  Patience = 1
  MaxFaults = 1
INVARIANTS
  TypeOK
  ConfirmationsBounded
  TriggersAnswered
  KeptInformed
