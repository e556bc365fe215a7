SPECIFICATION RecoverySpec
CONSTANTS
  first = first
  again = again
  second = second
  impact = impact
  keep = keep
  swap = swap
  red = red
  blue = blue
  green = green
  Options = {red, blue, green}
  FirstOption = red
  Jobs = {first, second}
  KindOf <- MCKindOf
  OptionOf <- MCOptionOf
  RecoveryOf <- MCRecoveryOf
  TicketAttempts = 2
  MaxOrders = 3
  MaxClock = 0
CHECK_DEADLOCK FALSE
CONSTRAINT FewFaults
INVARIANTS
  RecoveryTypeOK
  NeverStranded
  CurrentIsConfirmed
  ReleasedAfterSecured
