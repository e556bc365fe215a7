SPECIFICATION RecoverySpec
CONSTANTS
  first = first
  again = again
  second = second
  impact = impact
  keep = keep
  swap = swap
  red = red
  blue = blue
  green = green
  Options = {red, blue, green}
  FirstOption = red
  Jobs = {first, again, impact}
  KindOf <- MCKindOf
  OptionOf <- MCOptionOf
  RecoveryOf <- MCRecoveryOf
  TicketAttempts = 2
  MaxOrders = 3
  MaxClock = 1
CHECK_DEADLOCK FALSE
INVARIANT EachGrantSpendsOnce
PROPERTIES
  ConcludedIsFinal
  RecoveriesAdvance
SYMMETRY MCSymmetry
