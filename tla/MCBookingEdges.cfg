SPECIFICATION Spec
CONSTANTS
  capture = capture
  impact = impact
  red = red
  blue = blue
  Options = {red, blue}
  Jobs = {capture, impact}
  KindOf <- MCKindOf
  OptionOf <- MCOptionOf
  TicketAttempts = 2
  MaxOrders = 1
  MaxClock = 0
CHECK_DEADLOCK FALSE
PROPERTY DocumentedTransitions
