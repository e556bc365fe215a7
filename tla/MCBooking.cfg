SPECIFICATION Spec
CONSTANTS
  capture = capture
  impact = impact
  red = red
  blue = blue
  Options = {red, blue}
  Jobs = {capture, impact}
  KindOf <- MCKindOf
  OptionOf <- MCOptionOf
  TicketAttempts = 2
  MaxOrders = 2
  MaxClock = 1
CHECK_DEADLOCK FALSE
INVARIANTS
  MonitoringIsTicketed
  ChargedOnceForCreated
  OrdersAccounted
  PaymentsAccounted
PROPERTIES
  EveryCallerStops
