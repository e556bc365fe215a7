SPECIFICATION FairSpec
CONSTANTS
  service = service
  api = api
  Writers = {service, api}
  MaxLogEntries = 2
  MaxEvents = 3
  MaxFaults = 1
CHECK_DEADLOCK FALSE
INVARIANTS
  TypeOK
  ShownOnceInOrder
  PendingIsOutstanding
  ClosesAfterDelivery
PROPERTIES
  EndsWhenFinished
  ImplementsFeed
