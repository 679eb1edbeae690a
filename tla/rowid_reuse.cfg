SPECIFICATION Spec
CONSTANTS
  h1 = h1
  Tables = {"ext_events"}
  Events = "ext_events"
  Hubs = {h1}
  Starts <- MCAllHubs
  Shippers = {"thread"}
  Batch = 1
  Retention = TRUE
  MaxRows = 3
  MaxFailures = 0
  MaxRestarts = 0
  MaxReloads = 0
  MaxByHand = 0
PROPERTIES
  UnshippedIsKept
