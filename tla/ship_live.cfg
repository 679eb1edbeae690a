SPECIFICATION EventDriven
CONSTANTS
  h1 = h1
  h2 = h2
  Tables = {"ext_events"}
  Events = "ext_events"
  Hubs = {h1, h2}
  Starts <- MCAllHubs
  Shippers = {"thread"}
  Batch = 1
  Retention = FALSE
  MaxRows = 2
  MaxFailures = 1
  MaxRestarts = 1
  MaxReloads = 0
  MaxByHand = 0
PROPERTIES
  Delivered
  ExpeditedArrives
