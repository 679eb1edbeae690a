SPECIFICATION Spec
CONSTANTS
  h1 = h1
  h2 = h2
  Tables = {"ext_events"}
  Events = "ext_events"
  Hubs = {h1, h2}
  Starts <- MCAllHubs
  Shippers = {"thread", "manual"}
  Batch = 1
  Retention = FALSE
  MaxRows = 2
  MaxFailures = 0
  MaxRestarts = 0
  MaxReloads = 0
  MaxByHand = 1
SYMMETRY Symmetry
INVARIANTS
  ConfirmedIsStored
