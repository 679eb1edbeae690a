SPECIFICATION Spec
CONSTANTS
  h1 = h1
  h2 = h2
  Tables = {"incidents", "ext_events"}
  Events = "ext_events"
  Hubs = {h1, h2}
  Starts <- MCEither
  Shippers = {"thread", "manual"}
  Batch = 1
  Retention = TRUE
  MaxRows = 2
  MaxFailures = 1
  MaxRestarts = 1
  MaxReloads = 1
  MaxByHand = 1
SYMMETRY Symmetry
INVARIANTS
  ShipTypeOK
  ConfirmedIsStored
  NoHole
  ReplayCountsNothing
PROPERTIES
  DeletedIsStored
  Replicates
