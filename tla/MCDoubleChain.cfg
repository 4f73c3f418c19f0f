\* A worker dies between two jobs of a chain, so the rest of the chain runs twice.
SPECIFICATION Spec
CONSTANTS
  Batches = {b1}
  Chains = {c1, c2}
  Workers = {w1}
  Zaken = {z1}
  Delivered = {"create:status"}
  NoBatch = NoBatch
  MaxNotifications = 3
  MaxTries = 2
  MaxDispatched = 1
  MaxFaults = 1
  MaxRetries = 0
  MayFail = FALSE
SYMMETRY Symmetry
PROPERTIES NeverOlderAfterNewer
