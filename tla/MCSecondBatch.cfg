\* A second batch of a zaak while the first is still on the queue.
SPECIFICATION Spec
CONSTANTS
  Batches = {b1, b2}
  Chains = {c1, c2}
  Workers = {w1}
  Zaken = {z1}
  Delivered = {"create:zaak", "create:status"}
  NoBatch = NoBatch
  MaxNotifications = 3
  MaxTries = 2
  MaxDispatched = 1
  MaxFaults = 0
  MaxRetries = 0
  MayFail = FALSE
SYMMETRY Symmetry
INVARIANTS CreateZaakFirst
