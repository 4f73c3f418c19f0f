\* A create:zaak that is delivered twice.
SPECIFICATION Spec
CONSTANTS
  Batches = {b1}
  Chains = {c1}
  Workers = {w1}
  Zaken = {z1}
  Delivered = {"create:zaak"}
  NoBatch = NoBatch
  MaxNotifications = 2
  MaxTries = 2
  MaxDispatched = 1
  MaxFaults = 0
  MaxRetries = 0
  MayFail = FALSE
SYMMETRY Symmetry
INVARIANTS NeverIncomplete
