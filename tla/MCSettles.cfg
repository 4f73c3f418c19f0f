\* Liveness: every notification comes to rest.
SPECIFICATION FairSpec
CONSTANTS
  Batches = {b1}
  Chains = {c1, c2}
  Workers = {w1}
  Zaken = {z1}
  Delivered = {"create:zaak", "create:zaakinformatieobject", "other"}
  NoBatch = NoBatch
  MaxNotifications = 2
  MaxTries = 2
  MaxDispatched = 1
  MaxFaults = 1
  MaxRetries = 0
  MayFail = TRUE
PROPERTIES EverythingSettles
