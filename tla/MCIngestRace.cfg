\* Two ingests and several DispatchBatch jobs at once; nothing fails.
SPECIFICATION Spec
CONSTANTS
  Batches = {b1, b2}
  Chains = {c1, c2}
  Workers = {w1, w2}
  Zaken = {z1}
  Delivered = {"create:zaak", "create:status"}
  NoBatch = NoBatch
  MaxNotifications = 3
  MaxTries = 2
  MaxDispatched = 2
  MaxFaults = 0
  MaxRetries = 0
  MayFail = FALSE
SYMMETRY Symmetry
INVARIANTS OneChainPerBatch CreatedOncePerBatch
PROPERTIES JoinsOpenBatch KeepsPromise OvertakingNeedsFaults
