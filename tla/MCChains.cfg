\* Jobs that fail, are released, retried and run twice after a worker died.
SPECIFICATION Spec
CONSTANTS
  Batches = {b1}
  Chains = {c1, c2, c3}
  Workers = {w1}
  Zaken = {z1}
  Delivered = {"create:zaak", "create:zaakinformatieobject", "other"}
  NoBatch = NoBatch
  MaxNotifications = 2
  MaxTries = 2
  MaxDispatched = 1
  MaxFaults = 1
  MaxRetries = 1
  MayFail = TRUE
SYMMETRY Symmetry
INVARIANTS TypeOK ProcessedMeansHandled HandledInOrder FailedCanBeFinished StrandedNeedsFault RepeatsNeedFaults
PROPERTIES StaysProcessed KeepsPromise OvertakingNeedsFaults ChainsMoveOn
