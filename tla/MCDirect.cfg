\* One notification and a batch it may move to: waits, errors, a job that breaks off, a retry, a
\* batch that was there and closes while the notification moves, and all of it coming to an end.
SPECIFICATION FairSpec
CONSTANTS
  Notifications = {n1}
  Jobs = {1, 2, 3}
  Batches = {b1}
  NoBatch = NoBatch
  MaxErrors = 2
  MaxWaits = 1
  MaxFaults = 1
  MaxRetries = 1
CHECK_DEADLOCK FALSE
INVARIANTS TypeOK MovedGetsAJob OneJobPerNotification LostNeedsFault
PROPERTIES KeepsPromise JobsMoveOn DirectSettles
