\* A document linked to two zaken, while it is edited, uploaded and completed.
SPECIFICATION Spec
CONSTANTS
  Jobs = {j1, j2}
  Zaken = {z1, z2}
  Free = Free
  NoEntry = NoEntry
  MaxVersie = 4
  MaxAdds = 3
  MaxFaults = 1
SYMMETRY Symmetry
CHECK_DEADLOCK FALSE
INVARIANTS TypeOK RegisteredOnce RegisterTrue NewestArrives
PROPERTIES NeverOlder KeepsPromise
