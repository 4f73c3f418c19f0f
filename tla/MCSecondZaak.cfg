\* A document is added to one zaak, and then twice to another.
SPECIFICATION Spec
CONSTANTS
  Jobs = {j1, j2}
  Zaken = {z1, z2}
  Free = Free
  NoEntry = NoEntry
  MaxVersie = 2
  MaxAdds = 3
  MaxFaults = 0
SYMMETRY Symmetry
CHECK_DEADLOCK FALSE
INVARIANTS AddedOnce
