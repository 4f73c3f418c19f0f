\* A document that is linked to a zaak again.
SPECIFICATION Spec
CONSTANTS
  Zaken = {z1}
  Workers = {w1}
  Notifications = {n1, n2, n3}
  NoZaak = NoZaak
  NoEntry = NoEntry
  MaxVersie = 2
  MaxLinks = 2
  MaxDisruptions = 1
SYMMETRY Symmetry
CHECK_DEADLOCK FALSE
INVARIANTS LinkCarriesChange
