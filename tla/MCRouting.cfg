\* Links and changes of one document and two zaken, while a mapping changes.
SPECIFICATION Spec
CONSTANTS
  Zaken = {z1, z2}
  Workers = {w1}
  Notifications = {n1, n2, n3}
  NoZaak = NoZaak
  NoEntry = NoEntry
  MaxVersie = 2
  MaxLinks = 2
  MaxDisruptions = 1
SYMMETRY Symmetry
CHECK_DEADLOCK FALSE
PROPERTIES KeepsPromise
INVARIANTS TypeOK FirstLinkCarriesChange NoSilentMiss
