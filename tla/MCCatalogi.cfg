\* A catalogus with a zaaktype, while syncs run side by side and an admin edits and deletes.
SPECIFICATION FairSpec
CONSTANTS
  c1 = c1
  z1 = z1
  Catalogi = {c1}
  Zaaktypen = {z1}
  CatalogusOf <- OneCatalogus
  Workers = {w1, w2}
  Ids = {1, 2, 3, 4}
  NoRow = NoRow
  MaxRequests = 1
  MaxChanges = 2
  MaxEdits = 2
  MaxFaults = 1
INVARIANTS TypeOK SettingsKept KeepsExisting MappingsBelong
PROPERTIES KeepsPromise CatchesUp
