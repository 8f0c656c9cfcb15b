SPECIFICATION Spec
CONSTANTS
  Workers = {w1, w2}
  JobIds = {j1, j2}
  Leases = {l1, l2, l3, l4}
  Configs <- AllConfigs
  Faults = {"crash", "database"}
  None = None
SYMMETRY Symmetry
INVARIANTS
  RowsAreConsistent
  LeaseIsExclusive
  SentMeansDelivered
  OneMailPerAttempt
PROPERTIES
  SettledIsFinal
  OnlyFaultsAbandon
