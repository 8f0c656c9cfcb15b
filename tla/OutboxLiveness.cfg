SPECIFICATION FairSpec
CONSTANTS
  Workers = {w1, w2}
  JobIds = {j1, j2}
  Leases = {l1, l2, l3, l4}
  Configs <- TwoAttempts
  Faults = {"crash", "database"}
  None = None
PROPERTIES
  JobsSettle
