SPECIFICATION FairSpec
CONSTANTS
  Workers = {w1}
  JobIds = {j1}
  Leases = {l1}
  Configs <- OneAttempt
  Faults = {"crash"}
  None = None
PROPERTIES
  DeliveredPayloadIsCleared
