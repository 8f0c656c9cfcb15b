SPECIFICATION Spec
CONSTANTS
  Users = {u1}
  SessionIds = {s1, s2, s3, s4}
  Families = {f1, f2}
  ResetIds = {r1}
  Passwords = {p1}
  Tasks = {t1, t2, t3}
  None = None
  RefreshTokenTtl = 1
  ActivityThreshold = 0
  ResetTokenTtl = 1
  MaxTokenAttempts = 2
  MaxNow = 0
  Requests <- TokenRequests
SYMMETRY Symmetry
INVARIANTS TypeOK OneLiveSessionPerFamily FamilyIsChain HandlersAreIsolated
PROPERTIES BulkRevokeCoversSnapshot ImplementsTokenFamily
