SPECIFICATION Spec
CONSTANTS
  Users = {u1}
  SessionIds = {s1}
  Families = {f1}
  ResetIds = {r1, r2}
  Passwords = {p1, p2}
  Tasks = {t1, t2, t3}
  None = None
  RefreshTokenTtl = 1
  ActivityThreshold = 0
  ResetTokenTtl = 1
  MaxTokenAttempts = 1
  MaxNow = 1
  Requests <- PasswordRequests
SYMMETRY Symmetry
INVARIANTS OneActiveReset
PROPERTIES ResetTokenIsConsumedOnce
