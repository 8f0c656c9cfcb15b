SPECIFICATION FairSpec
CONSTANTS
  Users = {u1}
  SessionIds = {s1, s2}
  Families = {f1, f2}
  ResetIds = {r1}
  Passwords = {p1}
  Tasks = {t1, t2}
  None = None
  RefreshTokenTtl = 3
  ActivityThreshold = 1
  ResetTokenTtl = 1
  MaxTokenAttempts = 2
  MaxNow = 3
  Requests <- TokenRequests
PROPERTIES RequestsFinish LastUsedNeverGoesBack
CHECK_DEADLOCK FALSE
