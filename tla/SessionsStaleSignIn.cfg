SPECIFICATION Spec
CONSTANTS
  Users = {u1}
  SessionIds = {s1, s2}
  Families = {f1, f2}
  ResetIds = {r1}
  Passwords = {p1, p2}
  Tasks = {t1, t2}
  None = None
  RefreshTokenTtl = 1
  ActivityThreshold = 0
  ResetTokenTtl = 1
  MaxTokenAttempts = 2
  MaxNow = 0
  Requests <- SignInAndChange
SYMMETRY Symmetry
INVARIANTS LiveSessionsUseCurrentPassword
