SPECIFICATION Spec
CONSTANTS
  Users = {u1}
  SessionIds = {s1, s2, s3}
  Families = {f1}
  ResetIds = {r1}
  Passwords = {p1}
  Tasks = {t1, t2}
  None = None
  RefreshTokenTtl = 1
  ActivityThreshold = 0
  ResetTokenTtl = 1
  MaxTokenAttempts = 2
  MaxNow = 0
  Requests <- RefreshOnly
SYMMETRY Symmetry
PROPERTIES ReuseRevokesWholeFamily
