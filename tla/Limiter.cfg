SPECIFICATION FairSpec
CONSTANTS
  Tasks = {t1, t2, t3}
  Keys = {1, 2, 3, 4}
  Scopes <- Cycle
  AttemptIds = {1, 2}
  Limit <- SmallLimits
  Window = 1
  Tables = {"sign_in_attempts", "sign_up_attempts"}
  MaxNow = 1
  None = None
INVARIANTS WindowLimit CountStaysTrue
PROPERTIES RequestsFinish
