SPECIFICATION Spec
CONSTANTS
  AccessTtl = 1
  RefreshTtl = 1
  NoClaim = NoClaim
  Users = {u1, u2}
  SessionIds = {1, 2}
  Jars = {"A", "B"}
  Tabs = {"a", "b"}
  Layouts <- SameOrNot
  Keys = {1, 2}
  SessionTtl = 1
  Endpoints = {"sign_in", "refresh", "me", "sessions", "logout", "revoke_session", "revoke_all", "change_password"}
  KeepCookie = KeepCookie
  ClearCookie = ClearCookie
  None = None
  MaxNow = 1
SYMMETRY Symmetry
INVARIANTS  BrowsersDontShareFamilies SpentCookieOnlyByLoss
PROPERTIES TokensStayInTheirPlace
