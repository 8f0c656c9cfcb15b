SPECIFICATION FairSpec
CONSTANTS
  UsernameLength = {2, 3}
  EmailMaxLength = 6
  PhoneDigits = {2, 3}
  MinPasswordLength = 3
  MaxPasswordLength = 4
  RequireEmail = FALSE
  RequirePhone = FALSE
  RequireContact = TRUE
  CharIsSigned = TRUE
  None = None
  Commands <- SomeCommands
  Spellings <- SomeSpellings
  CodeValues = {c1, c2}
  Tasks = {t1, t2}
  CodeTtl = 1
  MaxCodeAttempts = 1
  MaxUsers = 2
  MaxCodes = 3
  MaxNow = 1
INVARIANTS UniqueAccounts OwnersFindTheirAccounts OneUnusedCode CodesAreMailed
PROPERTIES OnlyLastMailVerifies ImplementsOneTimeCode RequestsFinish
CHECK_DEADLOCK FALSE
