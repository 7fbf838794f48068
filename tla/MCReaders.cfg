SPECIFICATION ReadersSpec
CONSTANTS
  Texts <- MCTexts
  Codes = {"code 1", "code 2"}
  Sites = {"site 1", "site 2"}
  Waits = {"wait 1", "wait 2"}
  Unreadable = Unreadable
  AnySite = AnySite
  NoCap = NoCap
  NoWait = NoWait
  Files <- MCFiles
  Schema <- MCSchema
  AnyKey <- MCAnyKey
  Stages = {"program"}
  Kinds = {"positive"}
  BadValue = "bad"
  ListValue = "list"
INVARIANTS
  ProblemsNamed
  LastWins
  ErrorsAsWritten
  AcceptsTheRules
  NothingLost
CHECK_DEADLOCK FALSE
