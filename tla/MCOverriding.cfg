SPECIFICATION Spec
CONSTANTS
  success = success
  divby0 = divby0
  user = user
  Thread = {t1, t2}
  Code = {success, divby0, user}
  errInfos <- LibraryCodes
  Exits = {divby0}
CHECK_DEADLOCK FALSE
PROPERTIES ClientEntriesLast
