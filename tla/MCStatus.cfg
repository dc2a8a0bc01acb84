SPECIFICATION FairSpec
CONSTANTS
  success = success
  divby0 = divby0
  user = user
  Thread = {t1, t2, t3}
  Code = {success, divby0, user}
  errInfos <- LibraryCodes
  Exits = {divby0}
CHECK_DEADLOCK FALSE
INVARIANTS KnownOnceStarted
PROPERTIES ClientEntriesStay GetInstanceReturns
