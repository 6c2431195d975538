SPECIFICATION PeopleSpec
CONSTANTS
  Handlers = {h1, h2}
  Days = {d1}
  Leaves = {l1}
  Corrections = {}
  MaxRows = 1
  NoDay = NoDay
  NoItem = NoItem
  NoHandler = NoHandler
PROPERTY
  PunchesKept
CHECK_DEADLOCK FALSE
