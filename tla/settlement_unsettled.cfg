SPECIFICATION Spec
CONSTANTS
  p1 = p1  p2 = p2  p3 = p3  e1 = e1  e2 = e2
  beat = beat  manual = manual  euro = euro
  Bank <- TwoBanks
  Zone = {"PL"}
  ZoneOf <- PLOnly
  Named = {}
  Amounts = {1}
  Task = {beat, manual}
  ZoneArg <- SameZone
  MaxStarts = 2
  MaxEntries = 1
  MaxCrashes = 0
PROPERTY UnsettledGoToNext
CHECK_DEADLOCK FALSE
