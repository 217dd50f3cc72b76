SPECIFICATION Spec
CONSTANTS
  p1 = p1  p2 = p2  p3 = p3  e1 = e1  e2 = e2
  beat = beat  manual = manual  euro = euro
  Bank <- TwoZones
  Zone = {"PL", "EU"}
  ZoneOf <- PLAndEU
  Named = {e1, e2}
  Amounts = {1}
  Task = {beat, manual, euro}
  ZoneArg <- AnyZone
  MaxStarts = 2
  MaxEntries = 2
  MaxCrashes = 1
INVARIANT CompletedSessionMovedNet
PROPERTIES TakenOnce ClosedStaysClosed ImplementsClearing SessionEnds
CHECK_DEADLOCK FALSE
