SPECIFICATION Spec
CONSTANTS
  p1 = p1  p2 = p2  p3 = p3  e1 = e1  e2 = e2
  beat = beat  manual = manual  euro = euro
  Bank <- ThreeBanks
  Zone = {"US"}
  ZoneOf <- AllUS
  Named <- SomeNamed
  Amounts = {1, 2}
  Task = {beat}
  ZoneArg <- BeatInUS
  MaxStarts = 1
  MaxEntries = 3
  MaxCrashes = 0
INVARIANTS TypeOK CompletedSessionCleared CompletedSessionMovedNet FailedSessionSettlesPaidPairs
SYMMETRY BankSymmetry
CHECK_DEADLOCK FALSE
