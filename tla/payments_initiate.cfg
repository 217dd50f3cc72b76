SPECIFICATION Spec
CONSTANTS
  bank1 = bank1  bank2 = bank2  shop = shop  mall = mall
  n1 = n1  n2 = n2  r1 = r1  r2 = r2  r3 = r3
  Bank = {bank1, bank2}
  Agent = {shop}
  ZoneOf <- TwoZones
  Number = {n1, n2}
  Key = {"k1"}
  Request = {r1, r2, r3}
  AgentOf <- OneAgent
  KeyOf <- SameKey
  CodeOf <- OddCode
  MerchantBank <- AtBank1
  Connected = {bank1}
  MayDisconnect = TRUE
  Funds = 1
  MaxIssues = 2
  MaxRetries = 0
  MaxConfirms = 0
  MaxCrashes = 1
INVARIANTS SameAnswer AnsweredIsEnqueued
CHECK_DEADLOCK FALSE
