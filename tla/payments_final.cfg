SPECIFICATION Spec
CONSTANTS
  bank1 = bank1  bank2 = bank2  shop = shop  mall = mall
  n1 = n1  n2 = n2  r1 = r1  r2 = r2  r3 = r3
  Bank = {bank1}
  Agent = {shop}
  ZoneOf <- OneZone
  Number = {n1}
  Key = {"k1"}
  Request = {r1}
  AgentOf <- OneAgent
  KeyOf <- SameKey
  CodeOf <- SameCode
  MerchantBank <- AtBank1
  Connected = {bank1}
  MayDisconnect = TRUE
  Funds = 1
  MaxIssues = 1
  MaxRetries = 1
  MaxConfirms = 1
  MaxCrashes = 0
PROPERTY DecisionIsFinal
CHECK_DEADLOCK FALSE
