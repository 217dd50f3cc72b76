SPECIFICATION Spec
CONSTANTS
  bank1 = bank1  bank2 = bank2  shop = shop  mall = mall
  n1 = n1  n2 = n2  r1 = r1  r2 = r2  r3 = r3
  Bank = {bank1}
  Agent = {shop, mall}
  ZoneOf <- OneZone
  Number = {n1}
  Key = {"k1"}
  Request = {r1, r2}
  AgentOf <- TwoAgents
  KeyOf <- SameKey
  CodeOf <- SameCode
  MerchantBank <- OneOnUs
  Connected = {bank1}
  MayDisconnect = FALSE
  Funds = 1
  MaxIssues = 2
  MaxRetries = 0
  MaxConfirms = 2
  MaxCrashes = 0
INVARIANTS BookedIfCompleted CodePaysOnce
PROPERTY ImplementsPayment
CHECK_DEADLOCK FALSE
