SPECIFICATION Spec
CONSTANTS
  bank1 = bank1  bank2 = bank2  shop = shop  mall = mall  n1 = n1 
  c1 = c1  c2 = c2  r1 = r1  r2 = r2  r3 = r3
  Bank = {bank1, bank2}
  Agent = {shop, mall}
  ZoneOf <- OneZone
  MerchantBank <- BanksOfMerchants
  Agreements <- Contracts
  Cheque = {c1, c2}
  BankOf <- OneIssuer
  AmountOf <- Amounts
  Code = {n1}
  NoCode = NoCode
  Key = {"k1"}
  Request = {r1, r2, r3}
  AgentOf <- Redeemers
  KeyOf <- SameKey
  CodeOf <- SameCode
  NoRequest = NoRequest
  Funds <- Enough
  MaxRetries = 1
  MaxFaults = 1
INVARIANTS TypeOK OneChequePerOrder PaidFromItsCheque AnsweredIsBooked RefundedNotRedeemed NeverOverdrawn
SYMMETRY Twins
CHECK_DEADLOCK FALSE
