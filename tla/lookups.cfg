SPECIFICATION Spec
CONSTANTS
  b1 = b1  b2 = b2  p = p
  r1 = r1  r2 = r2  d1 = d1  d2 = d2
  Bank <- TheBanks
  Phone <- ThePhones
  Request <- TheRequests
  Op <- TheOp
  BankOf <- TheBankOf
  PhoneOf <- ThePhoneOf
  Fee <- TheFee
  MaxDay = 2
  MaxLookups = 3
  MaxFaults = 2
INVARIANTS
  TypeOK
  ListedIsOwned
  NeverOverbilled
CHECK_DEADLOCK FALSE
