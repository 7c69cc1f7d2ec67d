SPECIFICATION Spec
CONSTANTS
  c1 = c1
  c2 = c2
  Call = {c1, c2}
  Kinds = {"miner", "market"}
  Amounts <- SomeAmounts
  Funds0 <- StartFunds
  MaxFund = 2
  MaxDebt = 1
CHECK_DEADLOCK FALSE
SYMMETRY Perms
INVARIANT TypeOK
INVARIANT AnsweredAsPaid
INVARIANT NoMoreThanAsked
PROPERTY ReservedIsKept
