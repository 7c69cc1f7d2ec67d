SPECIFICATION Spec
CONSTANTS
  c1 = c1
  c2 = c2
  Call = {c1}
  Kinds = {"market"}
  Amounts <- SomeAmounts
  Funds0 <- StartFunds
  MaxFund = 2
  MaxDebt = 1
CHECK_DEADLOCK FALSE
INVARIANT MarketAnswersForReceipt
