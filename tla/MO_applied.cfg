SPECIFICATION Spec
CONSTANTS
  i1 = i1
  i2 = i2
  k2 = k2
  k9 = k9
  c1 = c1
  c2 = c2
  c3 = c3
  NoAddr = NoAddr
  Call = {c1, c2, c3}
  Id <- MCId
  Key <- MCKey
  IdOf <- MCIdOf
  Requests <- Some
  Miner0 <- MCMiner0
CHECK_DEADLOCK FALSE
INVARIANT NoTermMeansFailed
